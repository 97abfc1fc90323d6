------------------------------- MODULE Remote -------------------------------
(***************************************************************************)
(* One call of the API client (src/internal/api/client.go).  Every command *)
(* sees a call end in one of two ways, a value or an error, while the      *)
(* server sees it carried out or not; the third combination, carried out   *)
(* on the server and reported as an error, is what the 30 second timeout,  *)
(* a cut connection or an unreadable body leaves behind.                   *)
(***************************************************************************)

\* "ok"       carried out, and answered with the status the caller accepts;
\* "refused"  not carried out: an error status, or the request never arrived;
\* "lost"     carried out, but the caller gets an error.
Outcomes == {"ok", "refused", "lost"}

CarriedOut(o) == o # "refused"
Reported(o)   == o = "ok"
=============================================================================
