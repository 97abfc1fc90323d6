--------------------------- MODULE BundleContract ---------------------------
(***************************************************************************)
(* What the devices of a project are shown of its runtime bundles, with    *)
(* the drafts, the directories and the calls of `koolbase bundle` hidden:  *)
(* a bundle is there at once, with its archive and the checksum of it, and *)
(* is never another one afterwards; it can be recalled, once and for all,  *)
(* and only then withdrawn; its mandatory flag can be flipped meanwhile.   *)
(***************************************************************************)
VARIABLE shown   \* from the numbers of the bundles there are to their records

Whole(n, b) ==
  b.archive.number = n /\ b.archive.payload = b.payload /\ b.checksum = b.archive

\* All bundles but n, which may come or go, are as they were.
Others(n) ==
  /\ DOMAIN shown' \cup {n} = DOMAIN shown \cup {n}
  /\ \A m \in DOMAIN shown \ {n} : shown'[m] = shown[m]

Init == shown = [n \in {} |-> n]

Publish(n) ==
  /\ n \notin DOMAIN shown /\ n \in DOMAIN shown' /\ Others(n)
  /\ Whole(n, shown'[n]) /\ shown'[n].status = "published"

\* What a user may do to a bundle that is there.
Becomes(n, b) == n \in DOMAIN shown' /\ Others(n) /\ shown'[n] = b
Recall(n) ==
  /\ shown[n].status = "published"
  /\ Becomes(n, [shown[n] EXCEPT !.status = "recalled"])
Flip(n) == Becomes(n, [shown[n] EXCEPT !.mandatory = ~@])
Withdraw(n) ==
  shown[n].status = "recalled" /\ n \notin DOMAIN shown' /\ Others(n)

Next ==
  \/ \E n \in DOMAIN shown' : Publish(n)
  \/ \E n \in DOMAIN shown : Recall(n) \/ Flip(n) \/ Withdraw(n)

Spec == Init /\ [][Next]_shown
=============================================================================
