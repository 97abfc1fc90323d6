------------------------------- MODULE KbDiff -------------------------------
(***************************************************************************)
(* The binary diff of a patch (src/cmd/kbdiff_internal.go): kbBsdiff walks *)
(* the new blob, looks every position up in the sorted suffixes of the     *)
(* base, and cuts the new blob into stretches that are near copies of the  *)
(* base (stored as differences) and stretches that are not (stored as      *)
(* they are); kbpatchDecode (kbpatch_internal.go) replays them, and        *)
(* buildDiffPatch ships the patch only if the result is the new blob.      *)
(*                                                                         *)
(* One blob pair, chosen in the initial state.  The sort of the suffixes   *)
(* is its result; a triple of the control stream is one element of it; the *)
(* deflate streams and the header are left out.                            *)
(***************************************************************************)
EXTENDS Integers, Sequences, FiniteSets

CONSTANTS ByteSize,   \* how many values a byte has, 256 in the code
          Slack,      \* how much longer a match must be than the score, 8
          MaxOld, MaxNew   \* bounds on the lengths of the blobs

VARIABLES old, new,   \* the base blob and the new one
          suffixes,   \* where the suffixes of the base start, in their order
          scan,       \* the walk of kbBsdiff, see DiffTypeOK
          delta,      \* the three streams
          replay      \* the walk of kbpatchDecode

diffVars == <<old, new, suffixes, scan, delta, replay>>

Blobs(n) == UNION {[1..k -> 0..(ByteSize - 1)] : k \in 0..n}
OldSize  == Len(old)
NewSize  == Len(new)
\* Blobs are indexed from 0, as in the code.
O(i) == old[i + 1]
N(i) == new[i + 1]
Smaller(a, b) == IF a < b THEN a ELSE b
Offset == {0, 1} \X Nat

ASSUME DiffAssumption ==
  /\ ByteSize \in Nat \ {0} /\ Slack \in Nat
  /\ MaxOld \in Nat /\ MaxNew \in Nat

\* at, len, pos, score: scan, length, pos and oldscore; scored: scsc; st, en:
\* the ranks that kbSearch bisects between; lastscan, lastpos: where the blobs
\* are after what was emitted; lastoffset: their distance at the last match.
DiffTypeOK ==
  /\ old \in Blobs(MaxOld) /\ new \in Blobs(MaxNew)
  /\ suffixes \in {<<>>} \cup [0..OldSize -> 0..OldSize]
  /\ scan \in [pc: {"sort", "outer", "inner", "search", "emit", "done"},
               st: 0..OldSize, en: 0..OldSize,
               at: 0..NewSize, len: 0..NewSize, pos: 0..OldSize,
               score: Int, scored: Nat, lastscan: 0..NewSize,
               lastpos: 0..OldSize, lastoffset: Int]
  /\ delta \in [control: Seq(Offset \X Offset \X Offset), diff: Seq(0..(ByteSize - 1)),
                extra: Seq(0..(ByteSize - 1))]
  /\ replay \in [pc: {"waiting", "run", "minted", "refused"},
                 triple: Nat, oldpos: Int, diffpos: Nat, extrapos: Nat,
                 out: Seq(0..(ByteSize - 1))]

DiffInit ==
  /\ old \in Blobs(MaxOld) \ {<<>>} /\ new \in Blobs(MaxNew) \ {<<>>}
  /\ suffixes = <<>>
  /\ scan = [pc |-> "sort", st |-> 0, en |-> 0, at |-> 0, len |-> 0, pos |-> 0,
             score |-> 0, scored |-> 0, lastscan |-> 0, lastpos |-> 0, lastoffset |-> 0]
  /\ delta = [control |-> <<>>, diff |-> <<>>, extra |-> <<>>]
  /\ replay = [pc |-> "waiting", triple |-> 0, oldpos |-> 0, diffpos |-> 0,
               extrapos |-> 0, out |-> <<>>]

-----------------------------------------------------------------------------
\* Searching

\* kbMatchlen of the base from p and the new blob from s.
MatchLen(p, s) ==
  LET n == Smaller(OldSize - p, NewSize - s)
  IN CHOOSE k \in 0..n : /\ \A i \in 0..(k - 1) : O(p + i) = N(s + i)
                         /\ k = n \/ O(p + k) # N(s + k)

\* kbQsufsort: the suffixes of the base, the empty one included, in order.
SuffixBefore(p, q) ==
  \E k \in 0..(OldSize - p) :
    /\ k <= OldSize - q
    /\ \A i \in 0..(k - 1) : O(p + i) = O(q + i)
    /\ q + k < OldSize
    /\ p + k = OldSize \/ O(p + k) < O(q + k)
Sort ==
  /\ scan.pc = "sort" /\ scan' = [scan EXCEPT !.pc = "outer"]
  /\ suffixes' \in {I \in [0..OldSize -> 0..OldSize] :
                     \A r \in 1..OldSize : SuffixBefore(I[r - 1], I[r])}
  /\ UNCHANGED <<old, new, delta, replay>>

\* kbSearch: bisect the suffixes between two ranks.  What is compared is cut to
\* the shorter of the two, so a suffix the new blob goes on after counts as not
\* smaller: at the end of the base the match found may not be the longest.
Less(p, s) ==
  LET k == MatchLen(p, s)
  IN p + k < OldSize /\ s + k < NewSize /\ O(p + k) < N(s + k)
Bisect ==
  /\ scan.pc = "search" /\ scan.en - scan.st >= 2
  /\ LET x == scan.st + (scan.en - scan.st) \div 2
     IN scan' = IF Less(suffixes[x], scan.at) THEN [scan EXCEPT !.st = x]
                                              ELSE [scan EXCEPT !.en = x]
  /\ UNCHANGED <<old, new, suffixes, delta, replay>>
Found ==
  LET a == suffixes[scan.st]  b == suffixes[scan.en]
  IN IF MatchLen(a, scan.at) > MatchLen(b, scan.at) THEN a ELSE b

-----------------------------------------------------------------------------
\* Scanning

\* Does the byte at s go on with the last match?
GoesOn(s) == s + scan.lastoffset < OldSize /\ O(s + scan.lastoffset) = N(s)

\* The outer loop: past the match, and a new score.
NextMatch ==
  /\ scan.pc = "outer"
  /\ scan' = IF scan.at = NewSize THEN [scan EXCEPT !.pc = "done"]
             ELSE [scan EXCEPT !.pc = "inner", !.at = @ + scan.len,
                               !.scored = scan.at + scan.len, !.score = 0]
  /\ UNCHANGED <<old, new, suffixes, delta, replay>>

\* The inner loop: look one position up.
Seek ==
  /\ scan.pc = "inner" /\ scan.at < NewSize
  /\ scan' = [scan EXCEPT !.pc = "search", !.st = 0, !.en = OldSize]
  /\ UNCHANGED <<old, new, suffixes, delta, replay>>

\* A bug: a match of no bytes is as good as the last one.
StopsAtNone(len, score) == len = score \/ len > score + Slack
\* Is a match one that goes on with the last one, or that it does not explain?
Stops(len, score) == (len = score /\ len # 0) \/ len > score + Slack

\* What was found: stop there, or go to the next position.
LookUp ==
  /\ scan.pc = "search" /\ scan.en - scan.st < 2
  /\ LET p == Found
         len == MatchLen(p, scan.at)
         upto == IF scan.at + len > scan.scored THEN scan.at + len ELSE scan.scored
         score == scan.score
                  + Cardinality({s \in scan.scored..(upto - 1) : GoesOn(s)})
         found == [scan EXCEPT !.pos = p, !.len = len, !.scored = upto,
                               !.score = score]
     IN scan' =
          IF Stops(len, score)
          THEN [found EXCEPT !.pc = "emit"]
          ELSE [found EXCEPT !.pc = "inner", !.at = @ + 1,
                  !.score = IF GoesOn(scan.at) THEN @ - 1 ELSE @]
  /\ UNCHANGED <<old, new, suffixes, delta, replay>>

ScanEnds ==
  /\ scan.pc = "inner" /\ scan.at = NewSize
  /\ scan' = [scan EXCEPT !.pc = "emit"]
  /\ UNCHANGED <<old, new, suffixes, delta, replay>>

-----------------------------------------------------------------------------
\* Emitting

\* The first of the lengths 0..n with the highest value.
Best(n, value) ==
  CHOOSE i \in 0..n : \A j \in 0..n :
    value[j] < value[i] \/ (value[j] = value[i] /\ j >= i)

\* How far what follows the last match is worth copying, and how far what
\* precedes the new one: at least every other byte is right.
Forward ==
  LET Right(i) == Cardinality({k \in 0..(i - 1) :
                    O(scan.lastpos + k) = N(scan.lastscan + k)})
      upto == Smaller(scan.at - scan.lastscan, OldSize - scan.lastpos)
  IN Best(upto, [i \in 0..upto |-> 2 * Right(i) - i])
Backward ==
  LET Right(i) == Cardinality({k \in 1..i : O(scan.pos - k) = N(scan.at - k)})
      upto == Smaller(scan.at - scan.lastscan, scan.pos)
  IN IF scan.at < NewSize
     THEN Best(upto, [i \in 0..upto |-> 2 * Right(i) - i]) ELSE 0

\* A bug: both stretches are kept although they overlap.
NoSplit(f, b) == <<f, b>>
\* Where they overlap, the cut is where most bytes are right.
Split(f, b) ==
  LET overlap == (scan.lastscan + f) - (scan.at - b)
      Fwd(i) == N(scan.lastscan + f - overlap + i) = O(scan.lastpos + f - overlap + i)
      Bwd(i) == N(scan.at - b + i) = O(scan.pos - b + i)
      cut == Best(overlap, [n \in 0..overlap |->
                              Cardinality({i \in 0..(n - 1) : Fwd(i)})
                              - Cardinality({i \in 0..(n - 1) : Bwd(i)})])
  IN IF overlap > 0 THEN <<f + cut - overlap, b - cut>> ELSE <<f, b>>

\* kbOfftout and kbOfftin: the bit of the sign, and the magnitude.
Offtout(x) == IF x < 0 THEN <<1, -x>> ELSE <<0, x>>
Offtin(y)  == IF y[1] = 1 THEN -y[2] ELSE y[2]

Emit ==
  /\ scan.pc = "emit"
  /\ IF scan.len # scan.score \/ scan.at = NewSize
     THEN LET s == Split(Forward, Backward)
              f == s[1]  b == s[2]
              gap == (scan.at - b) - (scan.lastscan + f)
          IN /\ delta' = [delta EXCEPT
                  !.diff = @ \o [i \in 1..f |->
                     (N(scan.lastscan + i - 1) - O(scan.lastpos + i - 1)) % ByteSize],
                  !.extra = @ \o [i \in 1..gap |-> N(scan.lastscan + f + i - 1)],
                  !.control = Append(@, <<Offtout(f), Offtout(gap),
                     Offtout((scan.pos - b) - (scan.lastpos + f))>>)]
             /\ scan' = [scan EXCEPT !.pc = "outer", !.lastscan = scan.at - b,
                           !.lastpos = scan.pos - b,
                           !.lastoffset = scan.pos - scan.at]
     ELSE scan' = [scan EXCEPT !.pc = "outer"] /\ UNCHANGED delta
  /\ UNCHANGED <<old, new, suffixes, replay>>

-----------------------------------------------------------------------------
\* kbpatchDecode, and the verification in buildDiffPatch

BeginReplay ==
  /\ scan.pc = "done" /\ replay.pc = "waiting"
  /\ replay' = [replay EXCEPT !.pc = "run"]
  /\ UNCHANGED <<old, new, suffixes, scan, delta>>

\* One triple: so many bytes of the base with differences added, a byte outside
\* of it counting as 0; so many new bytes; and a seek in the base.
ReplayTriple ==
  /\ replay.pc = "run" /\ Len(replay.out) < NewSize
  /\ IF replay.triple = Len(delta.control)
     THEN replay' = [replay EXCEPT !.pc = "refused"]
     ELSE LET c == [k \in 1..3 |-> Offtin(delta.control[replay.triple + 1][k])]
              Base(p) == IF p \in 0..(OldSize - 1) THEN O(p) ELSE 0
          IN IF Len(replay.out) + c[1] + c[2] > NewSize
             THEN replay' = [replay EXCEPT !.pc = "refused"]
             ELSE replay' = [replay EXCEPT
                    !.triple = @ + 1, !.oldpos = @ + c[1] + c[3],
                    !.diffpos = @ + c[1], !.extrapos = @ + c[2],
                    !.out = @ \o [i \in 1..c[1] |->
                                   (Base(replay.oldpos + i - 1)
                                    + delta.diff[replay.diffpos + i]) % ByteSize]
                              \o [i \in 1..c[2] |->
                                   delta.extra[replay.extrapos + i]]]
  /\ UNCHANGED <<old, new, suffixes, scan, delta>>

SelfVerify ==
  /\ replay.pc = "run" /\ Len(replay.out) >= NewSize
  /\ replay' = [replay EXCEPT !.pc = IF replay.out = new
                                     THEN "minted" ELSE "refused"]
  /\ UNCHANGED <<old, new, suffixes, scan, delta>>

DiffNext == Sort \/ NextMatch \/ Seek \/ Bisect \/ LookUp \/ ScanEnds \/ Emit
            \/ BeginReplay \/ ReplayTriple \/ SelfVerify
DiffSpec == DiffInit /\ [][DiffNext]_diffVars

-----------------------------------------------------------------------------
\* "A differ bug" (build_diff_patch.go:66) never shows: for every two blobs the
\* self-verification accepts what kbBsdiff produced, because the streams
\* emitted so far always rebuild the new blob up to lastscan, whatever the
\* search found, wherever matches overlap, and at both ends of the base.
DiffRebuilds ==
  /\ replay.pc # "refused"
  /\ Len(delta.diff) + Len(delta.extra) = scan.lastscan
  /\ replay.out = SubSeq(new, 1, Len(replay.out))

\* Why: a match found ends within the new blob; the walk is over only when all
\* of it is emitted; and there are marks, where the blobs and the streams are
\* before and after each triple, by which the triple says of the stretch of
\* the new blob between two of them what is there, and by which it is replayed.
ScanInv ==
  /\ scan.pc = "sort" => scan.at + scan.len < NewSize
  /\ scan.pc # "sort" => suffixes \in [0..OldSize -> 0..OldSize]
  /\ scan.pc = "search" => scan.at < NewSize
  /\ scan.pc \in {"outer", "emit"} /\ scan.at < NewSize => scan.at + scan.len <= NewSize
  /\ scan.pc = "done" \/ (scan.pc = "outer" /\ scan.at = NewSize) =>
       scan.lastscan = NewSize
  /\ scan.lastscan <= scan.at
  /\ replay.pc # "waiting" => scan.pc = "done"

Marks == [new: Nat, old: Nat, diff: Nat, extra: Nat]
Copied(t) == Offtin(delta.control[t][1])
Added(t)  == Offtin(delta.control[t][2])
Encoded(m, t, n) ==
  /\ Copied(t) \in Nat /\ Added(t) \in Nat /\ m.old + Copied(t) <= OldSize
  /\ n.new = m.new + Copied(t) + Added(t) /\ n.new <= NewSize
  /\ n.old = m.old + Copied(t) + Offtin(delta.control[t][3])
  /\ n.diff = m.diff + Copied(t) /\ n.diff <= Len(delta.diff)
  /\ n.extra = m.extra + Added(t) /\ n.extra <= Len(delta.extra)
  /\ n.diff + n.extra = n.new
  /\ \A i \in 1..Copied(t) :
       delta.diff[m.diff + i] = (N(m.new + i - 1) - O(m.old + i - 1)) % ByteSize
  /\ \A i \in 1..Added(t) : delta.extra[m.extra + i] = N(m.new + Copied(t) + i - 1)
Marked(mark) ==
  /\ mark[0] = [new |-> 0, old |-> 0, diff |-> 0, extra |-> 0]
  /\ \A t \in 1..Len(delta.control) : Encoded(mark[t - 1], t, mark[t])
  /\ mark[Len(delta.control)] = [new |-> scan.lastscan, old |-> scan.lastpos,
                                 diff |-> Len(delta.diff), extra |-> Len(delta.extra)]
Replayed(mark) ==
  /\ replay.triple \in 0..Len(delta.control)
  /\ mark[replay.triple] = [new |-> Len(replay.out), old |-> replay.oldpos,
                            diff |-> replay.diffpos, extra |-> replay.extrapos]
  /\ replay.pc = "waiting" => replay.triple = 0
DiffInv ==
  /\ DiffTypeOK /\ DiffRebuilds /\ ScanInv
  /\ \E mark \in [0..Len(delta.control) -> Marks] : Marked(mark) /\ Replayed(mark)

-----------------------------------------------------------------------------
\* The loops of kbBsdiff and of kbpatchDecode end: there is a measure that each
\* of their steps lowers, how much of the new blob the walk has not passed,
\* where it is in a round, and the triples not replayed.  The outer loop may go
\* round without emitting, and the inner one stop where it began, so that it
\* takes the score to see that the walk gets on.
Passed == IF scan.pc \in {"outer", "emit"} /\ scan.at < NewSize
          THEN scan.at + scan.len ELSE scan.at
Rank == [sort   |-> OldSize + 6,
         emit   |-> IF scan.at < NewSize THEN OldSize + 5 ELSE 2,
         outer  |-> IF scan.at < NewSize THEN OldSize + 4 ELSE 1,
         inner  |-> OldSize + 3,
         search |-> scan.en - scan.st,
         done   |-> 0][scan.pc]
Unreplayed == [waiting |-> Len(delta.control) + 2,
               run     |-> Len(delta.control) - replay.triple + 1,
               minted  |-> 0, refused |-> 0][replay.pc]
ToDo == <<NewSize - Passed, Rank, Unreplayed>>
Earlier(a, b) ==
  \/ a[1] < b[1]
  \/ a[1] = b[1] /\ (a[2] < b[2] \/ (a[2] = b[2] /\ a[3] < b[3]))
DiffEnds == [][Earlier(ToDo', ToDo) /\ ToDo \in Nat \X Nat \X Nat]_diffVars

\* Why: the score is how many of the bytes of the match at hand go on with the
\* last one, less one if the position itself was left uncounted.
Explained(a, b) == Cardinality({s \in a..(b - 1) : GoesOn(s)})
ScoreInv ==
  /\ scan.pc \in {"inner", "search"} =>
       /\ scan.at <= scan.scored + 1
       /\ scan.score = Explained(scan.at, scan.scored) - Explained(scan.scored, scan.at)
  /\ scan.pc = "search" => scan.st <= scan.en
=============================================================================
