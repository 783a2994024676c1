-------------------------- MODULE RangeReaderProofs --------------------------
(***************************************************************************)
(* Proofs about RangeReader for every window, every blob and every cap on  *)
(* the number of parts.                                                    *)
(***************************************************************************)
EXTENDS RangeReader, SequenceTheorems, TLAPS

\* Position of the stream.  A partial response ends where the next request
\* starts; a 200 ends with the window.
Position ==
  /\ Len(out) = at /\ \A i \in 1 .. at : out[i] = i - 1
  /\ total # Unknown => next = at + remaining
  /\ total = Unknown => at + remaining = Window

\* What Read knows between two of its critical sections: nothing of the
\* response it detached is left, and another one is needed and exists.
FollowUp ==
  /\ rpc \in {"drop", "fetch", "install"} => remaining = 0
  /\ rpc \in {"fetch", "install"} =>
       /\ total # Unknown /\ next <= End /\ next < blob /\ parts < MaxRangeParts
  /\ rpc = "install" =>
       /\ held = parts + 1
       /\ partEnd \in next .. End /\ partEnd < blob

RangeInv == TypeOK /\ Position /\ FollowUp /\ EOFMeansWindow

-----------------------------------------------------------------------------
\* Both kinds of first response put the reader at the start of the window.
LEMMA InitInv == Init => RangeInv
<1> SUFFICES ASSUME Init PROVE RangeInv
  OBVIOUS
<1> USE WindowAssumption, BlobAssumption, PartsAssumption
<1>1. blob \in Nat \ {0}
  BY DEF Init
<1>2. TypeOK
  <2>1. /\ remaining \in 0 .. Window /\ next \in 0 .. Window
        /\ total \in {Unknown, blob} /\ parts \in 0 .. MaxRangeParts
    BY <1>1 DEF Init, Unknown, End, Smaller
  <2>2. out \in Seq(0 .. End)
    BY DEF Init
  <2>3. partEnd \in Unknown .. End /\ at \in 0 .. blob /\ open \subseteq 1 .. MaxRangeParts
    BY <1>1 DEF Init, Unknown, End
  <2>4. /\ body \in 0 .. MaxRangeParts /\ reader = body
        /\ held \in 0 .. MaxRangeParts /\ cbody \in 0 .. MaxRangeParts
        /\ got \in 0 .. Window
    BY DEF Init, NoBody
  <2>5. /\ blob \in BlobSizes /\ ctxDone \in BOOLEAN /\ closed \in BOOLEAN
        /\ rpc = "idle" /\ rerr = "nil" /\ ret = "nil" /\ cpc = "open"
    BY DEF Init
  <2> QED BY <2>1, <2>2, <2>3, <2>4, <2>5 DEF TypeOK
<1>3. Position /\ FollowUp /\ EOFMeansWindow
  BY <1>1 DEF Init, Position, FollowUp, EOFMeansWindow, Unknown, End, Smaller
<1> QED BY <1>2, <1>3 DEF RangeInv

\* The bytes one Read appends.
LEMMA Appended ==
  ASSUME NEW s \in Seq(0 .. End), NEW a \in Nat, NEW n \in Nat,
         Len(s) = a, \A i \in 1 .. a : s[i] = i - 1, a + n <= Window
  PROVE  LET t == s \o [i \in 1 .. n |-> a + i - 1] IN
         /\ t \in Seq(0 .. End) /\ Len(t) = a + n
         /\ \A i \in 1 .. a + n : t[i] = i - 1
<1> DEFINE u == [i \in 1 .. n |-> a + i - 1]
<1>1. u \in Seq(0 .. End) /\ Len(u) = n
  <2>1. \A i \in 1 .. n : a + i - 1 \in 0 .. End
    BY WindowAssumption DEF End
  <2> QED BY <2>1
<1>2. /\ s \o u \in Seq(0 .. End) /\ Len(s \o u) = a + n
      /\ \A i \in 1 .. a + n : (s \o u)[i] = IF i <= a THEN s[i] ELSE u[i - a]
  <2> HIDE DEF u
  <2> QED BY <1>1, ConcatProperties
<1>3. ASSUME NEW i \in 1 .. a + n PROVE (s \o u)[i] = i - 1
  BY <1>2
<1> QED BY <1>2, <1>3

\* A body delivers the bytes that follow, within the window.
LEMMA BodyReadInv == ASSUME RangeInv, BodyRead PROVE RangeInv'
<1> USE WindowAssumption, BlobAssumption, PartsAssumption
<1>1. PICK n \in 0 .. Smaller(remaining, blob - at) :
        /\ got' = n /\ out' = out \o [i \in 1 .. n |-> at + i - 1]
        /\ at' = at + n /\ remaining' = remaining - n
        /\ rerr' \in {"nil", "eof", "read"}
  BY DEF BodyRead
<1>2. /\ blob \in Nat /\ at \in 0 .. blob /\ remaining \in 0 .. Window
      /\ next \in 0 .. Window /\ out \in Seq(0 .. End)
  BY DEF RangeInv, TypeOK
<1>3. n \in Nat /\ n <= remaining /\ n <= blob - at
  BY <1>1, <1>2 DEF Smaller
<1>4. at + remaining <= Window
  BY <1>2 DEF RangeInv, Position
<1>5. /\ out' \in Seq(0 .. End) /\ Len(out') = at'
      /\ \A i \in 1 .. at' : out'[i] = i - 1
  <2>1. at \in Nat /\ at + n <= Window
    BY <1>2, <1>3, <1>4
  <2>2. Len(out) = at /\ \A i \in 1 .. at : out[i] = i - 1
    BY DEF RangeInv, Position
  <2>3. LET t == out \o [i \in 1 .. n |-> at + i - 1] IN
        /\ t \in Seq(0 .. End) /\ Len(t) = at + n
        /\ \A i \in 1 .. at + n : t[i] = i - 1
    <3>1. at \in Nat /\ n \in Nat /\ at + n <= Window /\ out \in Seq(0 .. End) /\ Len(out) = at
      BY <1>2, <1>3, <2>1, <2>2
    <3>2. \A i \in 1 .. at : out[i] = i - 1
      BY <2>2
    <3> QED BY ONLY <3>1, <3>2, Appended
  <2>4. out' = out \o [i \in 1 .. n |-> at + i - 1] /\ at' = at + n
    BY <1>1
  <2> QED BY ONLY <2>3, <2>4
<1>6. TypeOK'
  BY <1>1, <1>2, <1>3, <1>5 DEF BodyRead, RangeInv, TypeOK, clos
<1>7. Position'
  BY <1>1, <1>2, <1>3, <1>5 DEF BodyRead, RangeInv, Position, TypeOK
<1>8. FollowUp'
  BY DEF BodyRead, FollowUp
<1>9. EOFMeansWindow'
  BY <1>1, <1>2, <1>3, <1>4, <1>5 DEF BodyRead, RangeInv, Position, EOFMeansWindow
<1> QED BY <1>6, <1>7, <1>8, <1>9 DEF RangeInv

\* The other steps of Read leave what was delivered alone.
LEMMA DropInv == ASSUME RangeInv, Drop PROVE RangeInv'
<1> USE WindowAssumption, BlobAssumption, PartsAssumption
<1>1. TypeOK' /\ Position'
  BY DEF RangeInv, TypeOK, Position, Drop, Return, stream, clos, NoBody
<1>2. FollowUp'
  BY DEF RangeInv, TypeOK, FollowUp, Drop, Return, stream, Unknown, End
<1>3. EOFMeansWindow'
  BY DEF RangeInv, TypeOK, Position, FollowUp, EOFMeansWindow, Drop, Return, stream, End
<1> QED BY <1>1, <1>2, <1>3 DEF RangeInv

\* A follow-up response starts where the last one ended.
LEMMA FetchAnsweredInv == ASSUME RangeInv, FetchAnswered PROVE RangeInv'
<1> USE WindowAssumption, BlobAssumption, PartsAssumption
<1>1. next = at /\ blob \in Nat /\ next \in Nat
  BY DEF RangeInv, TypeOK, Position, FollowUp, FetchAnswered
<1>2. TypeOK'
  BY <1>1 DEF RangeInv, TypeOK, FollowUp, FetchAnswered, Unknown, End, Smaller, call, clos
<1>3. Position' /\ EOFMeansWindow'
  BY <1>1 DEF RangeInv, Position, EOFMeansWindow, FetchAnswered, call
<1>4. FollowUp'
  BY <1>1 DEF RangeInv, TypeOK, FollowUp, FetchAnswered, End, Smaller
<1> QED BY <1>2, <1>3, <1>4 DEF RangeInv

\* The installed response moves next behind its last byte.
LEMMA InstallInv == ASSUME RangeInv, Install PROVE RangeInv'
<1> USE WindowAssumption, BlobAssumption, PartsAssumption
<1>1. TypeOK'
  BY DEF RangeInv, TypeOK, FollowUp, Install, NoBody, Unknown, End, call, clos
<1>2. Position'
  BY DEF RangeInv, TypeOK, Position, FollowUp, Install, Unknown, End, call
<1>3. FollowUp' /\ EOFMeansWindow'
  BY DEF RangeInv, FollowUp, EOFMeansWindow, Install, call
<1> QED BY <1>1, <1>2, <1>3 DEF RangeInv

\* Control moves on, or Read returns anything but io.EOF.
LEMMA ControlInv ==
  ASSUME RangeInv,
         UNCHANGED <<blob, stream, out>>,
         TypeOK',
         ret' = ret \/ ret' # "eof",
         \/ rpc' \notin {"drop", "fetch", "install"}
         \/ rpc' = "drop" /\ remaining = 0
         \/ rpc' = rpc /\ UNCHANGED <<held, partEnd>>
  PROVE  RangeInv'
<1>1. Position' /\ EOFMeansWindow'
  BY DEF RangeInv, Position, EOFMeansWindow, stream
<1>2. FollowUp'
  BY DEF RangeInv, FollowUp, stream
<1> QED BY <1>1, <1>2 DEF RangeInv

\* Every step preserves the invariant.
LEMMA NextInv == ASSUME RangeInv, [Next]_vars PROVE RangeInv'
<1> USE WindowAssumption, BlobAssumption, PartsAssumption
<1> USE DEF RangeInv, TypeOK, stream, call, clos, held_vars, NoBody
<1>1. CASE ReadCalled
  BY <1>1, ControlInv DEF ReadCalled
<1>2. CASE ReadNothing
  BY <1>2, ControlInv DEF ReadNothing, Return, StateError
<1>3. CASE AdvanceRefuses
  BY <1>3, ControlInv DEF AdvanceRefuses, Return, StateError
<1>4. CASE AdvanceKeeps
  BY <1>4, ControlInv DEF AdvanceKeeps
<1>5. CASE AdvanceDetaches
  BY <1>5, ControlInv DEF AdvanceDetaches
<1>6. CASE Drop
  BY <1>6, DropInv
<1>7. CASE FetchFails
  BY <1>7, ControlInv DEF FetchFails, Return, StateError
<1>8. CASE FetchUnusable
  BY <1>8, ControlInv DEF FetchUnusable, Return
<1>9. CASE FetchAnswered
  BY <1>9, FetchAnsweredInv
<1>10. CASE InstallRefused
  BY <1>10, ControlInv DEF InstallRefused, Return
<1>11. CASE Install
  BY <1>11, InstallInv
<1>12. CASE Capture
  BY <1>12, ControlInv DEF Capture
<1>13. CASE ReadPanics
  BY <1>13, ControlInv DEF ReadPanics
<1>14. CASE BodyRead
  BY <1>14, BodyReadInv
<1>15. CASE Check
  BY <1>15, ControlInv DEF Check, Return, StateError
<1>16. CASE CloseLocks
  BY <1>16, ControlInv DEF CloseLocks
<1>17. CASE CloseFinishes
  BY <1>17, ControlInv DEF CloseFinishes
<1>18. CASE CallerCancels
  BY <1>18, ControlInv DEF CallerCancels
<1>19. CASE UNCHANGED vars
  BY <1>19, ControlInv DEF vars
<1> QED
  BY <1>1, <1>2, <1>3, <1>4, <1>5, <1>6, <1>7, <1>8, <1>9, <1>10, <1>11, <1>12,
     <1>13, <1>14, <1>15, <1>16, <1>17, <1>18, <1>19 DEF Next, ReadStep

-----------------------------------------------------------------------------
\* RangeInv is an invariant of the specification.
LEMMA RangeInvariant == Spec => []RangeInv
  BY InitInv, NextInv, PTL DEF Spec

\* Read never runs past the window, the blob or maxRangeParts.
THEOREM RangeTypes == Spec => []TypeOK
<1>1. RangeInv => TypeOK
  BY DEF RangeInv
<1> QED BY <1>1, RangeInvariant, PTL

\* What the caller got is a gapless prefix of the window, whatever way the
\* registry splits it.
THEOREM RangeInOrder == Spec => []WindowInOrder
<1>1. RangeInv => WindowInOrder
  BY WindowAssumption, BlobAssumption DEF RangeInv, TypeOK, Position, WindowInOrder, Unknown
<1> QED BY <1>1, RangeInvariant, PTL

\* io.EOF means the whole window, in any number of parts.
THEOREM RangeEOFIsHonest == Spec => []EOFMeansWindow
<1>1. RangeInv => EOFMeansWindow
  BY DEF RangeInv
<1> QED BY <1>1, RangeInvariant, PTL

-----------------------------------------------------------------------------
(* The refinement of BlobReader.                                           *)

\* A response yields bytes or an error, and what it yields fills the window.
Filled ==
  rpc = "check" => /\ rerr = "nil" => got > 0
                   /\ rerr \in {"nil", "eof", "read"}

\* Only the Read of a response gets to the check of its result.
LEMMA FilledNext == ASSUME RangeInv, Filled, [Next]_vars PROVE Filled'
<1>1. CASE BodyRead
  <2>1. PICK n \in 0 .. Smaller(remaining, blob - at), e \in {"nil", "eof", "read"} :
          (n = 0 => e # "nil") /\ got' = n /\ rerr' = e
    BY <1>1 DEF BodyRead
  <2>2. n \in Nat
    BY <2>1, WindowAssumption, BlobAssumption DEF RangeInv, TypeOK, Smaller
  <2> QED BY <2>1, <2>2 DEF Filled
<1>2. CASE UNCHANGED vars
  BY <1>2 DEF vars, held_vars, Filled
<1>3. CASE ~BodyRead /\ Next
  <2>1. rpc' # "check" \/ UNCHANGED <<rpc, rerr, got>>
    BY <1>3 DEF Next, ReadStep, ReadCalled, ReadNothing, AdvanceRefuses, AdvanceKeeps,
       AdvanceDetaches, Drop, FetchFails, FetchUnusable, FetchAnswered, InstallRefused, Install,
       Capture, ReadPanics, Check, CloseLocks, CloseFinishes, CallerCancels, Return, held_vars
  <2> QED BY <2>1 DEF Filled
<1> QED BY <1>1, <1>2, <1>3

\* A Read returns what it may return.
LEMMA ReturnRefines ==
  ASSUME RangeInv', Phase \in {"reading", "delivered"}, rpc' = "idle",
         UNCHANGED <<out, ctxDone, closed>>,
         ret' \in {"nil", "eof", "closed", "ctx", "short", "split", "fetch", "read"},
         ret' = "nil" => Phase = "delivered", ret' = "closed" => closed, ret' = "ctx" => ctxDone
  PROVE  Reads!Next
<1>1. Phase' = "idle"
  BY DEF Phase
<1>2. ret' = "eof" => Len(out') = Window
  BY DEF RangeInv, EOFMeansWindow
<1>3. Reads!Returns(ret') /\ ret' \in Reads!Results
  BY <1>1, <1>2 DEF Reads!Returns, Reads!Results
<1>4. Reads!Return
  BY <1>1, <1>3 DEF Reads!Return
<1> QED BY <1>4 DEF Reads!Next

\* The bytes a response yields are the next ones of the window.
LEMMA BodyReadRefines ==
  ASSUME RangeInv, RangeInv', BodyRead
  PROVE  [Reads!Next]_(Reads!vars)
<1> USE WindowAssumption, BlobAssumption
<1>1. PICK n \in 0 .. Smaller(remaining, blob - at) :
        got' = n /\ out' = out \o [i \in 1 .. n |-> at + i - 1] /\ at' = at + n
  BY DEF BodyRead
<1>2. rpc = "read" /\ rpc' = "check" /\ UNCHANGED <<ret, ctxDone, closed>> /\ Phase = "reading"
  BY DEF BodyRead, Phase
<1>3. /\ n \in Nat /\ Len(out) = at /\ at \in Nat /\ out \in Seq(0 .. End)
      /\ Len(out') = at' /\ at' = at + n
  BY <1>1 DEF RangeInv, TypeOK, Position, Smaller
<1>4. at' \in Nat /\ at' <= Window
  BY <1>1 DEF BodyRead, RangeInv, TypeOK, Position, Unknown
<1>5. CASE n = 0
  <2>1. [i \in 1 .. n |-> at + i - 1] = <<>>
    BY <1>5
  <2>2. out' = out
    <3>1. out \o <<>> = out
      BY <1>3
    <3> QED BY <1>1, <2>1, <3>1
  <2>3. Phase' = "reading"
    <3>1. got' = 0
      BY <1>1, <1>5
    <3> QED BY <1>2, <3>1 DEF Phase
  <2> QED BY <1>2, <2>2, <2>3 DEF Reads!vars
<1>6. CASE n # 0
  <2>1. n \in 1 .. Window - Len(out)
    BY <1>3, <1>4, <1>6
  <2>2. Reads!NextBytes
    BY <1>1, <1>3, <2>1 DEF Reads!NextBytes
  <2>3. Phase' = "delivered"
    BY <1>1, <1>2, <1>3, <1>6 DEF Phase
  <2>4. Reads!Deliver
    BY <1>2, <2>2, <2>3 DEF Reads!Deliver
  <2> QED BY <2>4 DEF Reads!Next
<1> QED BY <1>5, <1>6

\* advance, from the detached response to the next one, and the check of what
\* a response yielded.
LEMMA AdvanceRefines ==
  ASSUME RangeInv, RangeInv', Filled,
         \/ Drop \/ FetchFails \/ FetchUnusable \/ FetchAnswered \/ InstallRefused \/ Install
         \/ Capture \/ ReadPanics \/ Check
  PROVE  [Reads!Next]_(Reads!vars)
<1>0. UNCHANGED <<ctxDone, closed, out, got>>
  BY DEF Drop, FetchFails, FetchUnusable, FetchAnswered, InstallRefused, Install, Capture,
     ReadPanics, Check, held_vars, call
<1>1. CASE Drop \/ FetchFails \/ FetchUnusable \/ InstallRefused
  <2>1. /\ Phase = "reading"
        /\ \/ rpc' = "fetch" /\ UNCHANGED ret
           \/ /\ rpc' = "idle" /\ ret' \in {"eof", "closed", "ctx", "short", "split", "fetch"}
              /\ ret' = "closed" => closed
              /\ ret' = "ctx" => ctxDone
    BY <1>1 DEF Drop, FetchFails, FetchUnusable, InstallRefused, Return, StateError, Phase,
       RangeInv, TypeOK
  <2>2. CASE rpc' = "fetch" /\ UNCHANGED ret
    BY <1>0, <2>1, <2>2 DEF Phase, Reads!vars
  <2> QED BY <1>0, <2>1, <2>2, ReturnRefines
<1>2. CASE FetchAnswered \/ Install \/ Capture \/ ReadPanics
  BY <1>0, <1>2 DEF FetchAnswered, Install, Capture, ReadPanics, Phase, call, Reads!vars
<1>3. CASE Check
  <2>1. /\ rpc = "check" /\ got \in Nat /\ (rerr = "nil" => got > 0)
        /\ Phase = IF got > 0 THEN "delivered" ELSE "reading"
    BY <1>3, WindowAssumption DEF Check, Phase, Filled, RangeInv, TypeOK
  <2>2. \/ rpc' = "advance" /\ UNCHANGED ret /\ got = 0
        \/ /\ rpc' = "idle" /\ ret' \in {"nil", "closed", "ctx", "short", "read"}
           /\ ret' = "closed" => closed
           /\ ret' = "ctx" => ctxDone
           /\ ret' = "nil" => got > 0
    <3>1. remaining \in Nat
      BY WindowAssumption DEF RangeInv, TypeOK
    <3>2. CASE StateError # "nil"
      BY <1>3, <3>2 DEF Check, Return, StateError, RangeInv, TypeOK
    <3>3. CASE StateError = "nil"
      BY <1>3, <2>1, <3>1, <3>3 DEF Check, Return, Filled
    <3> QED BY <3>2, <3>3
  <2>3. CASE rpc' = "advance" /\ UNCHANGED ret /\ got = 0
    <3>1. Reads!BeginAgain
      BY <1>0, <2>1, <2>3 DEF Phase, Reads!BeginAgain
    <3> QED BY <3>1 DEF Reads!Next
  <2> QED BY <1>0, <2>1, <2>2, <2>3, ReturnRefines
<1> QED BY <1>1, <1>2, <1>3

\* Every step is a step of BlobReader or invisible to the caller.
LEMMA StepRefines ==
  ASSUME RangeInv, RangeInv', Filled, [Next]_vars
  PROVE  [Reads!Next]_(Reads!vars)
<1>0. Reads!State = StateError
  BY DEF Reads!State, StateError
<1>1. CASE ReadNothing \/ AdvanceRefuses
  <2>1. Reads!Report \/ UNCHANGED Reads!vars
    BY <1>0, <1>1 DEF ReadNothing, AdvanceRefuses, Return, Phase, Reads!Report, held_vars
  <2> QED BY <2>1 DEF Reads!Next
<1>2. CASE AdvanceKeeps \/ AdvanceDetaches
  <2>1. Reads!Begin
    BY <1>0, <1>2 DEF AdvanceKeeps, AdvanceDetaches, Phase, Reads!Begin, call
  <2> QED BY <2>1 DEF Reads!Next
<1>3. CASE ReadCalled
  BY <1>3 DEF ReadCalled, Phase, held_vars, call, Reads!vars
<1>4. CASE BodyRead
  BY <1>4, BodyReadRefines
<1>5. CASE \/ Drop \/ FetchFails \/ FetchUnusable \/ FetchAnswered \/ InstallRefused \/ Install
           \/ Capture \/ ReadPanics \/ Check
  BY <1>5, AdvanceRefines
<1>6. CASE CloseLocks
  <2>1. Reads!Close
    BY <1>6 DEF CloseLocks, Phase, Reads!Close, held_vars, call
  <2> QED BY <2>1 DEF Reads!Next
<1>7. CASE CloseFinishes \/ CallerCancels
  <2>1. Reads!ContextEnds
    BY <1>7 DEF CloseFinishes, CallerCancels, Phase, Reads!ContextEnds, held_vars, call
  <2> QED BY <2>1 DEF Reads!Next
<1>8. CASE UNCHANGED vars
  BY <1>8 DEF vars, Phase, held_vars, call, Reads!vars
<1> QED BY <1>1, <1>2, <1>3, <1>4, <1>5, <1>6, <1>7, <1>8 DEF Next, ReadStep

\* However the registry splits the window and whenever Close or the context
\* comes, what a caller sees is one Read after another of one window
\* (rangeReader.Read, advance, readCurrent).
THEOREM RangeImplementsReads == Spec => ImplementsReads
<1>1. Init => Filled /\ Reads!Init
  BY DEF Init, Filled, Phase, Reads!Init
<1>2. RangeInv /\ Filled /\ [Next]_vars => RangeInv' /\ Filled'
  BY NextInv, FilledNext
<1>3. RangeInv /\ RangeInv' /\ Filled /\ [Next]_vars => [Reads!Next]_(Reads!vars)
  BY StepRefines
<1> QED BY <1>1, <1>2, <1>3, RangeInvariant, PTL DEF Spec, ImplementsReads, Reads!Spec
=============================================================================
