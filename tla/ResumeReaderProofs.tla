------------------------- MODULE ResumeReaderProofs --------------------------
(***************************************************************************)
(* Proofs about ResumeReader for every blob and every request budget.      *)
(***************************************************************************)
EXTENDS ResumeReader, SequenceTheorems, TLAPS

\* What was delivered, and where the current body stands.  Between body.Read
\* and recordRead the bytes read are in got.
Position ==
  /\ Len(out) = offset /\ \A i \in 1 .. offset : out[i] = i - 1
  /\ rpc # "record" => at = offset
  /\ rpc = "record" =>
       /\ at = offset + Len(got)
       /\ \A i \in 1 .. Len(got) : got[i] = offset + i - 1
  /\ at <= Cap

\* The size of the blob is known as soon as a body is bounded; an unbounded
\* body ends with the blob.
Framing ==
  /\ total = Unknown => bodyEnd = Unknown
  /\ rpc = "record" /\ rerr = "eof" /\ bodyEnd = Unknown => at = Blob

\* A replacement continues at the offset and within the blob.
Replacement ==
  /\ rpc \in {"discard", "replace"} =>
       /\ repl.total = Unknown => repl.end = Unknown
       /\ repl.end # Unknown => offset <= repl.end
  /\ rpc = "replace" => repl.at = offset

\* A request is paid for before it is sent.
Paid ==
  /\ sent <= attempts /\ attempts <= MaxAttempts
  /\ rpc = "sleep" => sent < attempts

ResumeInv ==
  TypeOK /\ Position /\ Framing /\ Replacement /\ Paid /\ EOFMeansComplete

-----------------------------------------------------------------------------
\* The opening response starts at byte 0 and is paid for.
LEMMA InitInv == Init => ResumeInv
<1> SUFFICES ASSUME Init PROVE ResumeInv
  OBVIOUS
<1> USE BlobAssumption, BudgetAssumption
<1>1. attempts \in 1 .. MaxAttempts /\ MaxAttempts \in Nat
  BY DEF Init
<1>2. TypeOK
  <2>1. /\ body \in 0 .. MaxAttempts /\ held \in 0 .. MaxAttempts
        /\ open \subseteq 1 .. MaxAttempts /\ sent \in 1 .. MaxAttempts
        /\ cbody \in 0 .. MaxAttempts
    BY <1>1 DEF Init, NoBody
  <2>2. /\ offset \in 0 .. Blob /\ at \in 0 .. Blob
        /\ bodyEnd \in Unknown .. Blob /\ total \in {Unknown, Blob}
        /\ repl \in [end : Unknown .. Blob, total : {Unknown, Blob}, at : 0 .. Blob]
    BY DEF Init, Unknown, Empty
  <2>3. got \in Seq(0 .. Blob) /\ out \in Seq(0 .. Blob)
    BY DEF Init
  <2>4. /\ ctxDone \in BOOLEAN /\ closed \in BOOLEAN
        /\ rpc = "idle" /\ rerr = "nil" /\ ret = "nil" /\ cpc = "open"
    BY DEF Init
  <2> QED BY <1>1, <2>1, <2>2, <2>3, <2>4 DEF TypeOK
<1>3. Position /\ Framing /\ Replacement /\ Paid /\ EOFMeansComplete
  BY <1>1 DEF Init, Position, Framing, Replacement, Paid, EOFMeansComplete, Cap
<1> QED BY <1>2, <1>3 DEF ResumeInv

-----------------------------------------------------------------------------
(* Delivery: body.Read, then recordRead.                                   *)

LEMMA BodyReadInv == ASSUME ResumeInv, BodyRead PROVE ResumeInv'
<1> USE BlobAssumption, BudgetAssumption
<1>1. PICK n \in 0 .. Cap - at, e \in {"nil", "eof", "broken"} :
        /\ e = "eof" /\ bodyEnd = Unknown => at + n = Blob
        /\ got' = [i \in 1 .. n |-> Byte(at + i - 1)] /\ rerr' = e /\ at' = at + n
  BY DEF BodyRead
<1>2. /\ at \in 0 .. Blob /\ at = offset /\ Cap \in Int /\ Cap <= Blob
      /\ bodyEnd # Unknown => Cap = bodyEnd
  BY DEF BodyRead, ResumeInv, TypeOK, Position, Cap, Unknown
<1>3. n \in Nat /\ at + n <= Cap /\ at + n <= Blob
  BY <1>1, <1>2
<1>4. \A i \in 1 .. n : Byte(at + i - 1) = at + i - 1 /\ at + i - 1 \in 0 .. Blob
  BY <1>2, <1>3 DEF Byte, ResumeInv, TypeOK, Unknown
<1>5. /\ got' \in Seq(0 .. Blob) /\ Len(got') = n
      /\ \A i \in 1 .. n : got'[i] = at + i - 1
  BY <1>1, <1>3, <1>4
<1>6. TypeOK'
  BY <1>1, <1>2, <1>3, <1>5 DEF BodyRead, ResumeInv, TypeOK, fields, call, clos
<1>7. Position'
  BY <1>1, <1>2, <1>3, <1>5 DEF BodyRead, ResumeInv, Position, Cap, fields, call
<1>8. Framing'
  BY <1>1 DEF BodyRead, ResumeInv, Framing, fields
<1>9. Replacement' /\ Paid' /\ EOFMeansComplete'
  BY DEF BodyRead, ResumeInv, Replacement, Paid, EOFMeansComplete, fields, call
<1> QED BY <1>6, <1>7, <1>8, <1>9 DEF ResumeInv

\* recordRead delivers what body.Read returned and classifies the error.
LEMMA RecordInv == ASSUME ResumeInv, Record PROVE ResumeInv'
<1> USE BlobAssumption, BudgetAssumption
<1>1. /\ offset \in 0 .. Blob /\ at \in 0 .. Blob /\ at = offset + Len(got)
      /\ out \in Seq(0 .. Blob) /\ got \in Seq(0 .. Blob) /\ Len(out) = offset
      /\ \A i \in 1 .. offset : out[i] = i - 1
      /\ \A i \in 1 .. Len(got) : got[i] = offset + i - 1
  BY DEF Record, ResumeInv, TypeOK, Position
<1>2. /\ out' \in Seq(0 .. Blob) /\ offset' = at /\ Len(out') = offset'
      /\ \A i \in 1 .. offset' : out'[i] = i - 1
  <2>1. /\ out \o got \in Seq(0 .. Blob) /\ Len(out \o got) = Len(out) + Len(got)
        /\ \A i \in 1 .. Len(out) + Len(got) :
             (out \o got)[i] = IF i <= Len(out) THEN out[i] ELSE got[i - Len(out)]
    BY <1>1, ConcatProperties
  <2>2. out' = out \o got /\ offset' = offset + Len(got)
    BY DEF Record
  <2>3. ASSUME NEW i \in 1 .. at PROVE (out \o got)[i] = i - 1
    BY <1>1, <2>1
  <2> QED BY <1>1, <2>1, <2>2, <2>3
<1>3. /\ rpc' \in {"idle", "reserve"}
      /\ ret' \in {ret, "closed", "ctx", "nil", "eof"}
      /\ ret' = "eof" => ret = "eof" \/ (total # Unknown /\ offset' >= total)
                                     \/ (rerr = "eof" /\ total = Unknown)
  BY DEF Record, Classify, Return, StateError, ResumeInv, TypeOK
<1>4. TypeOK'
  BY <1>1, <1>2, <1>3 DEF Record, ResumeInv, TypeOK, read, clos, NoBody
<1>5. Position'
  BY <1>1, <1>2, <1>3 DEF Record, ResumeInv, Position, Cap, read
<1>6. Framing' /\ Replacement' /\ Paid'
  BY <1>3 DEF Record, ResumeInv, Framing, Replacement, Paid, read
<1>7. EOFMeansComplete'
  BY <1>1, <1>2, <1>3 DEF Record, ResumeInv, TypeOK, Framing, EOFMeansComplete
<1> QED BY <1>4, <1>5, <1>6, <1>7 DEF ResumeInv

-----------------------------------------------------------------------------
(* reestablish.                                                            *)

LEMMA ReceiveInv ==
  ASSUME ResumeInv, PartialContent \/ RangeNotSatisfiable \/ Replayed
  PROVE  ResumeInv'
<1> USE BlobAssumption, BudgetAssumption
<1>1. /\ TypeOK'
      /\ rpc' \in {"discard", "replace"}
      /\ repl'.total = Unknown => repl'.end = Unknown
      /\ repl'.end # Unknown => offset <= repl'.end
      /\ rpc' = "replace" => repl'.at = offset
  <2>1. CASE PartialContent
    BY <2>1 DEF PartialContent, Received, ResumeInv, TypeOK, Unknown, fields, read, call, clos
  <2>2. CASE RangeNotSatisfiable
    BY <2>2 DEF RangeNotSatisfiable, ResumeInv, TypeOK, Unknown, NoBody, fields, read, call,
         clos
  <2>3. CASE Replayed
    BY <2>3 DEF Replayed, Received, ResumeInv, TypeOK, Unknown, fields, read, call, clos
  <2> QED BY <2>1, <2>2, <2>3
<1>2. rpc = "request" /\ UNCHANGED <<fields, at, out, ret, sent>>
  BY DEF PartialContent, RangeNotSatisfiable, Replayed, call
<1>3. Position' /\ Framing' /\ Replacement' /\ Paid' /\ EOFMeansComplete'
  BY <1>1, <1>2 DEF ResumeInv, Position, Framing, Replacement, Paid, EOFMeansComplete,
       Cap, fields
<1> QED BY <1>1, <1>3 DEF ResumeInv

\* The replayed prefix is skipped up to the offset.
LEMMA DiscardInv == ASSUME ResumeInv, DiscardPrefix PROVE ResumeInv'
<1> USE BlobAssumption, BudgetAssumption
<1>1. repl'.at = offset /\ repl'.end = repl.end /\ repl'.total = repl.total
  BY DEF DiscardPrefix, ResumeInv, TypeOK
<1>2. repl' \in [end : Unknown .. Blob, total : {Unknown, Blob}, at : 0 .. Blob]
  BY DEF DiscardPrefix, ResumeInv, TypeOK
<1>3. TypeOK'
  BY <1>2 DEF DiscardPrefix, ResumeInv, TypeOK, fields, read, call, clos
<1>4. Position' /\ Framing' /\ Replacement' /\ Paid' /\ EOFMeansComplete'
  BY <1>1 DEF DiscardPrefix, ResumeInv, Position, Framing, Replacement, Paid,
       EOFMeansComplete, Cap, fields, call
<1> QED BY <1>3, <1>4 DEF ResumeInv

\* The replacement continues at the offset.
LEMMA ReplaceInv == ASSUME ResumeInv, Replace PROVE ResumeInv'
<1> USE BlobAssumption, BudgetAssumption
<1>1. TypeOK'
  BY DEF Replace, ResumeInv, TypeOK, read, call, clos
<1>2. Position'
  BY DEF Replace, ResumeInv, TypeOK, Position, Replacement, Cap, Unknown, call
<1>3. Framing' /\ Replacement' /\ Paid' /\ EOFMeansComplete'
  BY DEF Replace, ResumeInv, Framing, Replacement, Paid, EOFMeansComplete, call
<1> QED BY <1>1, <1>2, <1>3 DEF ResumeInv

\* The budget: a slot is reserved, then the request is sent.
LEMMA BudgetInv == ASSUME ResumeInv, Reserve \/ SleepEnds PROVE ResumeInv'
<1> USE BlobAssumption, BudgetAssumption
<1>1. TypeOK' /\ Paid'
  <2>1. /\ sent \in 1 .. MaxAttempts /\ attempts \in 1 .. MaxAttempts /\ MaxAttempts \in Nat
        /\ sent <= attempts /\ (rpc = "sleep" => sent < attempts)
    BY DEF ResumeInv, TypeOK, Paid
  <2>2. CASE Reserve
    <3>1. /\ attempts' \in 1 .. MaxAttempts /\ sent' = sent /\ sent' <= attempts'
          /\ rpc' \in {"idle", "sleep"} /\ (rpc' = "sleep" => sent' < attempts')
          /\ ret' \in {ret, "exhausted", "closed", "ctx"}
      BY <2>1, <2>2 DEF Reserve, Return, StateError
    <3>2. Paid'
      BY <2>1, <3>1 DEF Paid
    <3>3. TypeOK'
      BY <2>1, <2>2, <3>1 DEF Reserve, ResumeInv, TypeOK, read, clos
    <3> QED BY <3>2, <3>3
  <2>3. CASE SleepEnds
    <3>1. attempts' = attempts /\ sent' \in 1 .. MaxAttempts /\ sent' <= attempts'
      BY <2>1, <2>3 DEF SleepEnds, fields
    <3>2. Paid'
      BY <2>1, <2>3, <3>1 DEF SleepEnds, Paid
    <3>3. TypeOK'
      BY <2>1, <2>3, <3>1 DEF SleepEnds, ResumeInv, TypeOK, fields, read, call, clos
    <3> QED BY <3>2, <3>3
  <2> QED BY <2>2, <2>3
<1>2. Position' /\ Framing' /\ Replacement' /\ EOFMeansComplete'
  BY DEF Reserve, SleepEnds, Return, StateError, ResumeInv, Position, Framing, Replacement,
       EOFMeansComplete, Cap, fields, read, call
<1> QED BY <1>1, <1>2 DEF ResumeInv

\* Every other step moves control, or gives back a body.
LEMMA ControlInv ==
  ASSUME ResumeInv, TypeOK',
         UNCHANGED <<fields, at, out, sent, repl, got, rerr>>,
         ret' = ret \/ ret' # "eof",
         rpc' = rpc \/ (rpc # "record" /\ rpc' \in {"idle", "loop", "read", "reserve"})
  PROVE  ResumeInv'
<1>1. Position'
  BY DEF ResumeInv, Position, Cap, fields
<1>2. Framing'
  BY DEF ResumeInv, Framing, fields
<1>3. Replacement'
  BY DEF ResumeInv, Replacement, fields
<1>4. Paid' /\ EOFMeansComplete'
  BY DEF ResumeInv, Paid, EOFMeansComplete, fields
<1> QED BY <1>1, <1>2, <1>3, <1>4 DEF ResumeInv

\* Every step preserves the invariant.
LEMMA NextInv == ASSUME ResumeInv, [Next]_vars PROVE ResumeInv'
<1> USE BlobAssumption, BudgetAssumption
<1> USE DEF ResumeInv, TypeOK, fields, read, call, clos, NoBody, Return, StateError
<1>1. CASE ReadCalled
  BY <1>1, ControlInv DEF ReadCalled
<1>2. CASE ReadNothing
  BY <1>2, ControlInv DEF ReadNothing
<1>3. CASE ReadableBody
  BY <1>3, ControlInv DEF ReadableBody
<1>4. CASE BodyRead
  BY <1>4, BodyReadInv
<1>5. CASE Record
  BY <1>5, RecordInv
<1>6. CASE Reserve \/ SleepEnds
  BY <1>6, BudgetInv
<1>7. CASE SleepCanceled
  BY <1>7, ControlInv DEF SleepCanceled
<1>8. CASE RequestFails
  BY <1>8, ControlInv DEF RequestFails
<1>9. CASE RetryableStatus
  BY <1>9, ControlInv DEF RetryableStatus
<1>10. CASE RequestRejected
  BY <1>10, ControlInv DEF RequestRejected
<1>11. CASE PartialContent \/ RangeNotSatisfiable \/ Replayed
  BY <1>11, ReceiveInv
<1>12. CASE DiscardPrefix
  BY <1>12, DiscardInv
<1>13. CASE DiscardFails
  BY <1>13, ControlInv DEF DiscardFails
<1>14. CASE ReplaceRefused
  BY <1>14, ControlInv DEF ReplaceRefused
<1>15. CASE Retire
  BY <1>15, ControlInv DEF Retire
<1>16. CASE Replace
  BY <1>16, ReplaceInv
<1>17. CASE CloseLocks
  BY <1>17, ControlInv DEF CloseLocks
<1>18. CASE CloseFinishes
  BY <1>18, ControlInv DEF CloseFinishes
<1>19. CASE CallerCancels
  BY <1>19, ControlInv DEF CallerCancels
<1>20. CASE UNCHANGED vars
  BY <1>20, ControlInv DEF vars
<1> QED
  BY <1>1, <1>2, <1>3, <1>4, <1>5, <1>6, <1>7, <1>8, <1>9, <1>10,
     <1>11, <1>12, <1>13, <1>14, <1>15, <1>16, <1>17, <1>18, <1>19, <1>20
     DEF Next, ReadStep

-----------------------------------------------------------------------------
\* ResumeInv is an invariant of the specification.
LEMMA ResumeInvariant == Spec => []ResumeInv
  BY InitInv, NextInv, PTL DEF Spec

\* What Read hands to the verifying reader is a gapless prefix of the blob,
\* whatever broke and however it was resumed.
THEOREM ResumeInOrder == Spec => []DeliveredInOrder
<1>1. ResumeInv => DeliveredInOrder
  BY DEF ResumeInv, TypeOK, Position, DeliveredInOrder
<1> QED BY <1>1, ResumeInvariant, PTL

\* io.EOF means that the whole blob was delivered.
THEOREM ResumeEOFIsHonest == Spec => []EOFMeansComplete
<1>1. ResumeInv => EOFMeansComplete
  BY DEF ResumeInv
<1> QED BY <1>1, ResumeInvariant, PTL

\* The opening request and all resumes share one budget.
THEOREM ResumeWithinBudget == Spec => []OneBudget
<1>1. ResumeInv => OneBudget
  BY DEF ResumeInv, Paid, OneBudget
<1> QED BY <1>1, ResumeInvariant, PTL

-----------------------------------------------------------------------------
(* The refinement of BlobReader.                                           *)

\* body.Read returns bytes or an error.
Filled == rpc = "record" /\ rerr = "nil" => got # <<>>

\* Only body.Read puts anything into got.
LEMMA FilledNext == ASSUME ResumeInv, Filled, [Next]_vars PROVE Filled'
<1>1. CASE BodyRead
  <2>1. PICK n \in 0 .. Cap - at, e \in {"nil", "eof", "broken"} :
          /\ n = 0 => e # "nil"
          /\ got' = [i \in 1 .. n |-> Byte(at + i - 1)] /\ rerr' = e
    BY <1>1 DEF BodyRead
  <2>2. CASE n = 0
    BY <2>1, <2>2 DEF Filled
  <2>3. CASE n # 0
    <3>1. Cap - at \in Int
      BY BlobAssumption DEF ResumeInv, TypeOK, Cap, Unknown
    <3>2. n \in Nat \ {0}
      BY <2>3, <3>1
    <3>3. 1 \in DOMAIN got'
      BY <2>1, <3>2
    <3> QED BY <3>3 DEF Filled
  <2> QED BY <2>2, <2>3
<1>2. CASE UNCHANGED vars
  BY <1>2 DEF vars, read, Filled
<1>3. CASE ~BodyRead /\ Next
  <2>1. rpc' # "record" \/ UNCHANGED <<rpc, rerr, got>>
    BY <1>3 DEF Next, ReadStep, ReadCalled, ReadNothing, ReadableBody, Record, Classify, Reserve,
       SleepCanceled, SleepEnds, RequestFails, RetryableStatus, RequestRejected, PartialContent,
       RangeNotSatisfiable, Replayed, Received, DiscardPrefix, DiscardFails, ReplaceRefused,
       Replace, Retire, CloseLocks, CloseFinishes, CallerCancels, Return, read
  <2> QED BY <2>1 DEF Filled
<1> QED BY <1>1, <1>2, <1>3

\* A Read returns what it may return.
LEMMA ReturnRefines ==
  ASSUME ResumeInv', Phase # "idle", rpc' = "idle", UNCHANGED <<out, ctxDone, closed>>,
         ret' \in {"nil", "eof", "closed", "ctx", "fetch", "exhausted"},
         ret' = "nil" => Phase = "delivered", ret' = "closed" => closed, ret' = "ctx" => ctxDone
  PROVE  Reads!Next
<1>1. Phase' = "idle" /\ Phase \in {"reading", "delivered"}
  BY DEF Phase
<1>2. ret' = "eof" => Len(out') = Blob
  BY DEF ResumeInv, EOFMeansComplete
<1>3. Reads!Returns(ret') /\ ret' \in Reads!Results
  BY <1>1, <1>2 DEF Reads!Returns, Reads!Results
<1>4. Reads!Return
  BY <1>1, <1>3 DEF Reads!Return
<1> QED BY <1>4 DEF Reads!Next

\* recordRead is where the bytes of a Read are delivered.
LEMMA RecordRefines ==
  ASSUME ResumeInv, ResumeInv', Filled, Record
  PROVE  [Reads!Next]_(Reads!vars)
<1>1. /\ rpc = "record" /\ Phase = "reading" /\ out' = out \o got
      /\ UNCHANGED <<ctxDone, closed, got>>
  BY DEF Record, Phase, read
<1>2. \/ rpc' = "reserve" /\ UNCHANGED ret
      \/ /\ rpc' = "idle" /\ ret' \in {"nil", "eof", "closed", "ctx"}
         /\ ret' = "nil" => got # <<>>
         /\ ret' = "closed" => closed
         /\ ret' = "ctx" => ctxDone
  BY <1>1 DEF Record, Classify, Return, StateError, Filled, ResumeInv, TypeOK
<1>3. /\ got \in Seq(0 .. Blob) /\ out \in Seq(0 .. Blob) /\ Len(out) \in Nat
      /\ out' \in Seq(0 .. Blob) /\ Len(out') <= Blob
      /\ \A i \in 1 .. Len(got) : got[i] = Len(out) + i - 1
  BY <1>1, BlobAssumption DEF ResumeInv, TypeOK, Position
<1>4. CASE got = <<>>
  <2>1. out' = out
    BY <1>1, <1>3, <1>4
  <2>2. CASE rpc' = "reserve" /\ UNCHANGED ret
    BY <1>1, <1>4, <2>1, <2>2 DEF Phase, Reads!vars
  <2> QED BY <1>1, <1>2, <1>4, <2>1, <2>2, ReturnRefines
<1>5. CASE got # <<>>
  <2>1. Len(got) \in 1 .. Blob - Len(out)
    <3>1. Len(out \o got) = Len(out) + Len(got) /\ Len(got) \in Nat \ {0}
      BY <1>3, <1>5, ConcatProperties
    <3> QED BY <1>1, <1>3, <3>1, BlobAssumption
  <2>2. got = [i \in 1 .. Len(got) |-> Len(out) + i - 1]
    BY <1>3
  <2>3. Reads!NextBytes
    BY <1>1, <2>1, <2>2 DEF Reads!NextBytes
  <2>4. CASE rpc' = "reserve" /\ UNCHANGED ret
    <3>1. Phase' = "delivered"
      BY <1>1, <1>5, <2>4 DEF Phase
    <3>2. Reads!Deliver
      BY <1>1, <2>3, <2>4, <3>1 DEF Reads!Deliver
    <3> QED BY <3>2 DEF Reads!Next
  <2>5. CASE ~(rpc' = "reserve" /\ UNCHANGED ret)
    <3>1. Phase' = "idle"
      BY <1>2, <2>5 DEF Phase
    <3>2. ret' = "eof" => Len(out') = Blob
      BY DEF ResumeInv, EOFMeansComplete
    <3>3. Reads!Returns(ret') /\ ret' \in Reads!Results
      BY <1>2, <2>5, <3>1, <3>2 DEF Reads!Returns, Reads!Results
    <3>4. Reads!Deliver
      BY <1>1, <2>3, <3>3 DEF Reads!Deliver
    <3> QED BY <3>4 DEF Reads!Next
  <2> QED BY <2>4, <2>5
<1> QED BY <1>4, <1>5

\* The resume goes on behind the back of the caller, or the Read returns.
LEMMA ResumeRefines ==
  ASSUME ResumeInv, ResumeInv',
         \/ Reserve \/ SleepCanceled \/ SleepEnds \/ RequestFails \/ RetryableStatus
         \/ RequestRejected \/ PartialContent \/ RangeNotSatisfiable \/ Replayed
         \/ DiscardPrefix \/ DiscardFails \/ ReplaceRefused \/ Replace
  PROVE  [Reads!Next]_(Reads!vars)
<1>1. /\ rpc \in {"reserve", "sleep", "request", "discard", "replace"}
      /\ UNCHANGED <<ctxDone, closed, got, out>>
      /\ \/ /\ rpc' \in {"reserve", "sleep", "request", "discard", "replace", "retire"}
            /\ UNCHANGED ret
         \/ /\ rpc' = "idle" /\ ret' \in {"closed", "ctx", "fetch", "exhausted"}
            /\ ret' = "closed" => closed
            /\ ret' = "ctx" => ctxDone
  BY DEF Reserve, SleepCanceled, SleepEnds, RequestFails, RetryableStatus, RequestRejected,
     PartialContent, RangeNotSatisfiable, Replayed, Received, DiscardPrefix, DiscardFails,
     ReplaceRefused, Replace, Return, StateError, read, call, ResumeInv, TypeOK
<1>2. Phase = IF got = <<>> THEN "reading" ELSE "delivered"
  BY <1>1 DEF Phase
<1>3. CASE rpc' # "idle"
  BY <1>1, <1>2, <1>3 DEF Phase, Reads!vars
<1>4. CASE rpc' = "idle"
  BY <1>1, <1>2, <1>4, ReturnRefines
<1> QED BY <1>3, <1>4

\* Every step is a step of BlobReader or invisible to the caller.
LEMMA StepRefines ==
  ASSUME ResumeInv, ResumeInv', Filled, [Next]_vars
  PROVE  [Reads!Next]_(Reads!vars)
<1>0. Reads!State = StateError
  BY DEF Reads!State, StateError
<1>1. CASE ReadNothing
  <2>1. Reads!Report
    BY <1>0, <1>1 DEF ReadNothing, Return, Phase, Reads!Report, read
  <2> QED BY <2>1 DEF Reads!Next
<1>2. CASE ReadableBody
  <2>1. Reads!Report \/ Reads!Begin
    BY <1>0, <1>2 DEF ReadableBody, Return, Phase, Reads!Report, Reads!Begin, read
  <2> QED BY <2>1 DEF Reads!Next
<1>3. CASE ReadCalled \/ BodyRead
  BY <1>3 DEF ReadCalled, BodyRead, Phase, read, call, Reads!vars
<1>4. CASE Record
  BY <1>4, RecordRefines
<1>5. CASE \/ Reserve \/ SleepCanceled \/ SleepEnds \/ RequestFails \/ RetryableStatus
           \/ RequestRejected \/ PartialContent \/ RangeNotSatisfiable \/ Replayed
           \/ DiscardPrefix \/ DiscardFails \/ ReplaceRefused \/ Replace
  BY <1>5, ResumeRefines
<1>6. CASE Retire
  <2>1. CASE got # <<>>
    <3>1. Phase = "delivered" /\ rpc' = "idle" /\ ret' = "nil" /\ UNCHANGED <<out, ctxDone, closed>>
      BY <1>6, <2>1 DEF Retire, Return, Phase
    <3> QED BY <3>1, ReturnRefines
  <2>2. CASE got = <<>>
    <3>1. Reads!BeginAgain
      BY <1>6, <2>2 DEF Retire, Phase, Reads!BeginAgain, read
    <3> QED BY <3>1 DEF Reads!Next
  <2> QED BY <2>1, <2>2
<1>7. CASE CloseLocks
  <2>1. Reads!Close
    BY <1>7 DEF CloseLocks, Phase, Reads!Close, read, call
  <2> QED BY <2>1 DEF Reads!Next
<1>8. CASE CloseFinishes \/ CallerCancels
  <2>1. Reads!ContextEnds
    BY <1>8 DEF CloseFinishes, CallerCancels, Phase, Reads!ContextEnds, read, call
  <2> QED BY <2>1 DEF Reads!Next
<1>9. CASE UNCHANGED vars
  BY <1>9 DEF vars, Phase, read, call, Reads!vars
<1> QED BY <1>1, <1>2, <1>3, <1>4, <1>5, <1>6, <1>7, <1>8, <1>9 DEF Next, ReadStep

\* Over every break and resume, Close and cancellation, what a caller sees is
\* one Read after another of one blob (resumeReader.Read, reestablish).
THEOREM ResumeImplementsReads == Spec => ImplementsReads
<1>1. Init => Filled /\ Reads!Init
  BY DEF Init, Filled, Phase, Reads!Init
<1>2. ResumeInv /\ Filled /\ [Next]_vars => ResumeInv' /\ Filled'
  BY NextInv, FilledNext
<1>3. ResumeInv /\ ResumeInv' /\ Filled /\ [Next]_vars => [Reads!Next]_(Reads!vars)
  BY StepRefines
<1> QED BY <1>1, <1>2, <1>3, ResumeInvariant, PTL DEF Spec, ImplementsReads, Reads!Spec
=============================================================================
