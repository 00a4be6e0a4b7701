-------------------------- MODULE SealedSink_proofs ---------------------------
(***************************************************************************)
(* For every value of the constants: the writer's type invariant, that no  *)
(* nonce is used for two streams, and that a pack that reports success has *)
(* listed what it sealed.  The inductive invariant says what the pairwise  *)
(* statement cannot: which ordinals have been opened at each point of the  *)
(* pass, how far the open entry's segments have come, and that the sticky  *)
(* error, once set, keeps the exit code from being EXIT_OK.                *)
(***************************************************************************)
EXTENDS SealedSink, TLAPS

\* The open entry and its open segment lie inside the payload written.
PlaceInv == segfill <= payoff /\ entoff <= payoff

InEntry == pc \in {"body", "write", "flush", "tag"}

\* The bound on entries, which keeps ordinals below the index's counters.
OrdinalInv == /\ entnext <= MaxEntries
              /\ InEntry => entnext < MaxEntries

\* Which nonces have been used: until the inventory is written none lies
\* beyond the open ordinal, between entries none of the next ordinal has been
\* used, and within an entry no segment beyond the open one.
UsedInv ==
    /\ pc = "header" => opened = <<>>
    /\ pc \notin {"finish", "ended"} =>
          \A i \in 1..Len(opened) : opened[i][1] <= entnext + 1
    /\ (pc \in {"ready", "list"} /\ packerr = EXIT_OK) =>
          \A i \in 1..Len(opened) : opened[i][1] <= entnext
    /\ InEntry =>
          \A i \in 1..Len(opened) : opened[i][1] = entnext + 1 => opened[i][2] <= segidx

\* The sticky error keeps the pass from ending in success.
ErrorInv ==
    /\ pc \in {"tag", "finish"} => packerr = EXIT_OK
    /\ code = EXIT_OK => pc = "ended" /\ packerr = EXIT_OK

\* An entry that needs no record, or has one.
Accounted(o) == o \in nameless \/ \E i \in 1..Len(idx) : idx[i].ordinal = o

\* While there is no error, every entry sealed is accounted for, but for the
\* one whose tag has just been written.
ListInv == packerr = EXIT_OK =>
    /\ pc # "list" => \A o \in 0..(entnext - 1) : Accounted(o)
    /\ pc = "list" => /\ entnext >= 1 /\ \A o \in 0..(entnext - 2) : Accounted(o)
                      /\ ~named => entnext - 1 \in nameless

IInv == /\ TypeOK /\ PlaceInv /\ OrdinalInv /\ UsedInv /\ NonceOnce
        /\ ErrorInv /\ ListInv

-----------------------------------------------------------------------------

\* Least is one of its arguments and neither exceeds it.
LEMMA LeastType ==
    ASSUME NEW a \in Int, NEW b \in Int
    PROVE  Least(a, b) \in {a, b} /\ Least(a, b) <= a /\ Least(a, b) <= b
  BY DEF Least

\* Appending a nonce that none of the used ones equals keeps them distinct.
LEMMA FreshNonce ==
    ASSUME NEW s \in Seq(Nonces), NEW n \in Nonces,
           \A i, j \in 1..Len(s) : i # j => s[i] # s[j],
           \A i \in 1..Len(s) : s[i] # n
    PROVE  /\ Append(s, n) \in Seq(Nonces)
           /\ Len(Append(s, n)) = Len(s) + 1
           /\ \A i \in 1..Len(s) : Append(s, n)[i] = s[i]
           /\ Append(s, n)[Len(s) + 1] = n
           /\ \A i, j \in 1..Len(Append(s, n)) :
                 i # j => Append(s, n)[i] # Append(s, n)[j]
<1>1. /\ Append(s, n) \in Seq(Nonces)
      /\ Len(Append(s, n)) = Len(s) + 1
      /\ \A i \in 1..Len(s) : Append(s, n)[i] = s[i]
      /\ Append(s, n)[Len(s) + 1] = n
  OBVIOUS
<1>2. ASSUME NEW i \in 1..(Len(s) + 1), NEW j \in 1..(Len(s) + 1), i # j
      PROVE  Append(s, n)[i] # Append(s, n)[j]
  <2>1. CASE i = Len(s) + 1
    BY <1>1, <1>2, <2>1
  <2>2. CASE j = Len(s) + 1
    BY <1>1, <1>2, <2>2
  <2>3. CASE i \in 1..Len(s) /\ j \in 1..Len(s)
    BY <1>1, <1>2, <2>3
  <2> QED BY <2>1, <2>2, <2>3
<1> QED BY <1>1, <1>2

\* Nonces of different entries, segments and the inventory differ.
LEMMA NonceFields ==
    ASSUME NEW o \in Nat, NEW s \in Nat
    PROVE  /\ EntryNonce(o, s) \in Nonces
           /\ EntryNonce(o, s)[1] = o + 1
           /\ EntryNonce(o, s)[2] = s
           /\ IndexNonce \in Nonces
           /\ IndexNonce[1] = NonceBase
  BY ConstantsAssumption DEF EntryNonce, IndexNonce, Nonce, Nonces

-----------------------------------------------------------------------------

\* The writer starts in the invariant.
LEMMA InitIInv == Init => IInv
<1> SUFFICES ASSUME Init PROVE IInv OBVIOUS
<1> USE ConstantsAssumption DEF Init
<1>1. ControlType
  BY DEF ControlType, PcValues, ExitCodes, EXIT_OK, Running
<1>2. CountType /\ PlaceInv
  BY DEF CountType, PlaceInv
<1>3. LogType
  BY DEF LogType, Nonces
<1>4. OrdinalInv /\ UsedInv /\ NonceOnce
  BY DEF OrdinalInv, InEntry, UsedInv, NonceOnce
<1>5. ErrorInv /\ ListInv
  BY DEF ErrorInv, ListInv, EXIT_OK, Running
<1> QED BY <1>1, <1>2, <1>3, <1>4, <1>5 DEF IInv, TypeOK

\* Every step keeps the program counter, the error state and the flags.
LEMMA StepControl == ControlType /\ [Next]_vars => ControlType'
<1> SUFFICES ASSUME ControlType, [Next]_vars PROVE ControlType' OBVIOUS
<1> USE DEF ControlType, PcValues, ExitCodes, EXIT_OK, EXIT_IO, EXIT_CORRUPT,
        EXIT_OOM, EXIT_UNSUPPORTED, Running, cfgVars, errVars, callVars,
        bufVars, placeVars, logVars
<1>1. CASE WriteHeader
  BY <1>1 DEF WriteHeader, PutOk, PutFails, End
<1>2. CASE RefuseEntry
  BY <1>2 DEF RefuseEntry
<1>3. CASE EntryBegin
  BY <1>3 DEF EntryBegin
<1>4. CASE Unwind
  BY <1>4 DEF Unwind, End
<1>5. ASSUME NEW n \in Writes, TarOut(n) PROVE ControlType'
  BY <1>5 DEF TarOut, FrameBlock
<1>6. CASE BodyFails
  BY <1>6 DEF BodyFails
<1>7. CASE EntryEnd
  BY <1>7 DEF EntryEnd, FrameBlock
<1>8. CASE SinkCopy
  BY <1>8 DEF SinkCopy
<1>9. CASE SinkReturn
  BY <1>9 DEF SinkReturn
<1>10. CASE FlushPiece
  BY <1>10 DEF FlushPiece, PutOk, PutFails
<1>11. CASE SegRoll
  BY <1>11 DEF SegRoll, PutOk, PutFails
<1>12. CASE FlushDone
  BY <1>12 DEF FlushDone
<1>13. CASE EntryTag
  BY <1>13 DEF EntryTag, PutOk, PutFails
<1>14. CASE IdxAdd
  BY <1>14 DEF IdxAdd, IdxFull
<1>15. CASE IdxWrite
  BY <1>15 DEF IdxWrite, PutOk, PutFails, End
<1>16. CASE Finish
  BY <1>16 DEF Finish, End
<1>17. CASE Ended \/ UNCHANGED vars
  BY <1>17 DEF Ended, vars
<1> QED
  BY <1>1, <1>2, <1>3, <1>4, <1>5, <1>6, <1>7, <1>8, <1>9, <1>10, <1>11,
     <1>12, <1>13, <1>14, <1>15, <1>16, <1>17 DEF Next

\* Every step keeps the counters in range, and the open entry and segment
\* inside the payload.
LEMMA StepCount ==
    ControlType /\ CountType /\ LogType /\ PlaceInv /\ [Next]_vars
        => CountType' /\ PlaceInv'
<1> SUFFICES ASSUME ControlType, CountType, LogType, PlaceInv, [Next]_vars
             PROVE  CountType' /\ PlaceInv'
  OBVIOUS
<1> USE ConstantsAssumption DEF ControlType, CountType, PlaceInv, cfgVars, errVars,
        callVars, bufVars, placeVars, logVars
<1>1. CASE WriteHeader
  BY <1>1 DEF WriteHeader, PutOk, PutFails, End
<1>2. CASE RefuseEntry
  BY <1>2 DEF RefuseEntry
<1>3. CASE EntryBegin
  BY <1>3 DEF EntryBegin
<1>4. CASE Unwind
  BY <1>4 DEF Unwind, End
<1>5. ASSUME NEW n \in Writes, TarOut(n) PROVE CountType' /\ PlaceInv'
  BY <1>5 DEF TarOut, FrameBlock
<1>6. CASE BodyFails
  BY <1>6 DEF BodyFails
<1>7. CASE EntryEnd
  BY <1>7 DEF EntryEnd, FrameBlock
<1>8. CASE SinkCopy
  <2>1. Copied \in Nat /\ Copied <= todo /\ sinkfill + Copied <= SinkBytes
    BY <1>8, LeastType DEF SinkCopy, Copied
  <2> QED BY <1>8, <2>1 DEF SinkCopy
<1>9. CASE SinkReturn
  BY <1>9 DEF SinkReturn
<1>10. CASE FlushPiece
  <2>1. Piece \in Nat /\ fed + Piece <= sinkfill
    BY <1>10, LeastType DEF FlushPiece, MoreToFeed, RollDue, Piece
  <2> HIDE DEF Piece
  <2> QED BY <1>10, <2>1 DEF FlushPiece, PutOk, PutFails
<1>11. CASE SegRoll
  BY <1>11 DEF SegRoll, PutOk, PutFails, NextSegment
<1>12. CASE FlushDone
  BY <1>12 DEF FlushDone
<1>13. CASE EntryTag
  BY <1>13 DEF EntryTag, PutOk, PutFails
<1>14. CASE IdxAdd
  BY <1>14 DEF IdxAdd, IdxFull
<1>15. CASE IdxWrite
  <2>1. Len(idx) * IdxeBytes + TailBytes \in Nat
    BY DEF LogType
  <2> QED BY <1>15, <2>1 DEF IdxWrite, PutOk, PutFails, End
<1>16. CASE Finish
  BY <1>16 DEF Finish, End
<1>17. CASE Ended \/ UNCHANGED vars
  BY <1>17 DEF Ended, vars
<1> QED
  BY <1>1, <1>2, <1>3, <1>4, <1>5, <1>6, <1>7, <1>8, <1>9, <1>10, <1>11,
     <1>12, <1>13, <1>14, <1>15, <1>16, <1>17 DEF Next

\* Every step keeps the logs of streams, segments and records well formed.
LEMMA StepLog == CountType /\ LogType /\ PlaceInv /\ [Next]_vars => LogType'
<1> SUFFICES ASSUME CountType, LogType, PlaceInv, [Next]_vars PROVE LogType' OBVIOUS
<1> USE ConstantsAssumption DEF LogType, logVars, errVars, callVars, bufVars, placeVars
<1>1. CASE WriteHeader
  BY <1>1 DEF WriteHeader, PutOk, PutFails, End
<1>2. CASE RefuseEntry
  BY <1>2 DEF RefuseEntry
<1>3. CASE EntryBegin
  <2>1. EntryNonce(entnext, 0) \in Nonces
    BY NonceFields DEF CountType
  <2>2. Append(opened, EntryNonce(entnext, 0)) \in Seq(Nonces)
    BY <2>1
  <2> QED BY <1>3, <2>2 DEF EntryBegin
<1>4. CASE Unwind
  BY <1>4 DEF Unwind, End
<1>5. ASSUME NEW n \in Writes, TarOut(n) PROVE LogType'
  BY <1>5 DEF TarOut, FrameBlock
<1>6. CASE BodyFails
  BY <1>6 DEF BodyFails
<1>7. CASE EntryEnd
  BY <1>7 DEF EntryEnd, FrameBlock
<1>8. CASE SinkCopy
  BY <1>8 DEF SinkCopy
<1>9. CASE SinkReturn
  BY <1>9 DEF SinkReturn
<1>10. CASE FlushPiece
  BY <1>10 DEF FlushPiece, PutOk, PutFails
<1>11. CASE SegRoll
  <2>1. OpenSegment \in Segments
    BY DEF OpenSegment, Segments, CountType, PlaceInv
  <2>2. EntryNonce(entnext, NextSegment) \in Nonces
    BY NonceFields DEF NextSegment, CountType
  <2>3. /\ Append(sealed, OpenSegment) \in Seq(Segments)
        /\ Append(opened, EntryNonce(entnext, NextSegment)) \in Seq(Nonces)
    BY <2>1, <2>2
  <2> QED BY <1>11, <2>3 DEF SegRoll
<1>12. CASE FlushDone
  BY <1>12 DEF FlushDone
<1>13. CASE EntryTag
  <2>1. OpenSegment \in Segments
    BY DEF OpenSegment, Segments, CountType, PlaceInv
  <2>2. Append(sealed, OpenSegment) \in Seq(Segments)
    BY <2>1
  <2>3. nameless \cup {entnext} \subseteq Nat
    BY DEF CountType
  <2> QED BY <1>13, <2>2, <2>3 DEF EntryTag
<1>14. CASE IdxAdd
  <2>1. Record \in Records
    BY DEF Record, Records, CountType, PlaceInv
  <2> QED BY <1>14, <2>1 DEF IdxAdd
<1>15. CASE IdxWrite
  BY <1>15, NonceFields DEF IdxWrite
<1>16. CASE Finish
  BY <1>16 DEF Finish, End
<1>17. CASE Ended \/ UNCHANGED vars
  BY <1>17 DEF Ended, vars
<1> QED
  BY <1>1, <1>2, <1>3, <1>4, <1>5, <1>6, <1>7, <1>8, <1>9, <1>10, <1>11,
     <1>12, <1>13, <1>14, <1>15, <1>16, <1>17 DEF Next

-----------------------------------------------------------------------------

\* The three actions that open a stream are the only ones that add a nonce.
Quiet == [Next]_vars /\ ~EntryBegin /\ ~SegRoll /\ ~IdxWrite

\* A step that opens no stream keeps the bound on ordinals and what is known
\* of the nonces used: entry_end moves the ordinal only past a written tag.
LEMMA QuietStep == IInv /\ Quiet => OrdinalInv' /\ UsedInv' /\ NonceOnce'
<1> SUFFICES ASSUME IInv, Quiet PROVE OrdinalInv' /\ UsedInv' /\ NonceOnce' OBVIOUS
<1>0. ControlType /\ CountType /\ OrdinalInv /\ UsedInv /\ NonceOnce
  BY DEF IInv, TypeOK
<1>t. entnext \in Nat /\ MaxEntries \in Nat /\ \A i \in 1..Len(opened) : opened[i] \in Nat \X Nat
  BY ConstantsAssumption DEF IInv, TypeOK, CountType, LogType, Nonces
<1>o. \A i \in 1..Len(opened) : opened[i][1] \in Nat /\ opened[i][2] \in Nat
  BY <1>t
<1> USE <1>0, <1>t, <1>o DEF OrdinalInv, UsedInv, NonceOnce, InEntry, EXIT_OK, EXIT_IO,
        EXIT_CORRUPT, EXIT_OOM, EXIT_UNSUPPORTED, placeVars, logVars, errVars
<1>1. CASE WriteHeader
  BY <1>1 DEF WriteHeader, End
<1>2. CASE RefuseEntry
  BY <1>2 DEF RefuseEntry
<1>4. CASE Unwind
  BY <1>4 DEF Unwind, End
<1>5. ASSUME NEW n \in Writes, TarOut(n) PROVE OrdinalInv' /\ UsedInv' /\ NonceOnce'
  BY <1>5 DEF TarOut
<1>6. CASE BodyFails
  BY <1>6 DEF BodyFails
<1>7. CASE EntryEnd
  BY <1>7 DEF EntryEnd
<1>8. CASE SinkCopy
  BY <1>8 DEF SinkCopy
<1>9. CASE SinkReturn
  BY <1>9 DEF SinkReturn
<1>10. CASE FlushPiece
  BY <1>10 DEF FlushPiece
<1>12. CASE FlushDone
  BY <1>12 DEF FlushDone
<1>13. CASE EntryTag
  <2>1. CASE entnext' = entnext + 1 /\ pc' = "list" /\ opened' = opened
    BY <1>13, <2>1 DEF EntryTag
  <2>2. CASE entnext' = entnext /\ packerr' = EXIT_IO /\ pc' = "list" /\ opened' = opened
    BY <1>13, <2>2 DEF EntryTag
  <2> QED BY <1>13, <2>1, <2>2 DEF EntryTag
<1>14. CASE IdxAdd
  BY <1>14 DEF IdxAdd, IdxFull
<1>16. CASE Finish
  BY <1>16 DEF Finish, End
<1>17. CASE Ended \/ UNCHANGED vars
  BY <1>17 DEF Ended, vars
<1> QED
  BY <1>1, <1>2, <1>4, <1>5, <1>6, <1>7, <1>8, <1>9, <1>10, <1>12, <1>13,
     <1>14, <1>16, <1>17 DEF Quiet, Next

\* entry_begin opens segment 0 of an ordinal no stream has used.
LEMMA EntryBeginStep == IInv /\ EntryBegin => OrdinalInv' /\ UsedInv' /\ NonceOnce'
<1> SUFFICES ASSUME IInv, EntryBegin PROVE OrdinalInv' /\ UsedInv' /\ NonceOnce' OBVIOUS
<1> DEFINE n == EntryNonce(entnext, 0)
<1>1. /\ entnext \in Nat /\ MaxEntries \in Nat /\ opened \in Seq(Nonces)
      /\ entnext' = entnext /\ segidx' = 0 /\ pc' = "body" /\ entnext < MaxEntries
      /\ opened' = Append(opened, n)
  BY ConstantsAssumption DEF IInv, TypeOK, CountType, LogType, EntryBegin
<1>2. n \in Nonces /\ n[1] = entnext + 1 /\ n[2] = 0
  BY <1>1, NonceFields
<1>3. \A i \in 1..Len(opened) : opened[i] \in Nonces /\ opened[i][1] <= entnext
  BY <1>1 DEF IInv, UsedInv, EntryBegin, EXIT_OK
<1>4. \A i \in 1..Len(opened) : opened[i] # n
  BY <1>1, <1>2, <1>3 DEF Nonces
<1> HIDE DEF n
<1>5. /\ Len(opened') = Len(opened) + 1
      /\ \A i \in 1..Len(opened) : opened'[i] = opened[i]
      /\ opened'[Len(opened) + 1] = n
      /\ NonceOnce'
  BY <1>1, <1>2, <1>4, FreshNonce DEF IInv, NonceOnce
<1>6. \A i \in 1..Len(opened') : i \in 1..Len(opened) \/ i = Len(opened) + 1
  BY <1>1, <1>5
<1>7. UsedInv'
  BY <1>1, <1>2, <1>3, <1>5, <1>6 DEF UsedInv, InEntry, Nonces
<1> QED BY <1>1, <1>5, <1>7 DEF OrdinalInv, InEntry

\* seg_roll opens a segment beyond every one the ordinal has used.
LEMMA SegRollStep == IInv /\ SegRoll => OrdinalInv' /\ UsedInv' /\ NonceOnce'
<1> SUFFICES ASSUME IInv, SegRoll PROVE OrdinalInv' /\ UsedInv' /\ NonceOnce' OBVIOUS
<1> DEFINE n == EntryNonce(entnext, NextSegment)
<1>1. /\ entnext \in Nat /\ segidx \in Nat /\ MaxEntries \in Nat /\ opened \in Seq(Nonces)
      /\ entnext' = entnext /\ pc = "flush" /\ pc' = "flush" /\ entnext < MaxEntries
  BY ConstantsAssumption DEF IInv, TypeOK, CountType, LogType, SegRoll, OrdinalInv, InEntry
<1>2. n \in Nonces /\ n[1] = entnext + 1 /\ n[2] = segidx + 1
  <2>1. NextSegment \in Nat /\ NextSegment = segidx + 1
    BY <1>1 DEF NextSegment
  <2>2. n \in Nonces /\ n[1] = entnext + 1 /\ n[2] = NextSegment
    BY <1>1, <2>1, NonceFields
  <2> QED BY <2>1, <2>2
<1> HIDE DEF n
<1>3. \A i \in 1..Len(opened) : /\ opened[i] \in Nonces /\ opened[i][1] <= entnext + 1
                                /\ opened[i][1] = entnext + 1 => opened[i][2] <= segidx
  BY <1>1 DEF IInv, UsedInv, InEntry
<1>4. \A i \in 1..Len(opened) : opened[i] # n
  <2> SUFFICES ASSUME NEW i \in 1..Len(opened), opened[i] = n PROVE FALSE OBVIOUS
  <2> QED BY <1>1, <1>2, <1>3
<1>5. CASE segidx' = segidx + 1 /\ opened' = Append(opened, n)
  <2>1. /\ Len(opened') = Len(opened) + 1
        /\ \A i \in 1..Len(opened) : opened'[i] = opened[i]
        /\ opened'[Len(opened) + 1] = n
        /\ NonceOnce'
    BY <1>1, <1>2, <1>4, <1>5, FreshNonce DEF IInv, NonceOnce
  <2>2. \A i \in 1..Len(opened') : i \in 1..Len(opened) \/ i = Len(opened) + 1
    BY <1>1, <2>1
  <2>3. \A i \in 1..Len(opened) : opened[i][1] \in Nat /\ opened[i][2] \in Nat
    BY <1>3 DEF Nonces
  <2>4. \A i \in 1..Len(opened') :
           /\ opened'[i][1] <= entnext + 1
           /\ opened'[i][1] = entnext + 1 => opened'[i][2] <= segidx'
    <3> SUFFICES ASSUME NEW i \in 1..Len(opened')
                 PROVE  /\ opened'[i][1] <= entnext + 1
                        /\ opened'[i][1] = entnext + 1 => opened'[i][2] <= segidx'
      OBVIOUS
    <3>1. CASE i \in 1..Len(opened)
      <4>1. opened'[i] = opened[i]
        BY <2>1, <3>1
      <4>2. /\ opened[i][1] <= entnext + 1 /\ opened[i][2] \in Nat
            /\ opened[i][1] = entnext + 1 => opened[i][2] <= segidx
        BY <1>3, <2>3, <3>1
      <4> QED BY <1>1, <1>5, <4>1, <4>2
    <3>2. CASE i = Len(opened) + 1
      <4>1. opened'[i] = n
        BY <2>1, <3>2
      <4> QED BY <1>1, <1>2, <1>5, <4>1
    <3> QED BY <2>2, <3>1, <3>2
  <2>5. UsedInv'
    BY <1>1, <2>4 DEF UsedInv
  <2> QED BY <1>1, <2>1, <2>5 DEF OrdinalInv, InEntry
<1>6. CASE segidx' = segidx /\ opened' = opened
  BY <1>1, <1>6 DEF IInv, OrdinalInv, UsedInv, InEntry, NonceOnce
<1> QED BY <1>5, <1>6 DEF SegRoll, NextSegment, n

\* idx_write's counter lies beyond every ordinal, because entries are bounded.
LEMMA IdxWriteStep == IInv /\ IdxWrite => OrdinalInv' /\ UsedInv' /\ NonceOnce'
<1> SUFFICES ASSUME IInv, IdxWrite PROVE OrdinalInv' /\ UsedInv' /\ NonceOnce' OBVIOUS
<1>1. /\ entnext \in Nat /\ MaxEntries \in Nat /\ NonceBase \in Nat /\ opened \in Seq(Nonces)
      /\ entnext' = entnext /\ entnext <= MaxEntries /\ MaxEntries < NonceBase
      /\ pc' \in {"finish", "ended"}
      /\ opened' = Append(opened, IndexNonce)
  BY ConstantsAssumption
     DEF IInv, TypeOK, CountType, LogType, OrdinalInv, IdxWrite, End, placeVars
<1>2. IndexNonce \in Nonces /\ IndexNonce[1] = NonceBase
  BY NonceFields
<1>3. \A i \in 1..Len(opened) : opened[i] \in Nonces /\ opened[i][1] <= entnext
  BY <1>1 DEF IInv, UsedInv, IdxWrite, EXIT_OK
<1>4. \A i \in 1..Len(opened) : opened[i] # IndexNonce
  BY <1>1, <1>2, <1>3 DEF Nonces
<1>5. NonceOnce'
  BY <1>1, <1>2, <1>4, FreshNonce DEF IInv, NonceOnce
<1> QED BY <1>1, <1>5 DEF OrdinalInv, UsedInv, InEntry

-----------------------------------------------------------------------------

\* The error is sticky: no step clears it, and only vol_finish ends a pass in
\* success.
LEMMA StepError == ControlType /\ ErrorInv /\ [Next]_vars => ErrorInv'
<1> SUFFICES ASSUME ControlType, ErrorInv, [Next]_vars PROVE ErrorInv' OBVIOUS
<1> USE DEF ErrorInv, ControlType, EXIT_OK, EXIT_IO, EXIT_CORRUPT,
        EXIT_OOM, EXIT_UNSUPPORTED, Running, errVars
<1>1. CASE WriteHeader
  BY <1>1 DEF WriteHeader, End
<1>2. CASE RefuseEntry
  BY <1>2 DEF RefuseEntry
<1>3. CASE EntryBegin
  BY <1>3 DEF EntryBegin
<1>4. CASE Unwind
  BY <1>4 DEF Unwind, End
<1>5. ASSUME NEW n \in Writes, TarOut(n) PROVE ErrorInv'
  BY <1>5 DEF TarOut
<1>6. CASE BodyFails
  BY <1>6 DEF BodyFails
<1>7. CASE EntryEnd
  BY <1>7 DEF EntryEnd
<1>8. CASE SinkCopy
  BY <1>8 DEF SinkCopy
<1>9. CASE SinkReturn
  BY <1>9 DEF SinkReturn
<1>10. CASE FlushPiece
  BY <1>10 DEF FlushPiece
<1>11. CASE SegRoll
  BY <1>11 DEF SegRoll
<1>12. CASE FlushDone
  BY <1>12 DEF FlushDone
<1>13. CASE EntryTag
  BY <1>13 DEF EntryTag
<1>14. CASE IdxAdd
  BY <1>14 DEF IdxAdd, IdxFull
<1>15. CASE IdxWrite
  BY <1>15 DEF IdxWrite, End
<1>16. CASE Finish
  BY <1>16 DEF Finish, End
<1>17. CASE Ended \/ UNCHANGED vars
  BY <1>17 DEF Ended, vars
<1> QED
  BY <1>1, <1>2, <1>3, <1>4, <1>5, <1>6, <1>7, <1>8, <1>9, <1>10, <1>11,
     <1>12, <1>13, <1>14, <1>15, <1>16, <1>17 DEF Next

\* entry_end moves the ordinal and idx_add records it, or there is an error.
LEMMA StepList == IInv /\ [Next]_vars => ListInv'
<1> SUFFICES ASSUME IInv, [Next]_vars, packerr' = EXIT_OK PROVE ListInv'
  BY DEF ListInv
<1>0. /\ entnext \in Nat /\ idx \in Seq(Records) /\ ListInv
      /\ pc = "tag" => packerr = EXIT_OK
  BY DEF IInv, TypeOK, CountType, LogType, ErrorInv
<1>1. ASSUME UNCHANGED <<entnext, nameless, idx>>, packerr = EXIT_OK,
             pc # "list", pc' # "list"
      PROVE  ListInv'
  BY <1>0, <1>1 DEF ListInv, Accounted
<1>2. CASE EntryTag
  <2>1. packerr = EXIT_OK /\ pc = "tag" /\ pc' = "list"
    BY <1>0, <1>2 DEF EntryTag
  <2>2. /\ entnext' = entnext + 1 /\ idx' = idx /\ named' = named
        /\ nameless' = IF named THEN nameless ELSE nameless \cup {entnext}
    BY <1>2, <2>1 DEF EntryTag, EXIT_IO, EXIT_OK, callVars
  <2>3. \A o \in 0..(entnext' - 2) : o \in 0..(entnext - 1)
    BY <1>0, <2>2
  <2>4. \A o \in 0..(entnext - 1) : Accounted(o)'
    BY <1>0, <2>1, <2>2 DEF ListInv, Accounted
  <2> QED
    BY <1>0, <2>1, <2>2, <2>3, <2>4 DEF ListInv
<1>3. CASE IdxAdd
  <2>1. packerr = EXIT_OK /\ pc = "list" /\ pc' = "ready" /\ entnext' = entnext /\ nameless' = nameless
    BY <1>3 DEF IdxAdd, IdxFull, EXIT_OK, EXIT_OOM, EXIT_UNSUPPORTED, placeVars
  <2>2. /\ entnext >= 1 /\ \A o \in 0..(entnext - 2) : Accounted(o)
        /\ ~named => entnext - 1 \in nameless
    BY <1>0, <2>1 DEF ListInv
  <2>3. \A o \in 0..(entnext - 1) : o \in 0..(entnext - 2) \/ o = entnext - 1
    BY <1>0
  <2>4. CASE ~named /\ idx' = idx
    BY <2>1, <2>2, <2>3, <2>4 DEF ListInv, Accounted
  <2>5. CASE idx' = Append(idx, Record)
    <3>1. /\ Len(idx') = Len(idx) + 1 /\ idx'[Len(idx) + 1] = Record
          /\ \A i \in 1..Len(idx) : idx'[i] = idx[i]
          /\ Len(idx) \in Nat
      BY <1>0, <2>5
    <3>2. Record.ordinal = entnext - 1
      BY DEF Record
    <3>3. Accounted(entnext - 1)'
      BY <3>1, <3>2, <2>1 DEF Accounted
    <3>4. \A o \in 0..(entnext - 2) : Accounted(o)'
      BY <2>1, <2>2, <3>1 DEF Accounted
    <3> QED
      BY <2>1, <2>3, <3>3, <3>4 DEF ListInv
  <2> QED
    BY <1>3, <2>1, <2>4, <2>5 DEF IdxAdd, IdxFull, EXIT_OK, EXIT_OOM, EXIT_UNSUPPORTED
<1>4. CASE Ended \/ UNCHANGED vars
  BY <1>0, <1>4 DEF Ended, vars, errVars, placeVars, logVars, callVars, ListInv, Accounted
<1>5. CASE FlushDone
  <2>1. packerr = EXIT_OK /\ UNCHANGED <<entnext, nameless, idx>> /\ pc # "list" /\ pc' # "list"
    BY <1>5 DEF FlushDone, errVars, placeVars, logVars
  <2> QED
    BY <1>1, <2>1
<1> USE DEF EXIT_OK, EXIT_IO, EXIT_CORRUPT, EXIT_OOM, EXIT_UNSUPPORTED, errVars, placeVars, logVars
<1>6. CASE WriteHeader
  BY <1>1, <1>6 DEF WriteHeader, End
<1>7. CASE RefuseEntry
  BY <1>7 DEF RefuseEntry
<1>8. CASE EntryBegin
  BY <1>1, <1>8 DEF EntryBegin
<1>9. CASE Unwind
  BY <1>9 DEF Unwind, End
<1>10. ASSUME NEW n \in Writes, TarOut(n) PROVE ListInv'
  BY <1>1, <1>10 DEF TarOut
<1>11. CASE BodyFails
  BY <1>11 DEF BodyFails
<1>12. CASE EntryEnd
  BY <1>1, <1>12 DEF EntryEnd
<1>13. CASE SinkCopy
  BY <1>1, <1>13 DEF SinkCopy
<1>14. CASE SinkReturn
  BY <1>1, <1>14 DEF SinkReturn
<1>15. CASE FlushPiece
  BY <1>1, <1>15 DEF FlushPiece, MoreToFeed
<1>16. CASE SegRoll
  BY <1>1, <1>16 DEF SegRoll, RollDue, MoreToFeed
<1>17. CASE IdxWrite
  BY <1>1, <1>17 DEF IdxWrite, End
<1>18. CASE Finish
  BY <1>1, <1>18 DEF Finish, End
<1> QED
  BY <1>2, <1>3, <1>4, <1>5, <1>6, <1>7, <1>8, <1>9, <1>10, <1>11,
     <1>12, <1>13, <1>14, <1>15, <1>16, <1>17, <1>18 DEF Next

\* The invariant is inductive.
LEMMA StepIInv == IInv /\ [Next]_vars => IInv'
<1> SUFFICES ASSUME IInv, [Next]_vars PROVE IInv' OBVIOUS
<1>1. TypeOK' /\ PlaceInv'
  BY StepControl, StepCount, StepLog DEF IInv, TypeOK
<1>2. OrdinalInv' /\ UsedInv' /\ NonceOnce'
  BY QuietStep, EntryBeginStep, SegRollStep, IdxWriteStep DEF Quiet
<1>3. ErrorInv' /\ ListInv'
  BY StepError, StepList DEF IInv, TypeOK
<1> QED BY <1>1, <1>2, <1>3 DEF IInv

\* What the properties rest on holds in every state of the pass.
THEOREM Invariant == Spec => []IInv
  BY InitIInv, StepIInv, PTL DEF Spec

\* In every execution the writer's variables have their types and its buffers
\* stay within their bounds (sink_write, csink_write).
THEOREM TypeCorrect == Spec => []TypeOK
<1>1. IInv => TypeOK
  BY DEF IInv
<1> QED BY Invariant, <1>1, PTL

\* In every execution no two streams of the container share a nonce, whatever
\* the segment size, the sizes of the entries and the calls that fail.
THEOREM NonceUniqueness == Spec => []NonceOnce
<1>1. IInv => NonceOnce
  BY DEF IInv
<1> QED BY Invariant, <1>1, PTL

\* In every execution a pack that reports success has listed every entry it
\* sealed that has a name: an inventory that is full, or that no memory is left
\* for, fails the pack (idx_add).
THEOREM SuccessListed == Spec => []SuccessListsAll
<1>1. IInv => SuccessListsAll
  <2> SUFFICES ASSUME IInv, code = EXIT_OK, NEW o \in 0..(entnext - 1)
               PROVE  Accounted(o)
    BY DEF SuccessListsAll, Accounted
  <2>1. pc = "ended" /\ packerr = EXIT_OK
    BY DEF IInv, ErrorInv
  <2> QED
    BY <2>1 DEF IInv, ListInv
<1> QED BY Invariant, <1>1, PTL
=============================================================================
