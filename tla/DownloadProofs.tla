---------------------------- MODULE DownloadProofs ----------------------------
(* Proofs about Download for any number of processes, file versions and sizes. *)
(*                                                                             *)
(* A process publishes the part file but verifies its own hasher.  The two     *)
(* agree because only the lock's holder writes (LockInv), every write goes     *)
(* to both (HashInv), and a call that resumes hashes the part file again.      *)
EXTENDS Download, TLAPS

\* The locals of a call that returns are back at their initial values.
LEMMA DropTypes ==
  ASSUME NEW p \in Procs, TypeOK, DropLocals(p)
  PROVE  /\ hashed' \in [Procs -> Seq(Chunks)]
         /\ total' \in [Procs -> Nat] /\ end' \in [Procs -> Nat]
         /\ frame' \in [Procs -> Nat] /\ start' \in [Procs -> Nat]
         /\ stalls' \in [Procs -> 0..StallLimit]
         /\ serving' \in [Procs -> Bodies]
<1>1. hashed' \in [Procs -> Seq(Chunks)]
  <2>1. <<>> \in Seq(Chunks)
    OBVIOUS
  <2> QED
    BY <2>1 DEF DropLocals, TypeOK
<1>2. /\ total' \in [Procs -> Nat] /\ end' \in [Procs -> Nat]
      /\ frame' \in [Procs -> Nat] /\ start' \in [Procs -> Nat]
  BY DEF DropLocals, TypeOK
<1>3. stalls' \in [Procs -> 0..StallLimit]
  <2>1. 0 \in 0..StallLimit
    BY DownloadAssumption
  <2> QED
    BY <2>1 DEF DropLocals, TypeOK
<1>4. serving' \in [Procs -> Bodies]
  <2>1. Body(Pinned, 0) \in Bodies
    BY DownloadAssumption DEF Body, Bodies
  <2> QED
    BY <2>1 DEF DropLocals, TypeOK
<1> QED
  BY <1>1, <1>2, <1>3, <1>4

\* A return leaves every variable of the call in its type.
LEMMA ReturnTypes ==
  ASSUME NEW p \in Procs, NEW from, NEW to \in States, TypeOK,
         Return(p, from, to), barren' = barren, remote' = remote,
         part' \in Seq(Chunks), file' \in [exists : BOOLEAN, data : Seq(Chunks)]
  PROVE  TypeOK'
<1>1. DropLocals(p)
  BY DEF Return
<1>2. pc' \in [Procs -> States] /\ lock' \in Procs \cup {Nobody}
  BY DEF Return, Goto, TypeOK
<1>3. barren' \in [Procs -> 0..StallLimit] /\ remote' \in Versions
  BY DEF TypeOK
<1> QED
  BY <1>1, <1>2, <1>3, DropTypes DEF TypeOK

\* What TransportError does to the control state and to the files.
LEMMA TransportErrorEffect ==
  ASSUME NEW p \in Procs, NEW from, NEW begun, TransportError(p, from, begun)
  PROVE  /\ pc[p] = from /\ part' = part /\ file' = file /\ remote' = remote
         /\ \/ Return(p, from, "stalled")
            \/ pc' = [pc EXCEPT ![p] = "request"] /\ lock' = lock /\ hashed' = hashed
<1>1. pc[p] = from
  BY DEF TransportError, Return, Goto
<1> QED
  BY <1>1 DEF TransportError, Goto

\* The history of fruitless attempts stays within its cap.
LEMMA CountTypes ==
  ASSUME NEW p \in Procs, NEW begun, TypeOK, CountAttempt(p, begun)
  PROVE  barren' \in [Procs -> 0..StallLimit]
<1> DEFINE n == IF downloaded(p) > begun THEN 0
                ELSE IF barren[p] < StallLimit THEN barren[p] + 1 ELSE barren[p]
<1>1. barren \in [Procs -> 0..StallLimit]
  BY DEF TypeOK
<1>2. n \in 0..StallLimit
  BY <1>1, DownloadAssumption
<1>3. barren' = [barren EXCEPT ![p] = n]
  BY DEF CountAttempt
<1> QED
  BY <1>1, <1>2, <1>3

\* A failed attempt, counted as a stall or not, keeps the type.
LEMMA TransportErrorTypes ==
  ASSUME NEW p \in Procs, NEW from, NEW begun \in Nat, TypeOK,
         TransportError(p, from, begun)
  PROVE  TypeOK'
<1> DEFINE count == IF downloaded(p) > begun THEN 0 ELSE stalls[p] + 1
<1>1. barren' \in [Procs -> 0..StallLimit]
  BY CountTypes DEF TransportError
<1>2. file' = file /\ part' = part /\ remote' = remote
  BY DEF TransportError
<1>3. count \in Nat
  BY DEF TypeOK
<1>4. CASE count >= StallLimit
  <2>1. Return(p, from, "stalled")
    BY <1>4 DEF TransportError
  <2>2. pc' \in [Procs -> States] /\ lock' \in Procs \cup {Nobody}
    BY <2>1 DEF Return, Goto, TypeOK, States
  <2>3. DropLocals(p)
    BY <2>1 DEF Return
  <2> QED
    BY <1>1, <1>2, <2>2, <2>3, DropTypes DEF TypeOK
<1>5. CASE ~(count >= StallLimit)
  <2>1. /\ Goto(p, from, "request")
        /\ stalls' = [stalls EXCEPT ![p] = count]
        /\ UNCHANGED <<lock, hashed, total, end, frame, start, serving>>
    BY <1>5 DEF TransportError
  <2>2. count \in 0..StallLimit
    BY <1>3, <1>5, DownloadAssumption
  <2>3. pc' \in [Procs -> States]
    BY <2>1 DEF Goto, TypeOK, States, Locked
  <2>4. stalls' \in [Procs -> 0..StallLimit]
    BY <2>1, <2>2 DEF TypeOK
  <2> HIDE DEF count
  <2> QED
    BY <1>1, <1>2, <2>1, <2>3, <2>4 DEF TypeOK
<1> QED
  BY <1>4, <1>5

\* A 206 is refused, or its range starts at the offset that was asked for.
LEMMA PartialEffect ==
  ASSUME NEW p \in Procs, TypeOK, AnswerPartial(p)
  PROVE  \E first \in 0 .. Size[remote] - 1, next \in 1 .. Size[remote] :
         /\ first < next
         /\ \/ Return(p, "request", "failed")
            \/ /\ AcceptsRange(first, next, Size[remote], downloaded(p))
               /\ Goto(p, "request", "body")
               /\ start' = [start EXCEPT ![p] = downloaded(p)]
               /\ total' = [total EXCEPT ![p] = Size[remote]]
               /\ end' = [end EXCEPT ![p] = next]
               /\ \E x \in {0, next - (first - downloaded(p))} :
                     frame' = [frame EXCEPT ![p] = x]
               /\ serving' = [serving EXCEPT ![p] = Body(remote, first - downloaded(p))]
               /\ UNCHANGED <<lock, hashed, stalls>>
<1> DEFINE Answered(first, next) ==
         IF \/ ~AcceptsRange(first, next, Size[remote], downloaded(p))
            \/ total[p] \notin {0, Size[remote]}
         THEN Return(p, "request", "failed")
         ELSE /\ Goto(p, "request", "body")
              /\ start' = [start EXCEPT ![p] = downloaded(p)]
              /\ total' = [total EXCEPT ![p] = Size[remote]]
              /\ end' = [end EXCEPT ![p] = next]
              /\ \E x \in {0, next - (first - downloaded(p))} :
                    frame' = [frame EXCEPT ![p] = x]
              /\ serving' = [serving EXCEPT ![p] = Body(remote, first - downloaded(p))]
              /\ UNCHANGED <<lock, hashed, stalls>>
<1>1. Size[remote] \in Nat
  BY DownloadAssumption DEF TypeOK
<1>0. PICK first \in 0 .. Size[remote] - 1 :
         \E next \in first + 1 .. Size[remote] : Answered(first, next)
  BY Zenon DEF AnswerPartial
<1>2. PICK next \in first + 1 .. Size[remote] : Answered(first, next)
  BY <1>0
<1>3. first < next /\ next \in 1 .. Size[remote]
  BY <1>1, <1>2
<1> QED
  BY <1>2, <1>3, Zenon

-----------------------------------------------------------------------------
(* Every step preserves the inductive invariant.                               *)

\* No step leaves the types.
LEMMA TypeStep ==
  ASSUME TypeOK, [Next]_vars
  PROVE  TypeOK'
<1> SUFFICES ASSUME NEW p \in Procs,
                    \/ Begin(p) \/ Call(p) \/ CrashOrRerun(p)
                    \/ RemoteChanges \/ UNCHANGED vars
             PROVE  TypeOK'
  BY DownloadAssumption DEF Next
<1>d. downloaded(p) \in Nat
  BY DEF TypeOK, downloaded
<1>s. start[p] \in Nat
  BY DEF TypeOK
<1>t. /\ Append(part, Chunk(p)) \in Seq(Chunks)
      /\ Append(hashed[p], Chunk(p)) \in Seq(Chunks)
  <2>1. serving[p].version \in Versions /\ serving[p].skew \in Int
    BY DEF TypeOK, Bodies
  <2>2. Chunk(p) \in Chunks
    BY <1>d, <2>1 DEF Chunk, Chunks
  <2> QED
    BY <2>2 DEF TypeOK
<1>1. CASE Begin(p)
  BY <1>1 DEF Begin, Goto, TypeOK, States, Locked, local
<1>2. CASE LockAcquired(p)
  BY <1>2 DEF LockAcquired, Goto, TypeOK, States, Locked, local
<1>3. CASE LockTimeout(p)
  BY <1>3 DEF LockTimeout, Goto, TypeOK, States, Locked, local
<1>4. CASE AlreadyThere(p)
  BY <1>4, ReturnTypes DEF AlreadyThere, TypeOK, States, Locked
<1>5. CASE Resume(p)
  <2>1. hashed' \in [Procs -> Seq(Chunks)]
    BY <1>5 DEF Resume, TypeOK
  <2>2. 0 \in 0..StallLimit
    BY DownloadAssumption
  <2>3. barren' \in [Procs -> 0..StallLimit]
    BY <1>5, <2>2 DEF Resume, TypeOK
  <2> QED
    BY <1>5, <2>1, <2>3 DEF Resume, Goto, TypeOK, States, Locked
<1>6. CASE SendFails(p)
  <2>1. downloaded(p) \in Nat
    BY DEF TypeOK, downloaded
  <2> QED
    BY <1>6, <2>1, TransportErrorTypes DEF SendFails
<1>7. CASE AnswerRefused(p)
  BY <1>7, ReturnTypes DEF AnswerRefused, TypeOK, States, Locked
<1>8. CASE AnswerComplete(p)
  BY <1>8, <1>d DEF AnswerComplete, Goto, TypeOK, States, Locked
<1>9. CASE AnswerPartial(p)
  <2>0. PICK first \in 0 .. Size[remote] - 1, next \in 1 .. Size[remote] :
         /\ first < next
         /\ \/ Return(p, "request", "failed")
            \/ /\ AcceptsRange(first, next, Size[remote], downloaded(p))
               /\ Goto(p, "request", "body")
               /\ start' = [start EXCEPT ![p] = downloaded(p)]
               /\ total' = [total EXCEPT ![p] = Size[remote]]
               /\ end' = [end EXCEPT ![p] = next]
               /\ \E x \in {0, next - (first - downloaded(p))} :
                     frame' = [frame EXCEPT ![p] = x]
               /\ serving' = [serving EXCEPT ![p] = Body(remote, first - downloaded(p))]
               /\ UNCHANGED <<lock, hashed, stalls>>
    BY <1>9, PartialEffect
  <2>1. UNCHANGED <<file, part, remote, barren>>
    BY <1>9 DEF AnswerPartial
  <2>2. Size[remote] \in Nat
    BY DownloadAssumption DEF TypeOK
  <2>5. next \in Nat /\ first \in Nat
    BY <2>2
  <2>3. CASE Return(p, "request", "failed")
    BY <2>1, <2>3, ReturnTypes DEF TypeOK, States
  <2>4. CASE ~Return(p, "request", "failed")
    <3>0. /\ AcceptsRange(first, next, Size[remote], downloaded(p))
          /\ Goto(p, "request", "body")
          /\ start' = [start EXCEPT ![p] = downloaded(p)]
          /\ total' = [total EXCEPT ![p] = Size[remote]]
          /\ end' = [end EXCEPT ![p] = next]
          /\ serving' = [serving EXCEPT ![p] = Body(remote, first - downloaded(p))]
          /\ UNCHANGED <<lock, hashed, stalls>>
      BY <2>0, <2>4
    <3>1. frame' \in [Procs -> Nat]
      <4>1. PICK x \in {0, next - (first - downloaded(p))} :
               frame' = [frame EXCEPT ![p] = x]
        BY <2>0, <2>4
      <4>2. x \in Nat
        BY <1>d, <2>5, <3>0 DEF AcceptsRange
      <4> QED
        BY <4>1, <4>2 DEF TypeOK
    <3>2. start' \in [Procs -> Nat] /\ total' \in [Procs -> Nat] /\ end' \in [Procs -> Nat]
      BY <1>d, <2>2, <2>5, <3>0 DEF TypeOK
    <3>3. pc' \in [Procs -> States]
      BY <3>0 DEF TypeOK, Goto, States, Locked
    <3>4. serving' \in [Procs -> Bodies]
      <4>1. Body(remote, first - downloaded(p)) \in Bodies
        BY <1>d, <2>5 DEF Body, Bodies, TypeOK
      <4> QED
        BY <3>0, <4>1 DEF TypeOK
    <3> QED
      BY <2>1, <3>0, <3>1, <3>2, <3>3, <3>4 DEF TypeOK
  <2> QED
    BY <2>3, <2>4
<1>10. CASE AnswerWhole(p)
  <2>1. /\ pc' \in [Procs -> States]
        /\ part' \in Seq(Chunks) /\ hashed' \in [Procs -> Seq(Chunks)]
    BY <1>10 DEF AnswerWhole, Goto, TypeOK, States, Locked
  <2>2. Size[remote] \in Nat
    BY DownloadAssumption DEF TypeOK
  <2>3. total' \in [Procs -> Nat] /\ end' \in [Procs -> Nat] /\ frame' \in [Procs -> Nat]
    BY <1>10, <2>2 DEF AnswerWhole, TypeOK
  <2>4. start' \in [Procs -> Nat] /\ serving' \in [Procs -> Bodies]
    <3>1. Body(remote, 0) \in Bodies
      BY DEF Body, Bodies, TypeOK
    <3> QED
      BY <1>10, <1>d, <3>1 DEF AnswerWhole, TypeOK
  <2> QED
    BY <1>10, <2>1, <2>3, <2>4 DEF AnswerWhole, TypeOK
<1>11. CASE BodyChunk(p)
  <2>1. CASE end[p] # 0 /\ downloaded(p) + 1 > end[p]
    BY <1>11, <2>1, ReturnTypes DEF BodyChunk, TypeOK, States
  <2>2. CASE ~(end[p] # 0 /\ downloaded(p) + 1 > end[p])
    <3>1. part' \in Seq(Chunks) /\ hashed' \in [Procs -> Seq(Chunks)]
      BY <1>11, <2>2, <1>d, <1>t DEF BodyChunk, TypeOK, downloaded
    <3> QED
      BY <1>11, <2>2, <3>1 DEF BodyChunk, TypeOK
  <2> QED
    BY <2>1, <2>2
<1>12. CASE WriteFails(p)
  <2>1. part' \in Seq(Chunks)
    BY <1>12, <1>t, <1>d DEF WriteFails, TypeOK
  <2> QED
    BY <1>12, <2>1, ReturnTypes DEF WriteFails, TypeOK, States
<1>13. CASE BodyDrops(p)
  BY <1>13, <1>s, TransportErrorTypes DEF BodyDrops
<1>14. CASE BodyEndsEarly(p)
  BY <1>14, <1>s, TransportErrorTypes DEF BodyEndsEarly
<1>15. CASE BodyEndsShort(p)
  BY <1>15, CountTypes DEF BodyEndsShort, Goto, TypeOK, States, Locked
<1>16. CASE BodyComplete(p)
  BY <1>16 DEF BodyComplete, local, Goto, TypeOK, States, Locked
<1>17. CASE Publish(p)
  <2>1. part' \in Seq(Chunks) /\ file' \in [exists : BOOLEAN, data : Seq(Chunks)]
    BY <1>17 DEF Publish, TypeOK
  <2> QED
    BY <1>17, <2>1, ReturnTypes DEF Publish, States
<1>18. CASE ChecksumMismatch(p)
  <2>1. part' \in Seq(Chunks)
    BY <1>18 DEF ChecksumMismatch
  <2> QED
    BY <1>18, <2>1, ReturnTypes DEF ChecksumMismatch, TypeOK, States
<1>19. CASE FinishFails(p)
  BY <1>19, ReturnTypes DEF FinishFails, TypeOK, States, Locked
<1>20. CASE CrashOrRerun(p)
  <2>1. DropLocals(p)
    BY <1>20 DEF CrashOrRerun
  <2>2. pc' \in [Procs -> States] /\ lock' \in Procs \cup {Nobody}
    BY <1>20 DEF CrashOrRerun, TypeOK, States
  <2> QED
    BY <1>20, <2>1, <2>2, DropTypes DEF CrashOrRerun, TypeOK
<1>21. CASE RemoteChanges
  BY <1>21 DEF RemoteChanges, Goto, TypeOK, States, Locked, local
<1>22. CASE UNCHANGED vars
  BY <1>22 DEF vars, Goto, TypeOK, States, Locked, local
<1> QED
  BY <1>1, <1>2, <1>3, <1>4, <1>5, <1>6, <1>7, <1>8, <1>9, <1>10, <1>11,
     <1>12, <1>13, <1>14, <1>15, <1>16, <1>17, <1>18, <1>19, <1>20, <1>21,
     <1>22 DEF Call, Attempt

\* lock_file and the returns keep the lock file and the program counters in
\* agreement.
LEMMA LockStep ==
  ASSUME TypeOK, LockInv, [Next]_vars
  PROVE  LockInv'
<1> SUFFICES ASSUME NEW p \in Procs,
                    \/ Begin(p) \/ Call(p) \/ CrashOrRerun(p)
                    \/ RemoteChanges \/ UNCHANGED vars
             PROVE  LockInv'
  BY DownloadAssumption DEF Next
<1>t. pc \in [Procs -> States]
  BY DEF TypeOK
<1> USE <1>t, DownloadAssumption DEF LockInv, Locked
<1>1. CASE Begin(p)
  BY <1>1 DEF Begin, Return, Goto
<1>2. CASE LockAcquired(p)
  BY <1>2 DEF LockAcquired, Return, Goto
<1>3. CASE LockTimeout(p)
  BY <1>3 DEF LockTimeout, Return, Goto
<1>4. CASE AlreadyThere(p)
  BY <1>4 DEF AlreadyThere, Return, Goto
<1>5. CASE Resume(p)
  BY <1>5 DEF Resume, Return, Goto
<1>6. CASE SendFails(p)
  BY <1>6, TransportErrorEffect DEF SendFails, Return, Goto
<1>7. CASE AnswerRefused(p)
  BY <1>7 DEF AnswerRefused, Return, Goto
<1>8. CASE AnswerComplete(p)
  BY <1>8 DEF AnswerComplete, Return, Goto
<1>9. CASE AnswerPartial(p)
  BY <1>9, PartialEffect DEF AnswerPartial, Return, Goto
<1>10. CASE AnswerWhole(p)
  BY <1>10 DEF AnswerWhole, Return, Goto
<1>11. CASE BodyChunk(p)
  BY <1>11 DEF BodyChunk, Return, Goto
<1>12. CASE WriteFails(p)
  BY <1>12 DEF WriteFails, Return, Goto
<1>13. CASE BodyDrops(p)
  BY <1>13, TransportErrorEffect DEF BodyDrops, Return, Goto
<1>14. CASE BodyEndsEarly(p)
  BY <1>14, TransportErrorEffect DEF BodyEndsEarly, Return, Goto
<1>15. CASE BodyEndsShort(p)
  BY <1>15 DEF BodyEndsShort, Return, Goto
<1>16. CASE BodyComplete(p)
  BY <1>16 DEF BodyComplete, Return, Goto
<1>17. CASE Publish(p)
  BY <1>17 DEF Publish, Return, Goto
<1>18. CASE ChecksumMismatch(p)
  BY <1>18 DEF ChecksumMismatch, Return, Goto
<1>19. CASE FinishFails(p)
  BY <1>19 DEF FinishFails, Return, Goto
<1>20. CASE CrashOrRerun(p)
  BY <1>20 DEF CrashOrRerun
<1>21. CASE RemoteChanges
  BY <1>21 DEF RemoteChanges
<1>22. CASE UNCHANGED vars
  BY <1>22 DEF vars
<1> QED
  BY <1>1, <1>2, <1>3, <1>4, <1>5, <1>6, <1>7, <1>8, <1>9, <1>10, <1>11,
     <1>12, <1>13, <1>14, <1>15, <1>16, <1>17, <1>18, <1>19, <1>20, <1>21,
     <1>22 DEF Call, Attempt

\* What was hashed stays what the part file contains.
LEMMA HashStep ==
  ASSUME TypeOK, LockInv, HashInv, [Next]_vars
  PROVE  HashInv'
<1> SUFFICES ASSUME NEW p \in Procs,
                    \/ Begin(p) \/ Call(p) \/ CrashOrRerun(p)
                    \/ RemoteChanges \/ UNCHANGED vars
             PROVE  HashInv'
  BY DownloadAssumption DEF Next
<1>t. /\ pc \in [Procs -> States]
      /\ hashed \in [Procs -> Seq(Chunks)]
  BY DEF TypeOK
<1> USE <1>t DEF LockInv, HashInv, Locked
<1>1. CASE Begin(p)
  BY <1>1 DEF Begin, Return, Goto, DropLocals, local
<1>2. CASE LockAcquired(p)
  BY <1>2 DEF LockAcquired, Return, Goto, DropLocals, local
<1>3. CASE LockTimeout(p)
  BY <1>3 DEF LockTimeout, Return, Goto, DropLocals, local
<1>4. CASE AlreadyThere(p)
  BY <1>4 DEF AlreadyThere, Return, Goto, DropLocals
<1>5. CASE Resume(p)
  BY <1>5 DEF Resume, Return, Goto, DropLocals
<1>6. CASE SendFails(p)
  BY <1>6, TransportErrorEffect DEF SendFails, Return, Goto, DropLocals
<1>7. CASE AnswerRefused(p)
  BY <1>7 DEF AnswerRefused, Return, Goto, DropLocals
<1>8. CASE AnswerComplete(p)
  BY <1>8 DEF AnswerComplete, Return, Goto, DropLocals
<1>9. CASE AnswerPartial(p)
  BY <1>9, PartialEffect DEF AnswerPartial, Return, Goto, DropLocals, local
<1>10. CASE AnswerWhole(p)
  BY <1>10 DEF AnswerWhole, Return, Goto, DropLocals, local
<1>11. CASE BodyChunk(p)
  <2>1. CASE end[p] # 0 /\ downloaded(p) + 1 > end[p]
    BY <1>11, <2>1 DEF BodyChunk, Return, Goto, DropLocals
  <2>2. CASE ~(end[p] # 0 /\ downloaded(p) + 1 > end[p])
    <3>1. /\ pc[p] = "body" /\ pc' = pc
          /\ part' = Append(part, Chunk(p))
          /\ hashed' = [hashed EXCEPT ![p] = Append(@, Chunk(p))]
      BY <1>11, <2>2 DEF BodyChunk
    <3>2. \A q \in Procs : q # p => pc[q] \notin Locked
      BY <3>1
    <3> QED
      BY <3>1, <3>2
  <2> QED
    BY <2>1, <2>2
<1>12. CASE WriteFails(p)
  BY <1>12 DEF WriteFails, Return, Goto, DropLocals
<1>13. CASE BodyDrops(p)
  BY <1>13, TransportErrorEffect DEF BodyDrops, Return, Goto, DropLocals
<1>14. CASE BodyEndsEarly(p)
  BY <1>14, TransportErrorEffect DEF BodyEndsEarly, Return, Goto, DropLocals
<1>15. CASE BodyEndsShort(p)
  BY <1>15 DEF BodyEndsShort, Return, Goto, DropLocals
<1>16. CASE BodyComplete(p)
  BY <1>16 DEF BodyComplete, Return, Goto, DropLocals, local
<1>17. CASE Publish(p)
  BY <1>17 DEF Publish, Return, Goto, DropLocals
<1>18. CASE ChecksumMismatch(p)
  BY <1>18 DEF ChecksumMismatch, Return, Goto, DropLocals
<1>19. CASE FinishFails(p)
  BY <1>19 DEF FinishFails, Return, Goto, DropLocals
<1>20. CASE CrashOrRerun(p)
  BY <1>20 DEF CrashOrRerun, Return, Goto, DropLocals
<1>21. CASE RemoteChanges
  BY <1>21 DEF RemoteChanges, local
<1>22. CASE UNCHANGED vars
  BY <1>22 DEF vars
<1> QED
  BY <1>1, <1>2, <1>3, <1>4, <1>5, <1>6, <1>7, <1>8, <1>9, <1>10, <1>11,
     <1>12, <1>13, <1>14, <1>15, <1>16, <1>17, <1>18, <1>19, <1>20, <1>21,
     <1>22 DEF Call, Attempt

\* A body that is being written starts at the offset that was asked for, or at 0
\* after a 200.
LEMMA SkewStep ==
  ASSUME TypeOK, SkewInv, [Next]_vars
  PROVE  SkewInv'
<1> SUFFICES ASSUME NEW p \in Procs,
                    \/ Begin(p) \/ Call(p) \/ CrashOrRerun(p)
                    \/ RemoteChanges \/ UNCHANGED vars
             PROVE  SkewInv'
  BY DownloadAssumption DEF Next
<1>t. pc \in [Procs -> States] /\ serving \in [Procs -> Bodies]
  BY DEF TypeOK
<1> USE <1>t DEF SkewInv
<1>1. CASE Begin(p)
  BY <1>1 DEF Begin, Return, Goto, DropLocals, local, Body
<1>2. CASE LockAcquired(p)
  BY <1>2 DEF LockAcquired, Return, Goto, DropLocals, local, Body
<1>3. CASE LockTimeout(p)
  BY <1>3 DEF LockTimeout, Return, Goto, DropLocals, local, Body
<1>4. CASE AlreadyThere(p)
  BY <1>4 DEF AlreadyThere, Return, Goto, DropLocals, local, Body
<1>5. CASE Resume(p)
  BY <1>5 DEF Resume, Return, Goto, DropLocals, local, Body
<1>6. CASE SendFails(p)
  <2>1. \/ Return(p, pc[p], "stalled")
        \/ pc' = [pc EXCEPT ![p] = "request"] /\ serving' = serving
    BY <1>6 DEF SendFails, TransportError, Goto, Return
  <2> QED
    BY <2>1 DEF Return, Goto, DropLocals
<1>7. CASE AnswerRefused(p)
  BY <1>7 DEF AnswerRefused, Return, Goto, DropLocals, local, Body
<1>8. CASE AnswerComplete(p)
  BY <1>8 DEF AnswerComplete, Return, Goto, DropLocals, local, Body
<1>9. CASE AnswerPartial(p)
  <2>1. CASE Return(p, "request", "failed")
    BY <2>1 DEF Return, Goto, DropLocals
  <2>2. CASE ~Return(p, "request", "failed")
    <3>1. PICK first \in 0 .. Size[remote] - 1 :
            /\ first = downloaded(p)
            /\ Goto(p, "request", "body")
            /\ serving' = [serving EXCEPT ![p] = Body(remote, first - downloaded(p))]
      BY <1>9, <2>2, PartialEffect DEF AcceptsRange
    <3>2. downloaded(p) - downloaded(p) = 0
      BY DEF TypeOK, downloaded
    <3>3. serving'[p].skew = 0
      BY <3>1, <3>2 DEF Body
    <3> QED
      BY <3>1, <3>3 DEF Goto
  <2> QED
    BY <2>1, <2>2
<1>10. CASE AnswerWhole(p)
  BY <1>10 DEF AnswerWhole, Return, Goto, DropLocals, local, Body
<1>11. CASE BodyChunk(p)
  BY <1>11 DEF BodyChunk, Return, Goto, DropLocals, local, Body
<1>12. CASE WriteFails(p)
  BY <1>12 DEF WriteFails, Return, Goto, DropLocals, local, Body
<1>13. CASE BodyDrops(p)
  <2>1. \/ Return(p, pc[p], "stalled")
        \/ pc' = [pc EXCEPT ![p] = "request"] /\ serving' = serving
    BY <1>13 DEF BodyDrops, TransportError, Goto, Return
  <2> QED
    BY <2>1 DEF Return, Goto, DropLocals
<1>14. CASE BodyEndsEarly(p)
  <2>1. \/ Return(p, pc[p], "stalled")
        \/ pc' = [pc EXCEPT ![p] = "request"] /\ serving' = serving
    BY <1>14 DEF BodyEndsEarly, TransportError, Goto, Return
  <2> QED
    BY <2>1 DEF Return, Goto, DropLocals
<1>15. CASE BodyEndsShort(p)
  BY <1>15 DEF BodyEndsShort, Return, Goto, DropLocals, local, Body
<1>16. CASE BodyComplete(p)
  BY <1>16 DEF BodyComplete, Return, Goto, DropLocals, local, Body
<1>17. CASE Publish(p)
  BY <1>17 DEF Publish, Return, Goto, DropLocals, local, Body
<1>18. CASE ChecksumMismatch(p)
  BY <1>18 DEF ChecksumMismatch, Return, Goto, DropLocals, local, Body
<1>19. CASE FinishFails(p)
  BY <1>19 DEF FinishFails, Return, Goto, DropLocals, local, Body
<1>20. CASE CrashOrRerun(p)
  BY <1>20 DEF CrashOrRerun, Return, Goto, DropLocals, local, Body
<1>21. CASE RemoteChanges
  BY <1>21 DEF RemoteChanges, Return, Goto, DropLocals, local, Body
<1>22. CASE UNCHANGED vars
  BY <1>22 DEF vars
<1> QED
  BY <1>1, <1>2, <1>3, <1>4, <1>5, <1>6, <1>7, <1>8, <1>9, <1>10, <1>11, 
     <1>12, <1>13, <1>14, <1>15, <1>16, <1>17, <1>18, <1>19, <1>20, <1>21, <1>22 DEF Call, Attempt

\* Appending the chunk that belongs at the next offset keeps a file aligned.
LEMMA AlignedAppend ==
  ASSUME NEW s \in Seq(Chunks), NEW c, c[2] = Len(s) + 1,
         \A i \in DOMAIN s : s[i][2] = i
  PROVE  \A i \in DOMAIN Append(s, c) : Append(s, c)[i][2] = i
<1> SUFFICES ASSUME NEW i \in DOMAIN Append(s, c)
             PROVE  Append(s, c)[i][2] = i
  OBVIOUS
<1>1. i \in 1 .. Len(s) + 1
  OBVIOUS
<1>2. CASE i = Len(s) + 1
  BY <1>2
<1>3. CASE i \in 1 .. Len(s)
  <2>1. Append(s, c)[i] = s[i]
    BY <1>3
  <2> QED
    BY <1>3, <2>1
<1> QED
  BY <1>1, <1>2, <1>3

\* Every step that writes the part file empties it or appends the next chunk.
LEMMA AlignStep ==
  ASSUME TypeOK, HashInv, SkewInv, PartIsAligned, [Next]_vars
  PROVE  PartIsAligned'
<1> SUFFICES ASSUME NEW p \in Procs,
                    \/ Begin(p) \/ Call(p) \/ CrashOrRerun(p)
                    \/ RemoteChanges \/ UNCHANGED vars
             PROVE  PartIsAligned'
  BY DownloadAssumption DEF Next
<1>t. part \in Seq(Chunks)
  BY DEF TypeOK
<1>c. pc[p] = "body" => Chunk(p)[2] = Len(part) + 1
  BY <1>t DEF HashInv, SkewInv, Chunk, downloaded
<1>a. ASSUME pc[p] = "body", part' = Append(part, Chunk(p))
      PROVE  PartIsAligned'
  <2>1. \A i \in DOMAIN Append(part, Chunk(p)) : Append(part, Chunk(p))[i][2] = i
    BY <1>t, <1>c, <1>a, AlignedAppend DEF PartIsAligned
  <2> QED
    BY <1>a, <2>1 DEF PartIsAligned
<1>e. ASSUME part' = <<>>
      PROVE  PartIsAligned'
  BY <1>e DEF PartIsAligned
<1>u. ASSUME part' = part
      PROVE  PartIsAligned'
  BY <1>u DEF PartIsAligned
<1>1. CASE Begin(p)
  BY <1>1, <1>u DEF Begin
<1>2. CASE LockAcquired(p)
  BY <1>2, <1>u DEF LockAcquired
<1>3. CASE LockTimeout(p)
  BY <1>3, <1>u DEF LockTimeout
<1>4. CASE AlreadyThere(p)
  BY <1>4, <1>u DEF AlreadyThere
<1>5. CASE Resume(p)
  BY <1>5, <1>u DEF Resume
<1>6. CASE SendFails(p)
  BY <1>6, <1>u DEF SendFails, TransportError
<1>7. CASE AnswerRefused(p)
  BY <1>7, <1>u DEF AnswerRefused
<1>8. CASE AnswerComplete(p)
  BY <1>8, <1>u DEF AnswerComplete
<1>9. CASE AnswerPartial(p)
  BY <1>9, <1>u DEF AnswerPartial
<1>10. CASE AnswerWhole(p)
  BY <1>10, <1>e DEF AnswerWhole
<1>11. CASE BodyChunk(p)
  BY <1>11, <1>a, <1>u DEF BodyChunk
<1>12. CASE WriteFails(p)
  BY <1>12, <1>a, <1>u DEF WriteFails, Return, Goto
<1>13. CASE BodyDrops(p)
  BY <1>13, <1>u DEF BodyDrops, TransportError
<1>14. CASE BodyEndsEarly(p)
  BY <1>14, <1>u DEF BodyEndsEarly, TransportError
<1>15. CASE BodyEndsShort(p)
  BY <1>15, <1>u DEF BodyEndsShort
<1>16. CASE BodyComplete(p)
  BY <1>16, <1>u DEF BodyComplete
<1>17. CASE Publish(p)
  BY <1>17, <1>e DEF Publish
<1>18. CASE ChecksumMismatch(p)
  BY <1>18, <1>e DEF ChecksumMismatch
<1>19. CASE FinishFails(p)
  BY <1>19, <1>u DEF FinishFails
<1>20. CASE CrashOrRerun(p)
  BY <1>20, <1>u DEF CrashOrRerun
<1>21. CASE RemoteChanges
  BY <1>21, <1>u DEF RemoteChanges
<1>22. CASE UNCHANGED vars
  BY <1>22, <1>u DEF vars
<1> QED
  BY <1>1, <1>2, <1>3, <1>4, <1>5, <1>6, <1>7, <1>8, <1>9, <1>10, <1>11, 
     <1>12, <1>13, <1>14, <1>15, <1>16, <1>17, <1>18, <1>19, <1>20, <1>21, <1>22 DEF Call, Attempt

\* Publication happens once, and what is published was verified.
LEMMA PublishStep ==
  ASSUME IInv, [Next]_vars
  PROVE  (FetchedOnce /\ PublishedIsPinned)'
<1> SUFFICES ASSUME NEW p \in Procs,
                    \/ Begin(p) \/ Call(p) \/ CrashOrRerun(p)
                    \/ RemoteChanges \/ UNCHANGED vars
             PROVE  (FetchedOnce /\ PublishedIsPinned)'
  BY DownloadAssumption DEF Next
<1>t. /\ pc \in [Procs -> States]
      /\ LockInv /\ HashInv /\ FetchedOnce /\ PublishedIsPinned
  BY DEF IInv, TypeOK
<1> USE <1>t DEF FetchedOnce, PublishedIsPinned
<1>1. CASE Begin(p)
  BY <1>1 DEF Begin, Return, Goto
<1>2. CASE LockAcquired(p)
  BY <1>2 DEF LockAcquired, Return, Goto
<1>3. CASE LockTimeout(p)
  BY <1>3 DEF LockTimeout, Return, Goto
<1>4. CASE AlreadyThere(p)
  BY <1>4 DEF AlreadyThere, Return, Goto
<1>5. CASE Resume(p)
  BY <1>5 DEF Resume, Return, Goto
<1>6. CASE SendFails(p)
  BY <1>6, TransportErrorEffect DEF SendFails, Return, Goto
<1>7. CASE AnswerRefused(p)
  BY <1>7 DEF AnswerRefused, Return, Goto
<1>8. CASE AnswerComplete(p)
  BY <1>8 DEF AnswerComplete, Return, Goto
<1>9. CASE AnswerPartial(p)
  BY <1>9, PartialEffect DEF AnswerPartial, Return, Goto
<1>10. CASE AnswerWhole(p)
  BY <1>10 DEF AnswerWhole, Return, Goto
<1>11. CASE BodyChunk(p)
  BY <1>11 DEF BodyChunk, Return, Goto
<1>12. CASE WriteFails(p)
  BY <1>12 DEF WriteFails, Return, Goto
<1>13. CASE BodyDrops(p)
  BY <1>13, TransportErrorEffect DEF BodyDrops, Return, Goto
<1>14. CASE BodyEndsEarly(p)
  BY <1>14, TransportErrorEffect DEF BodyEndsEarly, Return, Goto
<1>15. CASE BodyEndsShort(p)
  BY <1>15 DEF BodyEndsShort, Return, Goto
<1>16. CASE BodyComplete(p)
  BY <1>16 DEF BodyComplete, Return, Goto
<1>17. CASE Publish(p)
  BY <1>17 DEF Publish, Return, Goto, Verified, LockInv, HashInv, Locked
<1>18. CASE ChecksumMismatch(p)
  BY <1>18 DEF ChecksumMismatch, Return, Goto
<1>19. CASE FinishFails(p)
  BY <1>19 DEF FinishFails, Return, Goto
<1>20. CASE CrashOrRerun(p)
  BY <1>20 DEF CrashOrRerun
<1>21. CASE RemoteChanges
  BY <1>21 DEF RemoteChanges
<1>22. CASE UNCHANGED vars
  BY <1>22 DEF vars
<1> QED
  BY <1>1, <1>2, <1>3, <1>4, <1>5, <1>6, <1>7, <1>8, <1>9, <1>10, <1>11,
     <1>12, <1>13, <1>14, <1>15, <1>16, <1>17, <1>18, <1>19, <1>20, <1>21,
     <1>22 DEF Call, Attempt

\* Of all steps, only those that start over or that end the verification shorten
\* the part file.
LEMMA ShrinkStep ==
  ASSUME TypeOK, [Next]_vars, Len(part') < Len(part)
  PROVE  \E p \in Procs : \/ pc[p] = "finish"
                          \/ pc[p] = "request" /\ pc'[p] = "body" /\ part' = <<>>
<1> DEFINE Goal == \E p \in Procs : \/ pc[p] = "finish"
                                    \/ pc[p] = "request" /\ pc'[p] = "body" /\ part' = <<>>
<1> SUFFICES ASSUME NEW p \in Procs,
                    \/ Begin(p) \/ Call(p) \/ CrashOrRerun(p)
                    \/ RemoteChanges \/ UNCHANGED vars
             PROVE  Goal
  BY DownloadAssumption DEF Next
<1>t. part \in Seq(Chunks) /\ pc \in [Procs -> States]
  BY DEF TypeOK
<1>u. part' # part
  BY <1>t
<1>a. part' # Append(part, Chunk(p))
  BY <1>t
<1>1. CASE Begin(p)
  BY <1>1, <1>u DEF Begin
<1>2. CASE LockAcquired(p)
  BY <1>2, <1>u DEF LockAcquired
<1>3. CASE LockTimeout(p)
  BY <1>3, <1>u DEF LockTimeout
<1>4. CASE AlreadyThere(p)
  BY <1>4, <1>u DEF AlreadyThere
<1>5. CASE Resume(p)
  BY <1>5, <1>u DEF Resume
<1>6. CASE SendFails(p)
  BY <1>6, <1>u DEF SendFails, TransportError
<1>7. CASE AnswerRefused(p)
  BY <1>7, <1>u DEF AnswerRefused
<1>8. CASE AnswerComplete(p)
  BY <1>8, <1>u DEF AnswerComplete
<1>9. CASE AnswerPartial(p)
  BY <1>9, <1>u DEF AnswerPartial
<1>10. CASE AnswerWhole(p)
  BY <1>10, <1>t DEF AnswerWhole, Goto
<1>11. CASE BodyChunk(p)
  BY <1>11, <1>a, <1>u DEF BodyChunk
<1>12. CASE WriteFails(p)
  BY <1>12, <1>a, <1>u DEF WriteFails
<1>13. CASE BodyDrops(p)
  BY <1>13, <1>u DEF BodyDrops, TransportError
<1>14. CASE BodyEndsEarly(p)
  BY <1>14, <1>u DEF BodyEndsEarly, TransportError
<1>15. CASE BodyEndsShort(p)
  BY <1>15, <1>u DEF BodyEndsShort
<1>16. CASE BodyComplete(p)
  BY <1>16, <1>u DEF BodyComplete
<1>17. CASE Publish(p)
  BY <1>17 DEF Publish, Return, Goto
<1>18. CASE ChecksumMismatch(p)
  BY <1>18 DEF ChecksumMismatch, Return, Goto
<1>19. CASE FinishFails(p)
  BY <1>19, <1>u DEF FinishFails
<1>20. CASE CrashOrRerun(p)
  BY <1>20, <1>u DEF CrashOrRerun
<1>21. CASE RemoteChanges
  BY <1>21, <1>u DEF RemoteChanges
<1>22. CASE UNCHANGED vars
  BY <1>22, <1>u DEF vars
<1> QED
  BY <1>1, <1>2, <1>3, <1>4, <1>5, <1>6, <1>7, <1>8, <1>9, <1>10, <1>11, 
     <1>12, <1>13, <1>14, <1>15, <1>16, <1>17, <1>18, <1>19, <1>20, <1>21, <1>22 DEF Call, Attempt

\* The invariant is inductive.
THEOREM Inductive == Spec => []IInv
<1>1. Init => IInv
  <2> SUFFICES ASSUME Init
               PROVE  IInv
    OBVIOUS
  <2>1. TypeOK
    BY DownloadAssumption DEF Init, TypeOK, States, Body, Bodies
  <2>2. LockInv /\ HashInv /\ SkewInv /\ PartIsAligned /\ FetchedOnce /\ PublishedIsPinned
    BY DownloadAssumption
       DEF Init, LockInv, HashInv, SkewInv, PartIsAligned, FetchedOnce, PublishedIsPinned,
           Locked
  <2> QED
    BY <2>1, <2>2 DEF IInv
<1>2. IInv /\ [Next]_vars => IInv'
  BY TypeStep, LockStep, HashStep, SkewStep, AlignStep, PublishStep DEF IInv
<1> QED
  BY <1>1, <1>2, PTL DEF Spec

\* Whatever is interrupted, resumed or replaced at the URL: with a SHA-256 given,
\* ensure_local_file publishes the pinned content or nothing.
THEOREM DownloadsAreVerified == Spec => []PublishedIsPinned
<1>1. IInv => PublishedIsPinned
  BY DEF IInv
<1> QED
  BY <1>1, Inductive, PTL

\* Ranges that overlap, leave gaps or lie elsewhere never reach the part file: it is
\* aligned, digest or not.
THEOREM PartsAreAligned == Spec => []PartIsAligned
<1>1. IInv => PartIsAligned
  BY DEF IInv
<1> QED
  BY <1>1, Inductive, PTL

\* Concurrent downloaders fetch a file once.
THEOREM DownloadsHappenOnce == Spec => []FetchedOnce
<1>1. IInv => FetchedOnce
  BY DEF IInv
<1> QED
  BY <1>1, Inductive, PTL

\* Errors, drops and crashes keep what has been downloaded.
THEOREM ProgressIsKept == Spec => PartialPreserved
<1>1. IInv /\ [Next]_vars =>
        [Len(part') < Len(part) =>
           \E p \in Procs : \/ pc[p] = "finish"
                            \/ pc[p] = "request" /\ pc'[p] = "body" /\ part' = <<>>]_vars
  BY ShrinkStep DEF IInv
<1> QED
  BY <1>1, Inductive, PTL DEF Spec, PartialPreserved
=============================================================================
