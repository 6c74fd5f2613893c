------------------------------- MODULE Download -------------------------------
(* ensure_local_file_with_client in codex-rs/llamacpp/src/lib.rs, with the     *)
(* Content-Range rules of download_range.rs: several Millie processes fetch    *)
(* one model file into `<path>.part`, resume it with HTTP Range requests over  *)
(* an unreliable link, verify its SHA-256 and rename it into place.            *)
(*                                                                             *)
(* File contents are sequences of chunks <<version, position>>; a digest is    *)
(* the sequence that was hashed, so that two digests are equal exactly when    *)
(* the contents are.                                                           *)
EXTENDS Integers, Sequences

CONSTANTS
    Procs,      \* Millie processes that need the file
    Versions,   \* contents the URL may be serving
    Size,       \* number of chunks of each version
    Pinned,     \* the version whose SHA-256 the caller gives
    Checked,    \* TRUE: a SHA-256 is given
    StallLimit  \* attempts without progress before giving up; 5 in the code

Nobody == "nobody"

ASSUME DownloadAssumption ==
    /\ Procs # {} /\ Nobody \notin Procs
    /\ Size \in [Versions -> Nat \ {0}]
    /\ Pinned \in Versions
    /\ Checked \in BOOLEAN
    /\ StallLimit \in Nat \ {0}

VARIABLES
    file,       \* what `path` holds, once it exists
    part,       \* the contents of `<path>.part`, empty when it is absent
    lock,       \* holder of `<path>.download.lock`
    remote,     \* the version the URL serves now
    pc,         \* progress of each process
    hashed,     \* `hasher` of each process
    total,      \* `total`, 0 for None
    end,        \* `response_end`, 0 for None
    frame,      \* offset at which the body's Content-Length ends, 0 without one
    start,      \* `attempt_start`
    stalls,     \* `stalls`
    serving,    \* the version the current response body is taken from, and how far
                \* its first byte is from the offset that was asked for
    barren      \* attempts without progress since the last one that had some

vars == <<file, part, lock, remote, pc, hashed, total, end, frame, start, stalls,
          serving, barren>>
local == <<hashed, total, end, frame, start, stalls, serving, barren>>

-----------------------------------------------------------------------------
Chunks == Versions \X Int
Content(v) == [i \in 1..Size[v] |-> <<v, i>>]

\* What a response body is taken from.
Bodies == [version : Versions, skew : Int]
Body(v, skew) == [version |-> v, skew |-> skew]

\* `downloaded` and `hasher` advance together at every write.
downloaded(p) == Len(hashed[p])

\* States in which a process holds the download lock.
Locked == {"locked", "request", "body", "finish"}
States == Locked \cup {"idle", "locking", "done", "failed", "stalled"}

\* The files, the lock and the locals of each call.
TypeOK ==
    /\ file \in [exists : BOOLEAN, data : Seq(Chunks)]
    /\ part \in Seq(Chunks)
    /\ lock \in Procs \cup {Nobody}
    /\ remote \in Versions
    /\ pc \in [Procs -> States]
    /\ hashed \in [Procs -> Seq(Chunks)]
    /\ total \in [Procs -> Nat] /\ end \in [Procs -> Nat]
    /\ frame \in [Procs -> Nat] /\ start \in [Procs -> Nat]
    /\ stalls \in [Procs -> 0..StallLimit]
    /\ serving \in [Procs -> Bodies]
    /\ barren \in [Procs -> 0..StallLimit]

Init ==
    /\ file = [exists |-> FALSE, data |-> <<>>]
    /\ part = <<>>
    /\ lock = Nobody
    /\ remote \in Versions
    /\ pc = [p \in Procs |-> "idle"]
    /\ hashed = [p \in Procs |-> <<>>]
    /\ total = [p \in Procs |-> 0]
    /\ end = [p \in Procs |-> 0]
    /\ frame = [p \in Procs |-> 0]
    /\ start = [p \in Procs |-> 0]
    /\ stalls = [p \in Procs |-> 0]
    /\ serving = [p \in Procs |-> Body(Pinned, 0)]
    /\ barren = [p \in Procs |-> 0]

Goto(p, from, to) == pc[p] = from /\ pc' = [pc EXCEPT ![p] = to]

\* The locals of one call end with it.
DropLocals(p) ==
    /\ hashed' = [hashed EXCEPT ![p] = <<>>]
    /\ total' = [total EXCEPT ![p] = 0]
    /\ end' = [end EXCEPT ![p] = 0]
    /\ frame' = [frame EXCEPT ![p] = 0]
    /\ start' = [start EXCEPT ![p] = 0]
    /\ stalls' = [stalls EXCEPT ![p] = 0]
    /\ serving' = [serving EXCEPT ![p] = Body(Pinned, 0)]

\* Returning drops _download_lock.
Return(p, from, to) ==
    /\ Goto(p, from, to)
    /\ lock' = Nobody
    /\ DropLocals(p)

-----------------------------------------------------------------------------
(* Before the transfer.                                                        *)

Begin(p) ==
    /\ Goto(p, "idle", IF file.exists THEN "done" ELSE "locking")
    /\ UNCHANGED <<file, part, lock, remote, local>>

LockAcquired(p) ==
    /\ Goto(p, "locking", "locked")
    /\ lock = Nobody
    /\ lock' = p
    /\ UNCHANGED <<file, part, remote, local>>

LockTimeout(p) ==
    /\ Goto(p, "locking", "failed")
    /\ lock # Nobody
    /\ UNCHANGED <<file, part, lock, remote, local>>

\* Another process published the file while this one waited for the lock.
AlreadyThere(p) ==
    /\ file.exists
    /\ Return(p, "locked", "done")
    /\ UNCHANGED <<file, part, remote, barren>>

\* Mutants: resume without looking at `path` again; resume behind the part file
\* without hashing it.
ResumeBlind(p) ==
    /\ Goto(p, "locked", "request")
    /\ hashed' = [hashed EXCEPT ![p] = part]
    /\ barren' = [barren EXCEPT ![p] = 0]
    /\ UNCHANGED <<file, part, lock, remote, total, end, frame, start, stalls, serving>>

\* Hash what an earlier run left in the part file and resume behind it.
Resume(p) ==
    /\ ~file.exists
    /\ Goto(p, "locked", "request")
    /\ hashed' = [hashed EXCEPT ![p] = part]
    /\ barren' = [barren EXCEPT ![p] = 0]
    /\ UNCHANGED <<file, part, lock, remote, total, end, frame, start, stalls, serving>>

-----------------------------------------------------------------------------
(* One attempt.  `from` is the state it is in when the transport fails, and    *)
(* `begun` the offset it started from.                                         *)

\* History, capped at StallLimit: attempts in a row that fetched nothing new.
CountAttempt(p, begun) ==
    barren' = [barren EXCEPT ![p] = IF downloaded(p) > begun THEN 0
                                    ELSE IF @ < StallLimit THEN @ + 1 ELSE @]

\* Mutant: retry for ever.
TransportRetry(p, from, begun) ==
    /\ CountAttempt(p, begun)
    /\ Goto(p, from, "request")
    /\ UNCHANGED <<file, part, remote, lock, hashed, total, end, frame, start, stalls, serving>>

TransportError(p, from, begun) ==
    LET count == IF downloaded(p) > begun THEN 0 ELSE stalls[p] + 1
    IN
    /\ CountAttempt(p, begun)
    /\ IF count >= StallLimit
       THEN Return(p, from, "stalled")
       ELSE /\ Goto(p, from, "request")
            /\ stalls' = [stalls EXCEPT ![p] = count]
            /\ UNCHANGED <<lock, hashed, total, end, frame, start, serving>>
    /\ UNCHANGED <<file, part, remote>>

\* The request gets no response.
SendFails(p) == TransportError(p, "request", downloaded(p))

\* Mutant: an HTTP error discards the part file.
AnswerRefusedCleanly(p) ==
    /\ Return(p, "request", "failed")
    /\ part' = <<>>
    /\ UNCHANGED <<file, remote, barren>>

\* A status other than 200, 206 and 416, a Content-Range that does not parse, or a
\* 416 for another size than the one at hand.
AnswerRefused(p) ==
    /\ Return(p, "request", "failed")
    /\ UNCHANGED <<file, part, remote, barren>>

\* 416: the part file already has every byte.
AnswerComplete(p) ==
    /\ Goto(p, "request", "finish")
    /\ downloaded(p) > 0 /\ downloaded(p) = Size[remote]
    /\ start' = [start EXCEPT ![p] = downloaded(p)]
    /\ UNCHANGED <<file, part, lock, remote, hashed, total, end, frame, stalls, serving, barren>>

\* Mutant: any range inside the file will do.
AcceptsAnyRange(first, next, size, offset) == first < next /\ next <= size

\* resumed_total, for a 206 with bytes first to next - 1 of size.
AcceptsRange(first, next, size, offset) ==
    first = offset /\ first < next /\ next <= size

\* 206 for some range of the version served now, asked for or not.
AnswerPartial(p) ==
    /\ \E first \in 0 .. Size[remote] - 1 : \E next \in first + 1 .. Size[remote] :
         IF \/ ~AcceptsRange(first, next, Size[remote], downloaded(p))
            \/ total[p] \notin {0, Size[remote]}
         THEN Return(p, "request", "failed")
         ELSE LET skew == first - downloaded(p) IN
              /\ Goto(p, "request", "body")
              /\ start' = [start EXCEPT ![p] = downloaded(p)]
              /\ total' = [total EXCEPT ![p] = Size[remote]]
              /\ end' = [end EXCEPT ![p] = next]
              /\ \E x \in {0, next - skew} : frame' = [frame EXCEPT ![p] = x]
              /\ serving' = [serving EXCEPT ![p] = Body(remote, skew)]
              /\ UNCHANGED <<lock, hashed, stalls>>
    /\ UNCHANGED <<file, part, remote, barren>>

\* 200 with or without a Content-Length; a resumed transfer starts over.
AnswerWhole(p) ==
    /\ Goto(p, "request", "body")
    /\ start' = [start EXCEPT ![p] = downloaded(p)]
    /\ part' = <<>>
    /\ hashed' = [hashed EXCEPT ![p] = <<>>]
    /\ \E length \in {0, Size[remote]} :
         LET known == IF downloaded(p) > 0 THEN 0 ELSE total[p]
             sum == IF known = 0 THEN length ELSE known
         IN /\ total' = [total EXCEPT ![p] = sum]
            /\ end' = [end EXCEPT ![p] = sum]
            /\ frame' = [frame EXCEPT ![p] = length]
    /\ serving' = [serving EXCEPT ![p] = Body(remote, 0)]
    /\ UNCHANGED <<file, lock, remote, stalls, barren>>

\* A body with a Content-Length brings exactly that much or breaks off; one
\* without may end anywhere.
MoreBody(p) ==
    downloaded(p) < IF frame[p] = 0 THEN Size[serving[p].version] - serving[p].skew
                    ELSE frame[p]
CleanEnd(p) == frame[p] \in {0, downloaded(p)}

\* The next chunk of the body.
Chunk(p) == <<serving[p].version, serving[p].skew + downloaded(p) + 1>>

\* A chunk beyond the advertised range is an error, any other is written.
BodyChunk(p) ==
    /\ MoreBody(p)
    /\ IF end[p] # 0 /\ downloaded(p) + 1 > end[p]
       THEN Return(p, "body", "failed") /\ UNCHANGED part
       ELSE /\ pc[p] = "body"
            /\ part' = Append(part, Chunk(p))
            /\ hashed' = [hashed EXCEPT ![p] = Append(@, Chunk(p))]
            /\ UNCHANGED <<pc, lock, total, end, frame, start, stalls, serving>>
    /\ UNCHANGED <<file, remote, barren>>

\* write_all fails, before or after the chunk reached the part file.
WriteFails(p) ==
    /\ MoreBody(p)
    /\ Return(p, "body", "failed")
    /\ part' \in {part, Append(part, Chunk(p))}
    /\ UNCHANGED <<file, remote, barren>>

BodyDrops(p) == TransportError(p, "body", start[p])

\* The body ends without anything new.
BodyEndsEarly(p) ==
    /\ CleanEnd(p) /\ total[p] # 0 /\ downloaded(p) < total[p]
    /\ downloaded(p) = start[p]
    /\ TransportError(p, "body", start[p])

\* Part of the file arrived: ask for the rest at once.  `stalls` stays.
BodyEndsShort(p) ==
    /\ CleanEnd(p) /\ total[p] # 0 /\ downloaded(p) < total[p]
    /\ downloaded(p) # start[p]
    /\ Goto(p, "body", "request")
    /\ CountAttempt(p, start[p])
    /\ UNCHANGED <<file, part, lock, remote, hashed, total, end, frame, start, stalls, serving>>

\* BodyChunk has excluded downloaded > total.
BodyComplete(p) ==
    /\ CleanEnd(p) /\ total[p] \in {0, downloaded(p)}
    /\ Goto(p, "body", "finish")
    /\ UNCHANGED <<file, part, lock, remote, local>>

-----------------------------------------------------------------------------
(* Verification and publication.                                               *)

\* Mutant: the size stands for the digest.
VerifiedBySize(p) == Checked => downloaded(p) = Size[Pinned]

Verified(p) == Checked => hashed[p] = Content(Pinned)

Publish(p) ==
    /\ Verified(p)
    /\ Return(p, "finish", "done")
    /\ file' = [exists |-> TRUE, data |-> part]
    /\ part' = <<>>
    /\ UNCHANGED <<remote, barren>>

ChecksumMismatch(p) ==
    /\ ~Verified(p)
    /\ Return(p, "finish", "failed")
    /\ part' = <<>>
    /\ UNCHANGED <<file, remote, barren>>

\* sync_all or rename fails; the part file stays.
FinishFails(p) ==
    /\ Return(p, "finish", "failed")
    /\ UNCHANGED <<file, part, remote, barren>>

\* The process dies, or has failed; the user runs Millie again.  The OS drops
\* the lock, the part file stays as it is.
CrashOrRerun(p) ==
    /\ pc[p] \notin {"idle", "done"}
    /\ pc' = [pc EXCEPT ![p] = "idle"]
    /\ lock' = IF lock = p THEN Nobody ELSE lock
    /\ DropLocals(p)
    /\ UNCHANGED <<file, part, remote, barren>>

\* The publisher replaces the file at the URL.
RemoteChanges ==
    /\ remote' \in Versions \ {remote}
    /\ UNCHANGED <<file, part, lock, pc, local>>

-----------------------------------------------------------------------------
Attempt(p) ==
    \/ SendFails(p) \/ AnswerRefused(p) \/ AnswerComplete(p)
    \/ AnswerPartial(p) \/ AnswerWhole(p)
    \/ BodyChunk(p) \/ WriteFails(p) \/ BodyDrops(p) \/ BodyEndsEarly(p)
    \/ BodyEndsShort(p) \/ BodyComplete(p)

Call(p) ==
    \/ LockAcquired(p) \/ LockTimeout(p) \/ AlreadyThere(p) \/ Resume(p)
    \/ Attempt(p) \/ Publish(p) \/ ChecksumMismatch(p) \/ FinishFails(p)

Next ==
    \/ \E p \in Procs : Begin(p) \/ Call(p) \/ CrashOrRerun(p)
    \/ RemoteChanges

Spec == Init /\ [][Next]_vars

\* A running call goes on: reads have an inactivity timeout, so every attempt
\* ends in an answer, a chunk or a transport error.
FairSpec == Spec /\ \A p \in Procs : WF_vars(Call(p))

-----------------------------------------------------------------------------
(* Properties.                                                                 *)

\* A file whose SHA-256 is known is published only with exactly that content,
\* whatever was resumed, restarted, cut off or replaced on the way.
PublishedIsPinned ==
    Checked /\ file.exists => file.data = Content(Pinned)

\* Also without a digest: every byte of the part file is at its own offset of some
\* version, however often the transfer was resumed and whatever ranges the server
\* answered with; nothing is skipped or written twice.
PartIsAligned == \A i \in DOMAIN part : part[i][2] = i

\* The lock and the second look at `path` make concurrent downloaders fetch the
\* file once: nobody transfers or verifies after it was published.
FetchedOnce ==
    \A p \in Procs : file.exists => pc[p] \notin {"request", "body", "finish"}

\* Interrupted transfers keep their progress: the part file shrinks only when
\* the server starts over with a 200, or when the whole of it was verified.
PartialPreserved ==
    [][Len(part') < Len(part) =>
          \E p \in Procs : \/ pc[p] = "finish"
                           \/ pc[p] = "request" /\ pc'[p] = "body" /\ part' = <<>>]_vars

\* A call that is not cut short by a crash ends, unless the server ignores Range
\* headers for ever: progress is finite and so is the tolerance for stalls, but
\* every 200 to a resumed request starts the file over.
StartsOver == \E p \in Procs : AnswerWhole(p) /\ downloaded(p) > 0
CallEnds ==
    <>[][~StartsOver]_vars =>
        \A p \in Procs : pc[p] \in Locked ~> pc[p] \in {"done", "failed", "stalled", "idle"}

\* "give up only after several consecutive attempts that made no progress".
GivesUpOnlyWhenBarren ==
    \A p \in Procs : pc[p] = "stalled" => barren[p] = StallLimit

-----------------------------------------------------------------------------
(* The inductive invariant: the lock protects the part file, and what was      *)
(* hashed is what it contains.                                                 *)

LockInv == \A p \in Procs : pc[p] \in Locked <=> lock = p

HashInv == \A p \in Procs : pc[p] \in {"request", "body", "finish"} => hashed[p] = part

SkewInv == \A p \in Procs : pc[p] = "body" => serving[p].skew = 0

IInv == /\ TypeOK /\ LockInv /\ HashInv /\ SkewInv
        /\ PartIsAligned /\ FetchedOnce /\ PublishedIsPinned
=============================================================================
