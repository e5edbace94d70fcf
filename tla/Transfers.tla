------------------------------ MODULE Transfers ------------------------------
(***************************************************************************)
(* The package's way from the server's disk to a controller's:             *)
(* Core::distribute serves the files over HTTP until each was fetched      *)
(* once, Core::download (of ClientEngine::download, which retries it)      *)
(* fetches them with one thread per file, resumes a file that was left     *)
(* half at the count its ".cache" file holds, and both rest on httplib.    *)
(*                                                                         *)
(* A file is Size blocks, sent in order; block b stands for its contents.  *)
(* What a file on disk holds is the sequence of the blocks appended to it. *)
(*                                                                         *)
(* Faults: the client's process dies or its download is broken off (Cuts), *)
(* a connection is lost or times out although the server is well (Drops).  *)
(*                                                                         *)
(* Left out: the contents of the configuration and of the URLs (105-107),  *)
(* files that cannot be opened (108-112), the transfers' statistics, the   *)
(* certificates, and a download that stop() has let go and that goes on    *)
(* beside the next one.                                                    *)
(***************************************************************************)
EXTENDS Integers, Sequences, FiniteSetsExt

CONSTANTS
    Files,       \* the files of the package, all of one controller
    Size,        \* blocks of a file
    RetryTimes,  \* DCUS_RETRY_TIMES
    Rounds,      \* bound: how often a download is asked for
    Shows,       \* bound: how often the files are distributed
    Cuts,        \* bound: downloads broken off or crashed
    Drops        \* bound: connections lost

ASSUME TransfersAssumption ==
    /\ Size \in Nat \ {0}
    /\ RetryTimes \in Nat \ {0}

None == -1      \* no file of that name on disk
NoConn == [at |-> "none"]

VARIABLES
    rounds, cuts, drops, shows,     \* how much of the bounds is used up
    disk,       \* the file on the client's disk: the blocks in it, or <<None>>
    cache,      \* the count in its ".cache" file (an empty one counts 0), or None
    torn,       \* files resumed at a count that was behind what the file held
    unheard,    \* files settled without the server's knowledge: their request
                \* failed and was forgiven, or the server began anew
    phase,      \* what the worker thread does: "idle" or "loading"
    result,     \* Core::State of the last download, "none" while there is none
    times,      \* failed attempts of this download
    stop,       \* what the break function returns
    status,     \* StatusHelper::status.state of this attempt
    joined,     \* the attempt has got to threadPool.shutdown()
    left,       \* downloadUrls: files not yet settled
    job,        \* the thread of each file
    exists,     \* Helper::exists
    conn,       \* the connection of each file's thread
    urls,       \* distributeUrls: files not fetched yet
    up,         \* the server listens
    spinning    \* per file, threads of the server that never return

clientVars == <<phase, result, times, stop, status, joined, left, job, exists>>
diskVars == <<disk, cache, torn, unheard>>
serverVars == <<urls, up, spinning>>
boundVars == <<rounds, cuts, drops, shows>>
vars == <<boundVars, diskVars, clientVars, conn, serverVars>>

Absent == <<None>>
Whole == [b \in 1..Size |-> b]
Done == status = "FAILED" \/ stop          \* StatusHelper::checkDone
Canceled == IF status = "SUCCEED" /\ stop THEN "CANCELED" ELSE status

TransfersInit ==
    /\ rounds = 0 /\ cuts = 0 /\ drops = 0 /\ shows = 0
    /\ disk = [f \in Files |-> Absent]
    /\ cache = [f \in Files |-> None]
    /\ torn = {} /\ unheard = {}
    /\ phase = "idle" /\ result = "none" /\ times = 0 /\ stop = FALSE
    /\ status = "SUCCEED" /\ joined = FALSE /\ left = {}
    /\ job = [f \in Files |-> "over"]
    /\ exists = [f \in Files |-> FALSE]
    /\ conn = [f \in Files |-> NoConn]
    /\ urls = {} /\ up = FALSE
    /\ spinning = [f \in Files |-> 0]
-----------------------------------------------------------------------------
(* The client's worker thread *)

\* One attempt: Core::download up to the threads it starts.
Attempt ==
    /\ joined' = FALSE
    /\ left' = Files
    /\ job' = [f \in Files |-> "queued"]
    /\ status' = "SUCCEED"

Download ==
    /\ phase = "idle"
    /\ rounds < Rounds
    /\ rounds' = rounds + 1
    /\ phase' = "loading" /\ result' = "none" /\ times' = 0 /\ stop' = FALSE
    /\ Attempt
    /\ unheard' = {}
    /\ UNCHANGED <<cuts, drops, shows, disk, cache, torn, exists, conn, serverVars>>

\* The last file fetched stops the server, and with it the threads that spin.
Fetched(f) ==
    /\ urls' = urls \ {f}
    /\ up' = (urls' # {})
    /\ spinning' = IF up' THEN spinning ELSE [g \in Files |-> 0]

Spinning == MapThenSumSet(LAMBDA f : spinning[f], Files)
Working == {f \in Files : conn[f].at = "sending"}

\* The server's pool has as many threads as there are files.
FreeThread == up /\ Cardinality(Working) + Spinning < Cardinality(Files)

\* The client's end of f's connection goes away.  What the server has sent
\* may be less or, out of its socket's buffer, all of it.
Served(f) ==
    \/ UNCHANGED <<urls, up, spinning>>
    \/ /\ conn[f].at \in {"queued", "sending"}
       /\ up /\ f \in urls
       /\ IF conn[f].ranged /\ conn[f].from < Size
            THEN /\ spinning' = [spinning EXCEPT ![f] = @ + 1]
                 /\ UNCHANGED <<urls, up>>
            ELSE Fetched(f)

\* The server closes what it serves: its clients find the connection short.
Closed(c) ==
    IF c.at = "queued" THEN [c EXCEPT !.at = "refused"]
    ELSE IF c.at = "sending" THEN [c EXCEPT !.at = "closed"] ELSE c

\* f's connection is at an end; when it was for the last file, all are.
Answered(f) ==
    conn' = [g \in Files |-> IF g = f THEN [conn[g] EXCEPT !.at = "closed"]
                             ELSE IF up' THEN conn[g] ELSE Closed(conn[g])]

Hangup(keep) ==
    conn' = [g \in Files |->
               IF g \notin keep THEN NoConn
               ELSE IF up' THEN conn[g] ELSE Closed(conn[g])]

\* checkDone() before threadPool.shutdown(): the pool is destroyed with its
\* threads at work, which is std::terminate.
Terminate ==
    /\ phase = "loading" /\ ~joined
    /\ Done
    /\ phase' = "idle"
    /\ job' = [f \in Files |-> "over"]
    /\ conn' = [f \in Files |-> NoConn]
    /\ UNCHANGED <<boundVars, diskVars, result, times, stop, status, joined,
                   left, exists, serverVars>>

Join ==
    /\ phase = "loading" /\ ~joined
    /\ ~Done
    /\ joined' = TRUE
    /\ UNCHANGED <<boundVars, diskVars, phase, result, times, stop, status,
                   left, job, exists, conn, serverVars>>

\* The threads are joined: the attempt's status, and ClientEngine::download's
\* loop around it.  A further attempt finds the break function first.
Finish ==
    LET end == IF Done THEN Canceled
               ELSE IF left # {} THEN "FAILED" ELSE "SUCCEED"
        again == end = "FAILED" /\ times + 1 < RetryTimes
    IN /\ phase = "loading" /\ joined
       /\ \A f \in Files : job[f] = "over"
       /\ times' = IF end = "FAILED" THEN times + 1 ELSE times
       /\ IF again /\ ~stop
            THEN Attempt /\ UNCHANGED <<phase, result>>
            ELSE /\ phase' = "idle"
                 /\ result' = IF again THEN "CANCELED" ELSE end
                 /\ UNCHANGED <<joined, left, job, status>>
       /\ UNCHANGED <<boundVars, diskVars, stop, exists, conn, serverVars>>
-----------------------------------------------------------------------------
(* The thread of one file *)

Leaves(f) == job' = [job EXCEPT ![f] = "over"]

\* Error::Canceled: the receiver or the progress function returns false. The
\* ".cache" file stays.
BreakOff(f) ==
    /\ Leaves(f)
    /\ status' = Canceled
    /\ Served(f)
    /\ Hangup(Files \ {f})

Skip(f) ==
    /\ job[f] = "queued"
    /\ Done
    /\ Leaves(f)
    /\ status' = Canceled
    /\ UNCHANGED <<boundVars, diskVars, phase, result, times, stop, joined,
                   left, exists, conn, serverVars>>

Ask(f, from, ranged) ==
    conn' = [conn EXCEPT ![f] =
        [at |-> IF up THEN "queued" ELSE "refused", from |-> from,
         ranged |-> ranged, len |-> Size, sent |-> 0, got |-> 0]]

\* The ".cache" file is truncated and the file opened for append.
Resume(f) ==
    /\ cache[f] # None
    /\ Ask(f, cache[f], TRUE)
    /\ disk' = [disk EXCEPT ![f] = IF @ = Absent THEN <<>> ELSE @]
    /\ torn' = IF Len(disk'[f]) > cache[f] THEN torn \cup {f} ELSE torn
    /\ exists' = [exists EXCEPT ![f] = FALSE]
    /\ UNCHANGED left

\* A file of the right size is asked for all the same, from its end.
Existing(f) ==
    /\ cache[f] = None /\ disk[f] # Absent /\ Len(disk[f]) = Size
    /\ Ask(f, Size, TRUE)
    /\ left' = left \ {f}
    /\ exists' = [exists EXCEPT ![f] = TRUE]
    /\ UNCHANGED <<disk, torn>>

\* A slip: a file of the wrong size is not removed.
Afresh_keeps(f) ==
    /\ cache[f] = None /\ (disk[f] = Absent \/ Len(disk[f]) # Size)
    /\ Ask(f, 0, FALSE)
    /\ disk' = [disk EXCEPT ![f] = IF @ = Absent THEN <<>> ELSE @]
    /\ torn' = torn \ {f}
    /\ exists' = [exists EXCEPT ![f] = FALSE]
    /\ UNCHANGED left

Afresh(f) ==
    /\ cache[f] = None /\ (disk[f] = Absent \/ Len(disk[f]) # Size)
    /\ Ask(f, 0, FALSE)
    /\ disk' = [disk EXCEPT ![f] = <<>>]
    /\ torn' = torn \ {f}
    /\ exists' = [exists EXCEPT ![f] = FALSE]
    /\ UNCHANGED left

Open(f) ==
    /\ job[f] = "queued"
    /\ ~Done
    /\ Resume(f) \/ Existing(f) \/ Afresh(f)
    /\ cache' = [cache EXCEPT ![f] = 0]
    /\ job' = [job EXCEPT ![f] = "asking"]
    /\ UNCHANGED <<boundVars, unheard, phase, result, times, stop, status,
                   joined, serverVars>>

\* The receiver, and the progress function after it: the file is flushed, then
\* the count.
Unread(f) == job[f] = "asking" /\ conn[f].got < conn[f].sent

\* A slip: the count reaches the disk before the block it counts.
Flush_countFirst(f, nth) ==
    LET block == conn[f].from + conn[f].got + 1
    IN IF nth = 2
         THEN disk' = [disk EXCEPT ![f] = Append(@, block)] /\ UNCHANGED cache
         ELSE cache' = [cache EXCEPT ![f] = block] /\ UNCHANGED disk

Flush(f, nth) ==
    LET block == conn[f].from + conn[f].got + 1
    IN IF nth = 1
         THEN disk' = [disk EXCEPT ![f] = Append(@, block)] /\ UNCHANGED cache
         ELSE cache' = [cache EXCEPT ![f] = block] /\ UNCHANGED disk

Receive(f) ==
    /\ Unread(f) /\ ~Done
    /\ Flush(f, 1)
    /\ job' = [job EXCEPT ![f] = "counting"]
    /\ UNCHANGED <<boundVars, torn, unheard, phase, result, times, stop, status,
                   joined, left, exists, conn, serverVars>>

Refuse(f) ==
    /\ Unread(f) /\ Done
    /\ BreakOff(f)
    /\ UNCHANGED <<boundVars, diskVars, phase, result, times, stop, joined, left,
                   exists>>

Count(f) ==
    /\ job[f] = "counting"
    /\ Flush(f, 2)
    /\ IF Done
         THEN BreakOff(f)
         ELSE /\ job' = [job EXCEPT ![f] = "asking"]
              /\ conn' = [conn EXCEPT ![f].got = @ + 1]
              /\ UNCHANGED <<status, serverVars>>
    /\ UNCHANGED <<boundVars, torn, unheard, phase, result, times, stop, joined,
                   left, exists>>

\* The reply is complete (its server thread has gone on).  An empty one (the
\* file was fetched before) has finished only what was there already.
Complete(f) ==
    LET finished == exists[f] \/ conn[f].len > 0
    IN /\ job[f] = "asking"
       /\ conn[f].at \in {"closed", "idle"} /\ conn[f].got = conn[f].len
       /\ cache' = [cache EXCEPT ![f] = None]
       /\ left' = IF finished THEN left \ {f} ELSE left
       /\ status' = IF finished THEN status
                    ELSE IF Done THEN Canceled ELSE "FAILED"
       /\ Leaves(f)
       /\ UNCHANGED <<boundVars, disk, torn, unheard, phase, result, times, stop,
                      joined, exists, serverVars>>
       /\ Hangup(Files \ {f})

\* Any other error of httplib.
Forgets(f) ==
    IF status = "CANCELED" THEN UNCHANGED cache
    ELSE cache' = [cache EXCEPT ![f] = None]

Fault(f) ==
    /\ Forgets(f)
    /\ status' = IF status = "CANCELED" \/ exists[f] THEN status ELSE "FAILED"
    /\ unheard' = IF exists[f] /\ conn[f].at \in {"queued", "refused"}
                    THEN unheard \cup {f} ELSE unheard
    /\ Leaves(f)
    /\ Hangup(Files \ {f})
    /\ UNCHANGED <<rounds, cuts, shows, disk, torn, phase, result, times, stop,
                   joined, left, exists>>

\* Nothing more will come: the connection was refused, or is closed or idle
\* before the length announced was reached; or no thread of the server is free.
Starved == Spinning >= Cardinality(Files)
\* A slip: no limit to the time a reply may take.
Short_unlimited(f) ==
    conn[f].at \in {"refused", "closed"} /\ conn[f].sent < conn[f].len

Short(f) ==
    \/ conn[f].at \in {"refused", "closed", "idle"} /\ conn[f].sent < conn[f].len
    \/ conn[f].at = "queued" /\ Starved

Error(f) ==
    /\ job[f] = "asking"
    /\ Short(f) /\ ~Unread(f)
    /\ UNCHANGED <<drops, serverVars>>
    /\ Fault(f)
-----------------------------------------------------------------------------
(* Core::distribute and httplib's server *)

\* The engine has the files served (again): stopThread(), then a new server.
Distribute ==
    /\ shows < Shows
    /\ shows' = shows + 1
    /\ urls' = Files /\ up' = TRUE
    /\ spinning' = [f \in Files |-> 0]
    /\ conn' = [f \in Files |-> Closed(conn[f])]
    /\ unheard' = unheard \cup (Files \ left) \cup {f \in Files : conn[f] # NoConn}
    /\ UNCHANGED <<rounds, cuts, drops, disk, cache, torn, clientVars>>

\* The handler of a request for a file that was fetched before: an empty reply.
Unknown(f) ==
    /\ f \notin urls
    /\ conn' = [conn EXCEPT ![f].at = "closed", ![f].len = 0]
    /\ UNCHANGED serverVars

\* A slip: it is not taken for fetched.
FromEnd_kept(f) ==
    /\ f \in urls /\ conn[f].from = Size
    /\ conn' = [conn EXCEPT ![f].at = "closed"]
    /\ UNCHANGED serverVars

\* For a file asked for from its end: a length is announced and no body follows.
FromEnd(f) ==
    /\ f \in urls /\ conn[f].from = Size
    /\ Fetched(f)
    /\ Answered(f)

Provide(f) ==
    /\ f \in urls /\ conn[f].from < Size
    /\ conn' = [conn EXCEPT ![f].at = "sending"]
    /\ UNCHANGED serverVars

Handle(f) ==
    /\ conn[f].at = "queued" /\ FreeThread
    /\ Unknown(f) \/ FromEnd(f) \/ Provide(f)
    /\ UNCHANGED <<boundVars, diskVars, clientVars>>

\* The content provider.
Send(f) ==
    /\ conn[f].at = "sending"
    /\ conn[f].sent < Size - conn[f].from
    /\ conn' = [conn EXCEPT ![f].sent = @ + 1]
    /\ UNCHANGED <<boundVars, diskVars, clientVars, serverVars>>

\* All is sent.  The range "n-Size" is one byte longer than the file: its
\* thread waits for that byte for ever, and the releaser never runs.
Release(f) ==
    /\ conn[f].at = "sending"
    /\ conn[f].sent = Size - conn[f].from
    /\ IF conn[f].ranged
         THEN /\ spinning' = [spinning EXCEPT ![f] = @ + 1]
              /\ conn' = [conn EXCEPT ![f].at = "idle"]
              /\ UNCHANGED <<urls, up>>
         ELSE Fetched(f) /\ Answered(f)
    /\ UNCHANGED <<boundVars, diskVars, clientVars>>
-----------------------------------------------------------------------------
(* Faults *)

\* A connection is lost, or the answer takes longer than the time limit.
Drop(f) ==
    /\ drops < Drops
    /\ job[f] = "asking"
    /\ conn[f].got < conn[f].len
    /\ drops' = drops + 1
    /\ Served(f)
    /\ Fault(f)

\* hasCancelAction or setReadyFinished().
Break ==
    /\ phase = "loading" /\ ~stop
    /\ cuts < Cuts
    /\ cuts' = cuts + 1
    /\ stop' = TRUE
    /\ UNCHANGED <<rounds, drops, shows, diskVars, phase, result, times, status,
                   joined, left, job, exists, conn, serverVars>>

\* The client's process dies; the server may serve on.
Crash ==
    /\ phase = "loading"
    /\ cuts < Cuts
    /\ cuts' = cuts + 1
    /\ phase' = "idle"
    /\ job' = [f \in Files |-> "over"]
    /\ \/ conn' = [f \in Files |-> NoConn] /\ UNCHANGED serverVars
       \/ \E f \in Files : Served(f) /\ Hangup({})
    /\ UNCHANGED <<rounds, drops, shows, diskVars, result, times, stop, status,
                   joined, left, exists>>
-----------------------------------------------------------------------------
Thread(f) ==
    \/ Skip(f) \/ Open(f) \/ Receive(f) \/ Refuse(f) \/ Count(f)
    \/ Complete(f) \/ Error(f)

Server(f) == Handle(f) \/ Send(f) \/ Release(f)

TransfersNext ==
    \/ Download \/ Terminate \/ Join \/ Finish
    \/ \E f \in Files : Thread(f) \/ Server(f) \/ Drop(f)
    \/ Distribute \/ Break \/ Crash

\* The threads of both sides are run, and every wait of httplib has a limit.
TransfersSpec ==
    /\ TransfersInit /\ [][TransfersNext]_vars
    /\ WF_vars(Terminate \/ Join \/ Finish)
    /\ \A f \in Files : WF_vars(Thread(f)) /\ WF_vars(Server(f))
-----------------------------------------------------------------------------
(* Properties *)

\* What resumption rests on: a count on the disk is never ahead of the file it
\* counts, whenever the process dies; else a file would have a hole that its
\* size does not show.
CountNeverAhead ==
    \A f \in Files : cache[f] # None /\ cache[f] > 0 =>
        disk[f] # Absent /\ cache[f] <= Len(disk[f])

\* A download that reports success has every file whole, whatever was broken
\* off, lost and resumed before, unless a file was resumed at a count that had
\* fallen behind what the file holds.
SuccessIsWhole ==
    phase = "idle" /\ result = "SUCCEED" =>
        \A f \in Files \ torn : disk[f] = Whole

\* When a download has succeeded the server knows it of every file, but for
\* those it serves on for ever (they were resumed) and those that were there
\* already and whose request failed: then the distribution never ends.
Distributed ==
    result = "SUCCEED" => urls \subseteq unheard \cup {f \in Files : spinning[f] > 0}

\* Every download ends, whatever the server does.
DownloadEnds == phase = "loading" ~> phase = "idle"
=============================================================================
