--------------------------- MODULE TransfersProofs ---------------------------
(***************************************************************************)
(* What is proved of the transfers, for any files of any size and any      *)
(* number of downloads, distributions, crashes, breaks and lost            *)
(* connections.                                                            *)
(*                                                                         *)
(* First what resumption rests on: the count on the disk is never ahead of *)
(* the file.  The count written is that of the thread's connection (where  *)
(* it began and what it has got), so the invariant CountInv says that the  *)
(* file of a thread at work holds at least as much.                        *)
(*                                                                         *)
(* Then what a successful download means: LoadInv follows the blocks of    *)
(* each file up to the thread's end (the file is whole), and HeardInv the  *)
(* server's side of it (the server knows).  Both except what the code gets *)
(* wrong (torn, spinning and unheard files); FirstInv says that the first  *)
(* attempt of the first download meets none of it.                         *)
(***************************************************************************)
EXTENDS Transfers, TLAPS

States == {"queued", "refused", "sending", "closed", "idle"}
Conn == [at: States, from: Nat, ranged: BOOLEAN, len: Nat, sent: Nat, got: Nat]
MaybeConn == {NoConn} \cup Conn
Job == {"over", "queued", "asking", "counting"}
AtDisk == {"asking", "counting"}      \* the thread has opened its file

\* The part of the types the argument needs.
DiskTyped ==
    /\ disk \in [Files -> {Absent} \cup Seq(Nat)]
    /\ cache \in [Files -> Nat \cup {None}]
    /\ job \in [Files -> Job]
    /\ conn \in [Files -> MaybeConn]

\* CountNeverAhead, of one file.
Behind(f) == cache[f] # None /\ cache[f] > 0 =>
                 disk[f] # Absent /\ cache[f] <= Len(disk[f])

\* A thread's file holds all it has received, with the block not counted yet.
Written(f) ==
    job[f] \in AtDisk =>
        /\ conn[f] \in Conn /\ disk[f] \in Seq(Nat)
        /\ conn[f].from + conn[f].got + (IF job[f] = "counting" THEN 1 ELSE 0)
             <= Len(disk[f])

CountInv == DiskTyped /\ \A f \in Files : Behind(f) /\ Written(f)

\* A connection gives no more than there is from where it began.
Sane(c) ==
    c \in Conn =>
        /\ c.from + c.sent <= Size /\ c.got <= c.sent /\ c.len \in {0, Size}
        /\ c.at = "sending" => c.from < Size

\* d is the connection c, further on, and has given the client nothing more.
Like(c, d) ==
    /\ d \in MaybeConn /\ (Sane(c) => Sane(d))
    /\ c \in Conn => /\ d \in Conn /\ d.from = c.from /\ d.ranged = c.ranged
                     /\ d.got = c.got /\ c.sent <= d.sent

-----------------------------------------------------------------------------
\* The mark of an absent file is no file of blocks.
LEMMA NotAbsent == \A s \in Seq(Nat) : s # Absent
  BY DEF Absent, None

\* A connection at work is one.
LEMMA AtWork ==
    ASSUME NEW c \in MaybeConn, c.at # "none"
    PROVE  c \in Conn
  BY DEF MaybeConn, NoConn

\* What the server makes of a connection.
At(c, state) == [c EXCEPT !.at = state]
Emptied(c) == [c EXCEPT !.at = "closed", !.len = 0]
Further(c) == [c EXCEPT !.sent = c.sent + 1]
Counted(c) == [c EXCEPT !.got = c.got + 1]

\* Another state, or a block more on its way, leaves it like what it was.
LEMMA ChangedLike ==
    ASSUME NEW c \in Conn
    PROVE  /\ \A state \in States \ {"sending"} : Like(c, At(c, state))
           /\ c.from < Size => Like(c, At(c, "sending"))
           /\ Like(c, Emptied(c))
           /\ c.sent < Size - c.from => Like(c, Further(c))
<1>0. Size \in Nat /\ c.from \in Nat /\ c.sent \in Nat
  BY TransfersAssumption DEF Conn
<1>1. ASSUME NEW d \in Conn, d.from = c.from, d.ranged = c.ranged,
             d.got = c.got, c.sent <= d.sent, Sane(c) => Sane(d)
      PROVE  Like(c, d)
  BY <1>1 DEF Like, MaybeConn
<1>2. ASSUME NEW state \in States
      PROVE  LET d == At(c, state)
             IN /\ d \in Conn /\ d.from = c.from /\ d.ranged = c.ranged
                /\ d.got = c.got /\ d.sent = c.sent
                /\ d.len = c.len /\ d.at = state
  BY DEF Conn, At
<1>3. LET d == Emptied(c)
      IN /\ d \in Conn /\ d.from = c.from /\ d.ranged = c.ranged
         /\ d.got = c.got /\ d.sent = c.sent
         /\ d.len = 0 /\ d.at = "closed"
  BY DEF Conn, Emptied, States
<1>4. LET d == Further(c)
      IN /\ d \in Conn /\ d.from = c.from /\ d.ranged = c.ranged
         /\ d.got = c.got /\ d.sent = c.sent + 1
         /\ d.len = c.len /\ d.at = c.at
  BY DEF Conn, Further
<1>5. ASSUME NEW state \in States, state # "sending" \/ c.from < Size
      PROVE  Like(c, At(c, state))
  <2> DEFINE d == At(c, state)
  <2>1. /\ d \in Conn /\ d.from = c.from /\ d.ranged = c.ranged /\ d.got = c.got
        /\ d.sent = c.sent
        /\ d.len = c.len /\ d.at = state
    BY <1>2
  <2> HIDE DEF d
  <2>2. Sane(c) => Sane(d)
    BY <1>5, <2>1 DEF Sane
  <2>3. Like(c, d)
    BY <1>0, <1>1, <2>1, <2>2
  <2> QED
    BY <2>3 DEF d
<1>6. Like(c, Emptied(c))
  <2> DEFINE d == Emptied(c)
  <2>1. /\ d \in Conn /\ d.from = c.from /\ d.ranged = c.ranged /\ d.got = c.got
        /\ d.sent = c.sent
        /\ d.len = 0 /\ d.at = "closed"
    BY <1>3
  <2> HIDE DEF d
  <2>2. Sane(c) => Sane(d)
    BY <2>1 DEF Sane
  <2>3. Like(c, d)
    BY <1>0, <1>1, <2>1, <2>2
  <2> QED
    BY <2>3 DEF d
<1>7. ASSUME c.sent < Size - c.from
      PROVE  Like(c, Further(c))
  <2> DEFINE d == Further(c)
  <2>1. /\ d \in Conn /\ d.from = c.from /\ d.ranged = c.ranged /\ d.got = c.got
        /\ d.sent = c.sent + 1
        /\ d.len = c.len /\ d.at = c.at /\ c.got \in Nat
    BY <1>4 DEF Conn
  <2> HIDE DEF d
  <2>2. Sane(c) => Sane(d)
    BY <1>0, <1>7, <2>1 DEF Sane
  <2>3. Like(c, d)
    BY <1>0, <1>1, <2>1, <2>2
  <2> QED
    BY <2>3 DEF d
<1> QED
  BY <1>5, <1>6, <1>7 DEF States

\* Any connection is like itself.
LEMMA SelfLike ==
    ASSUME NEW c \in MaybeConn
    PROVE  Like(c, c)
  BY DEF Like, Conn

\* A block counted is the only progress a thread's connection makes.
LEMMA CountedConn ==
    ASSUME NEW c \in Conn
    PROVE  LET d == Counted(c)
           IN /\ d \in Conn /\ d.from = c.from /\ d.ranged = c.ranged /\ d.got = c.got + 1
              /\ d.sent = c.sent /\ d.len = c.len /\ d.at = c.at
  BY DEF Conn, Counted

\* So is one that the server closes.
LEMMA ClosedLike ==
    ASSUME NEW c \in MaybeConn
    PROVE  Like(c, Closed(c))
<1>1. Like(c, c)
  BY SelfLike
<1>2. Closed(c) \in {c, At(c, "refused"), At(c, "closed")}
  BY DEF Closed, At
<1>3. c \in Conn => Like(c, At(c, "refused")) /\ Like(c, At(c, "closed"))
  BY ChangedLike DEF States
<1>4. c \notin Conn => Closed(c) = c
  BY AtWork DEF Closed
<1> QED
  BY <1>1, <1>2, <1>3, <1>4

\* The threads that stay are left a connection like theirs.
LEMMA HangupLike ==
    ASSUME DiskTyped, NEW keep, Hangup(keep)
    PROVE  /\ conn' \in [Files -> MaybeConn]
           /\ \A g \in Files \cap keep : Like(conn[g], conn'[g])
<1>1. \A g \in Files : Like(conn[g], conn[g]) /\ Like(conn[g], Closed(conn[g]))
  BY SelfLike, ClosedLike DEF DiskTyped
<1>2. \A g \in Files : conn'[g] = IF g \notin keep THEN NoConn
                                  ELSE IF up' THEN conn[g] ELSE Closed(conn[g])
  BY DEF Hangup
<1>3. \A g \in Files : conn'[g] \in MaybeConn
  BY <1>1, <1>2 DEF Like, MaybeConn
<1>4. conn' = [g \in Files |-> conn'[g]]
  BY DEF Hangup
<1> QED
  BY <1>1, <1>2, <1>3, <1>4

\* And so are all, when f's request has got its answer.
LEMMA AnsweredLike ==
    ASSUME DiskTyped, NEW f \in Files, conn[f].at # "none", Answered(f)
    PROVE  conn' \in [Files -> MaybeConn] /\ \A g \in Files : Like(conn[g], conn'[g])
<1>1. \A g \in Files : Like(conn[g], conn[g]) /\ Like(conn[g], Closed(conn[g]))
  BY SelfLike, ClosedLike DEF DiskTyped
<1>2. Like(conn[f], At(conn[f], "closed"))
  BY AtWork, ChangedLike DEF DiskTyped, States
<1>3. \A g \in Files : conn'[g] = IF g = f THEN At(conn[g], "closed")
                                  ELSE IF up' THEN conn[g] ELSE Closed(conn[g])
  BY DEF Answered, At
<1>4. \A g \in Files : Like(conn[g], conn'[g])
  BY <1>1, <1>2, <1>3
<1>5. conn' = [g \in Files |-> conn'[g]]
  BY DEF Answered
<1> QED
  BY <1>4, <1>5 DEF Like

\* A change of the connection of f alone.
LEMMA OneLike ==
    ASSUME DiskTyped, NEW f \in Files, NEW c, Like(conn[f], c), conn' = [conn EXCEPT ![f] = c]
    PROVE  conn' \in [Files -> MaybeConn] /\ \A g \in Files : Like(conn[g], conn'[g])
<1>1. c \in MaybeConn /\ conn \in [Files -> MaybeConn]
  BY DEF DiskTyped, Like
<1>2. conn' \in [Files -> MaybeConn]
  BY <1>1
<1>3. conn'[f] = c /\ \A g \in Files \ {f} : conn'[g] = conn[g]
  BY <1>1
<1>4. \A g \in Files : Like(conn[g], conn[g])
  BY <1>1, SelfLike
<1> QED
  BY <1>2, <1>3, <1>4

\* Where no file is written, a count at most removed and every thread either
\* leaves its file or keeps a connection like its own, the invariant is kept.
LEMMA Keeps ==
    ASSUME CountInv, disk' = disk,
           cache' \in [Files -> Nat \cup {None}],
           \A f \in Files : cache'[f] \in {cache[f], None},
           job' \in [Files -> Job], conn' \in [Files -> MaybeConn],
           \A f \in Files : job'[f] \in AtDisk => job'[f] = job[f] /\ Like(conn[f], conn'[f])
    PROVE  CountInv'
<1>1. DiskTyped'
  BY DEF CountInv, DiskTyped
<1>2. ASSUME NEW f \in Files
      PROVE  Behind(f)' /\ Written(f)'
  <2>1. Behind(f) /\ Written(f)
    BY DEF CountInv
  <2>2. Behind(f)'
    BY <2>1 DEF Behind
  <2>3. Written(f)'
    BY <2>1 DEF Written, Like
  <2> QED
    BY <2>2, <2>3
<1> QED
  BY <1>1, <1>2 DEF CountInv

-----------------------------------------------------------------------------
\* The client's worker thread, and a process that dies, open and write no file.
LEMMA WorkerKeeps ==
    ASSUME CountInv, Download \/ Terminate \/ Join \/ Finish \/ Break \/ Crash
    PROVE  CountInv'
<1> USE DEF CountInv
<1>1. \A f \in Files : Like(conn[f], conn[f])
  BY SelfLike DEF DiskTyped
<1>2. CASE Download
  BY <1>1, <1>2, Keeps DEF Download, Attempt, DiskTyped, Job, AtDisk
<1>3. CASE Terminate
  BY <1>1, <1>3, Keeps DEF Terminate, diskVars, DiskTyped, Job, AtDisk, MaybeConn
<1>4. CASE Join
  BY <1>1, <1>4, Keeps DEF Join, diskVars, DiskTyped
<1>5. CASE Finish
  <2>1. disk' = disk /\ cache' = cache /\ conn' = conn
    BY <1>5 DEF Finish, diskVars
  <2>2. job' = job \/ job' = [f \in Files |-> "queued"]
    BY <1>5 DEF Finish, Attempt
  <2> QED
    BY <1>1, <2>1, <2>2, Keeps DEF DiskTyped, Job, AtDisk
<1>6. CASE Break
  BY <1>1, <1>6, Keeps DEF Break, diskVars, DiskTyped
<1>7. CASE Crash
  <2>1. disk' = disk /\ cache' = cache /\ job' = [f \in Files |-> "over"]
    BY <1>7 DEF Crash, diskVars
  <2>2. conn' = [f \in Files |-> NoConn] \/ Hangup({})
    BY <1>7 DEF Crash
  <2>3. conn' \in [Files -> MaybeConn]
    BY <2>2, HangupLike DEF MaybeConn
  <2> QED
    BY <2>1, <2>3, Keeps DEF DiskTyped, Job, AtDisk
<1> QED
  BY <1>2, <1>3, <1>4, <1>5, <1>6, <1>7

\* The server leaves every connection like it was,
LEMMA ServerLike ==
    ASSUME CountInv, Distribute \/ \E f \in Files : Server(f)
    PROVE  conn' \in [Files -> MaybeConn] /\ \A g \in Files : Like(conn[g], conn'[g])
<1>0. DiskTyped
  BY DEF CountInv
<1>1. CASE Distribute
  <2>1. \A f \in Files : conn'[f] = Closed(conn[f])
    BY <1>1 DEF Distribute
  <2>2. conn' = [f \in Files |-> conn'[f]]
    BY <1>1 DEF Distribute
  <2> QED
    BY <1>0, <2>1, <2>2, ClosedLike DEF DiskTyped, Like
<1>2. ASSUME NEW f \in Files, Handle(f)
      PROVE  conn' \in [Files -> MaybeConn] /\ \A g \in Files : Like(conn[g], conn'[g])
  <2>1. conn[f] \in Conn /\ conn[f].at = "queued"
    BY <1>0, <1>2, AtWork DEF Handle, DiskTyped
  <2>2. CASE Unknown(f)
    <3>1. conn' = [conn EXCEPT ![f] = Emptied(conn[f])]
      BY <1>0, <2>2 DEF Unknown, Emptied, DiskTyped
    <3> QED
      BY <1>0, <2>1, <3>1, ChangedLike, OneLike DEF States
  <2>3. CASE FromEnd(f)
    BY <1>0, <2>1, <2>3, AnsweredLike DEF FromEnd
  <2>4. CASE Provide(f)
    <3>1. conn' = [conn EXCEPT ![f] = At(conn[f], "sending")] /\ conn[f].from < Size
      BY <2>4 DEF Provide, At
    <3> QED
      BY <1>0, <2>1, <3>1, ChangedLike, OneLike DEF States
  <2> QED
    BY <1>2, <2>2, <2>3, <2>4 DEF Handle
<1>3. ASSUME NEW f \in Files, Send(f)
      PROVE  conn' \in [Files -> MaybeConn] /\ \A g \in Files : Like(conn[g], conn'[g])
  <2>1. conn[f] \in Conn
    BY <1>0, <1>3, AtWork DEF Send, DiskTyped
  <2>2. /\ conn' = [conn EXCEPT ![f] = Further(conn[f])]
        /\ conn[f].sent < Size - conn[f].from
    BY <1>3 DEF Send, Further
  <2> QED
    BY <1>0, <2>1, <2>2, ChangedLike, OneLike
<1>4. ASSUME NEW f \in Files, Release(f)
      PROVE  conn' \in [Files -> MaybeConn] /\ \A g \in Files : Like(conn[g], conn'[g])
  <2>1. conn[f] \in Conn /\ conn[f].at = "sending"
    BY <1>0, <1>4, AtWork DEF Release, DiskTyped
  <2>2. conn' = [conn EXCEPT ![f] = At(conn[f], "idle")] \/ Answered(f)
    BY <1>4 DEF Release, At
  <2> QED
    BY <1>0, <2>1, <2>2, ChangedLike, OneLike, AnsweredLike DEF States
<1> QED
  BY <1>1, <1>2, <1>3, <1>4 DEF Server

\* and writes no file either.
LEMMA ServerKeeps ==
    ASSUME CountInv, Distribute \/ \E f \in Files : Server(f)
    PROVE  CountInv'
<1>1. disk' = disk /\ cache' = cache /\ job' = job
  BY DEF Distribute, Server, Handle, Send, Release, diskVars, clientVars
<1> QED
  BY <1>1, ServerLike, Keeps DEF CountInv, DiskTyped

\* A thread that leaves its file, with its count or without.
LEMMA LeaveKeeps ==
    ASSUME CountInv, NEW f \in Files, disk' = disk,
           cache' = cache \/ cache' = [cache EXCEPT ![f] = None],
           Leaves(f), conn' = conn \/ Hangup(Files \ {f})
    PROVE  CountInv'
<1>1. DiskTyped /\ \A g \in Files : Like(conn[g], conn[g])
  BY SelfLike DEF CountInv, DiskTyped
<1>2. conn' \in [Files -> MaybeConn] /\ \A g \in Files \ {f} : Like(conn[g], conn'[g])
  BY <1>1, HangupLike DEF DiskTyped
<1>3. cache' \in [Files -> Nat \cup {None}] /\ \A g \in Files : cache'[g] \in {cache[g], None}
  BY <1>1 DEF DiskTyped
<1>4. /\ job' \in [Files -> Job] /\ job'[f] = "over"
      /\ \A g \in Files \ {f} : job'[g] = job[g]
  BY <1>1 DEF Leaves, DiskTyped, Job
<1>5. \A g \in Files : job'[g] \in AtDisk => job'[g] = job[g] /\ Like(conn[g], conn'[g])
  BY <1>2, <1>4 DEF AtDisk
<1> QED
  BY <1>2, <1>3, <1>4, <1>5, Keeps

\* A thread that opens its file begins at the count it finds, or with an empty file.
LEMMA OpenKeeps ==
    ASSUME CountInv, NEW f \in Files, Open(f)
    PROVE  CountInv'
<1> DEFINE from == IF cache[f] # None THEN cache[f]
                   ELSE IF disk[f] # Absent /\ Len(disk[f]) = Size THEN Size ELSE 0
<1>0. DiskTyped /\ Behind(f) /\ Size \in Nat
  BY TransfersAssumption DEF CountInv
<1>1. /\ cache' = [cache EXCEPT ![f] = 0] /\ job' = [job EXCEPT ![f] = "asking"]
  BY DEF Open
<1>2. /\ from \in Nat
      /\ \E ranged \in BOOLEAN : Ask(f, from, ranged)
      /\ \E blocks \in Seq(Nat) : disk' = [disk EXCEPT ![f] = blocks] /\ from <= Len(blocks)
  <2>1. disk[f] \in {Absent} \cup Seq(Nat) /\ cache[f] \in Nat \cup {None} /\ None \notin Nat
    BY <1>0 DEF DiskTyped, None
  <2>2. <<>> \in Seq(Nat) /\ Len(<<>>) = 0
    OBVIOUS
  <2>3. CASE Resume(f)
    <3>1. cache[f] \in Nat /\ from = cache[f] /\ Ask(f, from, TRUE)
      BY <2>1, <2>3 DEF Resume
    <3>2. disk[f] = Absent => cache[f] = 0
      BY <1>0, <3>1, <2>1 DEF Behind
    <3>3. disk[f] # Absent => disk[f] \in Seq(Nat) /\ cache[f] <= Len(disk[f])
      <4>1. disk[f] # Absent => disk[f] \in Seq(Nat) /\ Len(disk[f]) \in Nat
        BY <2>1
      <4> QED
        BY <1>0, <3>1, <2>1, <4>1 DEF Behind
    <3>4. disk' = [disk EXCEPT ![f] = IF disk[f] = Absent THEN <<>> ELSE disk[f]]
      BY <2>3 DEF Resume
    <3> HIDE DEF from
    <3> DEFINE blocks == IF disk[f] = Absent THEN <<>> ELSE disk[f]
    <3>5. blocks \in Seq(Nat) /\ from <= Len(blocks)
      BY <2>1, <2>2, <3>1, <3>2, <3>3
    <3> HIDE DEF blocks
    <3>6. disk' = [disk EXCEPT ![f] = blocks]
      BY <3>4 DEF blocks
    <3> QED
      BY <3>1, <3>5, <3>6
  <2>4. CASE Existing(f)
    <3>1. /\ from = Size /\ Ask(f, from, TRUE) /\ disk' = disk
          /\ disk[f] \in Seq(Nat) /\ Len(disk[f]) = Size
      BY <2>1, <2>4 DEF Existing
    <3>2. disk' = [disk EXCEPT ![f] = disk[f]]
      BY <1>0, <3>1 DEF DiskTyped
    <3> HIDE DEF from
    <3>3. from <= Len(disk[f]) /\ TRUE \in BOOLEAN
      BY <1>0, <3>1
    <3> QED
      BY <1>0, <3>1, <3>2, <3>3
  <2>5. CASE Afresh(f)
    <3>1. from = 0 /\ Ask(f, from, FALSE) /\ disk' = [disk EXCEPT ![f] = <<>>]
      BY <2>5 DEF Afresh
    <3> HIDE DEF from
    <3>2. 0 <= Len(<<>>)
      BY <2>2
    <3> QED
      BY <2>2, <3>1, <3>2
  <2> QED
    BY <2>3, <2>4, <2>5 DEF Open
<1> HIDE DEF from
<1>3. PICK blocks \in Seq(Nat) : disk' = [disk EXCEPT ![f] = blocks] /\ from <= Len(blocks)
  BY <1>2
<1>4. PICK c \in Conn : conn' = [conn EXCEPT ![f] = c] /\ c.from = from /\ c.got = 0
  <2>1. PICK ranged \in BOOLEAN : Ask(f, from, ranged)
    BY <1>2
  <2> DEFINE c == [at |-> IF up THEN "queued" ELSE "refused", from |-> from,
                   ranged |-> ranged, len |-> Size, sent |-> 0, got |-> 0]
  <2>2. c \in Conn /\ c.from = from /\ c.got = 0
    BY <1>0, <1>2 DEF Conn, States
  <2>3. conn' = [conn EXCEPT ![f] = c]
    BY <2>1 DEF Ask
  <2> HIDE DEF c
  <2> QED
    BY <2>2, <2>3
<1>5. DiskTyped'
  BY <1>0, <1>1, <1>3, <1>4 DEF DiskTyped, Job, MaybeConn
<1>6. Behind(f)' /\ Written(f)'
  BY <1>0, <1>1, <1>2, <1>3, <1>4 DEF DiskTyped, Behind, Written
<1>7. ASSUME NEW g \in Files, g # f
      PROVE  Behind(g)' /\ Written(g)'
  <2>1. disk'[g] = disk[g] /\ cache'[g] = cache[g] /\ job'[g] = job[g] /\ conn'[g] = conn[g]
    BY <1>0, <1>1, <1>3, <1>4, <1>7 DEF DiskTyped
  <2> QED
    BY <2>1 DEF CountInv, Behind, Written
<1> QED
  BY <1>5, <1>6, <1>7 DEF CountInv

\* A block is appended before it is counted.
LEMMA ReceiveKeeps ==
    ASSUME CountInv, NEW f \in Files, Receive(f)
    PROVE  CountInv'
<1> DEFINE block == conn[f].from + conn[f].got + 1
           blocks == Append(disk[f], block)
<1>0. DiskTyped /\ Behind(f) /\ Written(f) /\ \A s \in Seq(Nat) : s # Absent
  BY NotAbsent DEF CountInv
<1>1. /\ disk' = [disk EXCEPT ![f] = blocks] /\ cache' = cache /\ conn' = conn
      /\ job' = [job EXCEPT ![f] = "counting"] /\ job[f] = "asking"
  BY DEF Receive, Flush, Unread
<1>2. /\ conn[f] \in Conn /\ disk[f] \in Seq(Nat) /\ block \in Nat
      /\ conn[f].from + conn[f].got <= Len(disk[f])
  BY <1>0, <1>1 DEF Written, AtDisk, Conn
<1>3. blocks \in Seq(Nat) /\ Len(blocks) = Len(disk[f]) + 1 /\ Len(disk[f]) \in Nat
  BY <1>2
<1> HIDE DEF blocks
<1>4. DiskTyped'
  BY <1>0, <1>1, <1>3 DEF DiskTyped, Job
<1>5. disk'[f] = blocks /\ job'[f] = "counting"
  BY <1>0, <1>1 DEF DiskTyped
<1>6. Behind(f)'
  BY <1>0, <1>1, <1>3, <1>5 DEF Behind, DiskTyped, None
<1>7. Written(f)'
  BY <1>1, <1>2, <1>3, <1>5 DEF Written, Conn
<1>8. ASSUME NEW g \in Files, g # f
      PROVE  Behind(g)' /\ Written(g)'
  <2>1. disk'[g] = disk[g] /\ cache'[g] = cache[g] /\ job'[g] = job[g] /\ conn'[g] = conn[g]
    BY <1>0, <1>1, <1>8 DEF DiskTyped
  <2> QED
    BY <2>1 DEF CountInv, Behind, Written
<1> QED
  BY <1>4, <1>6, <1>7, <1>8 DEF CountInv

\* The count written is that of a block the file holds.
LEMMA CountKeeps ==
    ASSUME CountInv, NEW f \in Files, Count(f)
    PROVE  CountInv'
<1> DEFINE block == conn[f].from + conn[f].got + 1
<1>0. DiskTyped /\ Written(f) /\ \A s \in Seq(Nat) : s # Absent
  BY NotAbsent DEF CountInv
<1>1. disk' = disk /\ cache' = [cache EXCEPT ![f] = block] /\ job[f] = "counting"
  BY DEF Count, Flush
<1>2. conn[f] \in Conn /\ disk[f] \in Seq(Nat) /\ block \in Nat /\ block <= Len(disk[f])
  BY <1>0, <1>1 DEF Written, AtDisk, Conn
<1>3. /\ conn' \in [Files -> MaybeConn] /\ job' \in [Files -> Job]
      /\ \A g \in Files \ {f} : job'[g] = job[g] /\ Like(conn[g], conn'[g])
      /\ \/ job'[f] = "over"
         \/ /\ job'[f] = "asking" /\ conn'[f] \in Conn
            /\ conn'[f].from = conn[f].from /\ conn'[f].got = conn[f].got + 1
  <2>1. CASE BreakOff(f)
    <3>1. Leaves(f) /\ Hangup(Files \ {f})
      BY <2>1 DEF BreakOff
    <3>2. conn' \in [Files -> MaybeConn] /\ \A g \in Files \ {f} : Like(conn[g], conn'[g])
      BY <1>0, <3>1, HangupLike
    <3> QED
      BY <1>0, <3>1, <3>2 DEF Leaves, DiskTyped, Job
  <2>2. CASE /\ job' = [job EXCEPT ![f] = "asking"]
             /\ conn' = [conn EXCEPT ![f].got = @ + 1]
    <3>1. conn' = [conn EXCEPT ![f] = Counted(conn[f])]
      BY <2>2 DEF Counted
    <3>2. conn'[f] = Counted(conn[f]) /\ conn' \in [Files -> MaybeConn]
      BY <1>0, <1>2, <3>1, CountedConn DEF DiskTyped, MaybeConn
    <3>3. \A g \in Files \ {f} : conn'[g] = conn[g] /\ Like(conn[g], conn'[g])
      BY <1>0, <3>1, SelfLike DEF DiskTyped
    <3>4. /\ conn'[f] \in Conn /\ conn'[f].from = conn[f].from
          /\ conn'[f].got = conn[f].got + 1
      BY <1>2, <3>2, CountedConn
    <3>5. job' \in [Files -> Job] /\ job'[f] = "asking" /\ \A g \in Files \ {f} : job'[g] = job[g]
      BY <1>0, <2>2 DEF DiskTyped, Job
    <3> QED
      BY <3>2, <3>3, <3>4, <3>5
  <2> QED
    BY <2>1, <2>2 DEF Count
<1>4. DiskTyped'
  BY <1>0, <1>1, <1>2, <1>3 DEF DiskTyped
<1>5. cache'[f] = block
  BY <1>0, <1>1 DEF DiskTyped
<1>6. Behind(f)'
  BY <1>0, <1>1, <1>2, <1>5 DEF Behind
<1>7. Written(f)'
  BY <1>1, <1>2, <1>3 DEF Written, AtDisk, Conn
<1>8. ASSUME NEW g \in Files, g # f
      PROVE  Behind(g)' /\ Written(g)'
  <2>1. /\ disk'[g] = disk[g] /\ cache'[g] = cache[g] /\ job'[g] = job[g]
        /\ Like(conn[g], conn'[g])
    BY <1>0, <1>1, <1>3, <1>8 DEF DiskTyped
  <2>2. Behind(g) /\ Written(g)
    BY DEF CountInv
  <2> QED
    BY <2>1, <2>2 DEF Behind, Written, Like
<1> QED
  BY <1>4, <1>6, <1>7, <1>8 DEF CountInv

\* A thread of the client, or the loss of its connection.
LEMMA ThreadKeeps ==
    ASSUME CountInv, NEW f \in Files, Thread(f) \/ Drop(f)
    PROVE  CountInv'
<1>1. CASE Skip(f)
  BY <1>1, LeaveKeeps DEF Skip, diskVars
<1>2. CASE Refuse(f)
  BY <1>2, LeaveKeeps DEF Refuse, BreakOff, diskVars
<1>3. CASE Complete(f)
  BY <1>3, LeaveKeeps DEF Complete
<1>4. CASE Error(f) \/ Drop(f)
  <2>1. Fault(f)
    BY <1>4 DEF Error, Drop
  <2> QED
    BY <2>1, LeaveKeeps DEF Fault, Forgets
<1> QED
  BY <1>1, <1>2, <1>3, <1>4, OpenKeeps, ReceiveKeeps, CountKeeps DEF Thread

LEMMA CountStarts == TransfersInit => CountInv
<1> SUFFICES ASSUME TransfersInit PROVE CountInv
  OBVIOUS
<1>1. DiskTyped
  BY DEF TransfersInit, DiskTyped, MaybeConn, Job
<1>2. \A f \in Files : cache[f] = None /\ job[f] = "over"
  BY DEF TransfersInit
<1> QED
  BY <1>1, <1>2 DEF CountInv, Behind, Written, AtDisk

LEMMA CountStep == CountInv /\ [TransfersNext]_vars => CountInv'
<1> SUFFICES ASSUME CountInv, [TransfersNext]_vars PROVE CountInv'
  OBVIOUS
<1>1. CASE TransfersNext
  BY <1>1, WorkerKeeps, ServerKeeps, ThreadKeeps DEF TransfersNext
<1>2. CASE UNCHANGED vars
  BY <1>2 DEF vars, diskVars, clientVars, CountInv, DiskTyped, Behind, Written
<1> QED
  BY <1>1, <1>2

(***************************************************************************)
(* The count in a .cache file is never ahead of the file it counts,        *)
(* whenever the process dies or the connection is lost.                    *)
(***************************************************************************)
THEOREM CountStaysBehind == TransfersSpec => []CountNeverAhead
<1>1. CountInv => CountNeverAhead
  BY DEF CountInv, Behind, CountNeverAhead
<1> QED
  BY <1>1, CountStarts, CountStep, PTL DEF TransfersSpec
-----------------------------------------------------------------------------
(* What a file holds when its download succeeds.                           *)

\* Blocks in order and none too many, which is what a whole file begins with.
Prefix(f) == /\ disk[f] \in Seq(Nat) /\ Len(disk[f]) <= Size
             /\ \A b \in 1..Len(disk[f]) : disk[f][b] = b

\* No count exceeds the file, no connection gives more than there is, and a
\* block being counted was sent.
Bounded(f) ==
    /\ cache[f] # None => cache[f] <= Size
    /\ Sane(conn[f])
    /\ job[f] = "counting" => conn[f].got < conn[f].sent

\* The file of a thread ends where its connection has got to.
InOrder(f) ==
    f \notin torn =>
        /\ disk[f] # Absent => Prefix(f)
        /\ job[f] \in AtDisk =>
             Len(disk[f]) = conn[f].from + conn[f].got + (IF job[f] = "counting" THEN 1 ELSE 0)

\* The last download has not failed (so far).
Hopeful == phase = "loading" \/ result = "SUCCEED"

\* A file is settled when it has its size: at the end of its thread, or before
\* it asks for a file that exists, of which nothing is left to be sent.
Settled(f) ==
    /\ job[f] # "over" => phase = "loading"
    /\ job[f] = "queued" => f \in left
    /\ job[f] \in AtDisk /\ exists[f] => conn[f].from = Size
    /\ job[f] \in AtDisk /\ f \notin left => exists[f]
    /\ Hopeful /\ f \notin left /\ f \notin torn =>
         disk[f] # Absent /\ Len(disk[f]) = Size

Phases == /\ exists \in [Files -> BOOLEAN]
          /\ phase = "loading" => result = "none"
          /\ result = "SUCCEED" => left = {}

LoadInv == CountInv /\ Phases /\ \A f \in Files : Bounded(f) /\ InOrder(f) /\ Settled(f)

\* A step that leaves f's file alone, and its thread and connection at most ends.
Rests(f) ==
    /\ disk'[f] = disk[f] /\ (f \in torn' <=> f \in torn)
    /\ cache'[f] \in {cache[f], None}
    /\ conn'[f] = NoConn \/ Like(conn[f], conn'[f])
    /\ job'[f] \in AtDisk => job'[f] = job[f] /\ conn'[f] # NoConn

\* The absence of a connection is none.
LEMMA NoConnNone == NoConn \notin Conn /\ Sane(NoConn)
  BY DEF NoConn, Conn, Sane, States

\* Such a step keeps what is said of f's blocks,
LEMMA RestsKeeps ==
    ASSUME CountInv, NEW f \in Files, Bounded(f), InOrder(f), Rests(f)
    PROVE  Bounded(f)' /\ InOrder(f)'
<1>1. conn[f] \in MaybeConn /\ Written(f) /\ cache[f] \in Nat \cup {None}
  BY DEF CountInv, DiskTyped
<1>2. Sane(conn'[f])
  BY NoConnNone DEF Rests, Bounded, Like
<1>3. job'[f] \in AtDisk =>
        /\ job'[f] = job[f] /\ conn[f] \in Conn /\ conn'[f] \in Conn
        /\ conn'[f].from = conn[f].from /\ conn'[f].got = conn[f].got
        /\ conn[f].sent <= conn'[f].sent
  BY <1>1 DEF Rests, Written, Like
<1>4. job'[f] = "counting" => conn'[f].got < conn'[f].sent
  BY <1>3 DEF Bounded, Conn, AtDisk
<1>5. cache'[f] # None => cache'[f] <= Size
  BY DEF Rests, Bounded
<1>6. Bounded(f)'
  BY <1>2, <1>4, <1>5 DEF Bounded
<1>7. InOrder(f)'
  BY <1>3 DEF InOrder, Prefix, Rests
<1> QED
  BY <1>6, <1>7

\* and that it is settled, as long as the worker thread stays where it is.
LEMMA RestsSettled ==
    ASSUME CountInv, NEW f \in Files, Settled(f), Rests(f), job'[f] \in {job[f], "over"},
           phase' = phase, result' = result, f \in left' <=> f \in left,
           exists'[f] = exists[f]
    PROVE  Settled(f)'
<1>1. conn[f] \in MaybeConn /\ Written(f)
  BY DEF CountInv, DiskTyped
<1>2. job'[f] \in AtDisk => job'[f] = job[f] /\ conn'[f].from = conn[f].from
  BY <1>1 DEF Rests, Written, Like
<1>3. Hopeful' <=> Hopeful
  BY DEF Hopeful
<1>4. disk'[f] = disk[f] /\ (f \in torn' <=> f \in torn)
  BY DEF Rests
<1>5. job'[f] # "over" => job'[f] = job[f]
  OBVIOUS
<1> QED
  BY <1>2, <1>3, <1>4, <1>5 DEF Settled, AtDisk

\* A connection that is left like it was.
LEMMA LikeRests ==
    ASSUME CountInv, NEW f \in Files, disk'[f] = disk[f], f \in torn' <=> f \in torn,
           cache'[f] \in {cache[f], None}, job'[f] = job[f], Like(conn[f], conn'[f])
    PROVE  Rests(f)
<1>1. job[f] \in AtDisk => conn'[f] \in Conn
  BY DEF CountInv, Written, Like
<1> QED
  BY <1>1, NoConnNone DEF Rests


\* A step of the server.
LEMMA ServerLoads ==
    ASSUME LoadInv, Distribute \/ \E f \in Files : Server(f)
    PROVE  LoadInv'
<1>1. CountInv' /\ CountInv
  BY ServerKeeps DEF LoadInv
<1>2. UNCHANGED <<disk, cache, torn, clientVars>>
  BY DEF Distribute, Server, Handle, Send, Release, diskVars
<1>3. UNCHANGED <<phase, result, left, job, exists>>
  BY <1>2 DEF clientVars
<1>4. ASSUME NEW g \in Files
      PROVE  Bounded(g)' /\ InOrder(g)' /\ Settled(g)'
  <2>1. Like(conn[g], conn'[g])
    BY <1>1, ServerLike
  <2>2. Rests(g)
    BY <1>1, <1>2, <1>3, <2>1, LikeRests
  <2> QED
    BY <1>1, <1>3, <2>2, RestsKeeps, RestsSettled DEF LoadInv
<1>5. Phases'
  BY <1>3 DEF LoadInv, Phases
<1> QED
  BY <1>1, <1>4, <1>5 DEF LoadInv

\* A step of the client's worker thread, or the end of its process.
LEMMA WorkerLoads ==
    ASSUME LoadInv, Download \/ Terminate \/ Join \/ Finish \/ Break \/ Crash
    PROVE  LoadInv'
<1>0. CountInv /\ CountInv' /\ Phases
  BY WorkerKeeps DEF LoadInv
<1>1. disk' = disk /\ cache' = cache /\ torn' = torn /\ exists' = exists
  BY DEF Download, Terminate, Join, Finish, Break, Crash, diskVars
<1>2. \A g \in Files : conn'[g] = NoConn \/ Like(conn[g], conn'[g])
  <2>1. DiskTyped /\ \A g \in Files : Like(conn[g], conn[g]) /\ Like(conn[g], Closed(conn[g]))
    BY <1>0, SelfLike, ClosedLike DEF CountInv, DiskTyped
  <2>2. conn' = conn \/ conn' = [f \in Files |-> NoConn] \/ Hangup({})
    BY DEF Download, Terminate, Join, Finish, Break, Crash
  <2> QED
    BY <2>1, <2>2 DEF Hangup
<1>3. \/ job' = job /\ conn' = conn
      \/ \A g \in Files : job'[g] \in {"over", "queued"}
  BY DEF Download, Terminate, Join, Finish, Break, Crash, Attempt
<1>4. ASSUME NEW g \in Files
      PROVE  Bounded(g)' /\ InOrder(g)'
  <2>1. Rests(g)
    <3>1. CASE job' = job /\ conn' = conn
      <4>1. Like(conn[g], conn'[g])
        BY <1>0, <3>1, SelfLike DEF CountInv, DiskTyped
      <4> QED
        BY <1>0, <1>1, <3>1, <4>1, LikeRests
    <3>2. CASE job'[g] \in {"over", "queued"}
      BY <1>1, <1>2, <3>2 DEF Rests, AtDisk
    <3> QED
      BY <1>3, <3>1, <3>2
  <2> QED
    BY <1>0, <2>1, RestsKeeps DEF LoadInv
<1>5. Phases' /\ \A g \in Files : Settled(g)'
  <2>0. \A g \in Files : Settled(g)
    BY DEF LoadInv
  <2>1. CASE Download
    BY <1>1, <2>1, <1>0 DEF Download, Attempt, Phases, Settled, AtDisk, Hopeful
  <2>2. CASE Terminate \/ Crash
    <3>1. /\ phase = "loading" /\ phase' = "idle" /\ result' = result /\ left' = left
          /\ job' = [f \in Files |-> "over"]
      BY <2>2 DEF Terminate, Crash
    <3>2. result' # "SUCCEED"
      BY <1>0, <3>1 DEF Phases
    <3> QED
      BY <1>0, <1>1, <3>1, <3>2 DEF Phases, Settled, AtDisk, Hopeful
  <2>3. CASE Join \/ Break
    <3>1. UNCHANGED <<phase, result, left, job, conn>>
      BY <2>3 DEF Join, Break
    <3> QED
      BY <1>0, <1>1, <2>0, <3>1 DEF Phases, Settled, Hopeful
  <2>4. CASE Finish
    <3>1. /\ phase = "loading" /\ result = "none"
          /\ \A f \in Files : job[f] = "over"
      BY <1>0, <2>4 DEF Finish, Phases
    <3>2. CASE Attempt /\ UNCHANGED <<phase, result>>
      BY <1>0, <1>1, <3>1, <3>2 DEF Attempt, Phases, Settled, AtDisk, Hopeful
    <3>3. CASE /\ phase' = "idle" /\ UNCHANGED <<left, job>>
               /\ result' = "SUCCEED" => left = {}
      BY <1>0, <1>1, <2>0, <3>1, <3>3 DEF Phases, Settled, AtDisk, Hopeful
    <3> QED
      BY <2>4, <3>2, <3>3 DEF Finish, Done, Canceled
  <2> QED
    BY <2>1, <2>2, <2>3, <2>4
<1> QED
  BY <1>0, <1>4, <1>5 DEF LoadInv

\* The threads that are not f's, where f's connection is let go or not.
LEMMA OthersRest ==
    ASSUME CountInv, NEW f \in Files,
           \A g \in Files \ {f} :
               /\ disk'[g] = disk[g] /\ cache'[g] = cache[g] /\ job'[g] = job[g]
               /\ g \in torn' <=> g \in torn,
           \/ Hangup(Files \ {f})
           \/ \A g \in Files \ {f} : conn'[g] = conn[g]
    PROVE  \A g \in Files \ {f} : Rests(g)
<1>0. DiskTyped
  BY DEF CountInv
<1>1. \A g \in Files \ {f} : Like(conn[g], conn'[g])
  BY <1>0, SelfLike, HangupLike DEF DiskTyped
<1> QED
  BY <1>1, LikeRests

\* A step of f's thread: what remains is to look at f.
LEMMA ThreadLoads ==
    ASSUME LoadInv, NEW f \in Files, CountInv',
           UNCHANGED <<phase, result>>, exists' \in [Files -> BOOLEAN], result # "SUCCEED",
           \A g \in Files \ {f} :
               /\ Rests(g) /\ job'[g] = job[g] /\ exists'[g] = exists[g]
               /\ g \in left' <=> g \in left,
           Bounded(f)' /\ InOrder(f)' /\ Settled(f)'
    PROVE  LoadInv'
<1>1. CountInv /\ Phases /\ \A g \in Files : Bounded(g) /\ InOrder(g) /\ Settled(g)
  BY DEF LoadInv
<1>2. \A g \in Files \ {f} : Bounded(g)' /\ InOrder(g)' /\ Settled(g)'
  BY <1>1, RestsKeeps, RestsSettled
<1>3. Phases'
  BY <1>1 DEF Phases
<1> QED
  BY <1>2, <1>3 DEF LoadInv

\* A thread at work works for a download that has no result.
LEMMA AtWorkLoading ==
    ASSUME LoadInv, NEW f \in Files, job[f] # "over"
    PROVE  phase = "loading" /\ result # "SUCCEED"
  BY DEF LoadInv, Settled, Phases

\* A thread that leaves its file unsettled.
LEMMA LeaveLoads ==
    ASSUME LoadInv, NEW f \in Files, UNCHANGED <<disk, torn, phase, result, left, exists>>,
           cache' = cache \/ cache' = [cache EXCEPT ![f] = None],
           job[f] # "over", Leaves(f),
           Hangup(Files \ {f}) \/ conn' = conn
    PROVE  LoadInv'
<1>0. CountInv /\ CountInv' /\ Phases /\ Bounded(f) /\ InOrder(f) /\ Settled(f)
  BY LeaveKeeps DEF LoadInv
<1>1. DiskTyped
  BY <1>0 DEF CountInv
<1>2. /\ job'[f] = "over" /\ \A g \in Files \ {f} : job'[g] = job[g] /\ cache'[g] = cache[g]
      /\ cache'[f] \in {cache[f], None}
  BY <1>1 DEF Leaves, DiskTyped
<1>3. \A g \in Files \ {f} : Rests(g)
  BY <1>0, <1>2, OthersRest
<1>4. Rests(f)
  <2>1. conn'[f] = NoConn \/ conn'[f] = conn[f]
    BY DEF Hangup
  <2>2. Like(conn[f], conn[f])
    BY <1>1, SelfLike DEF DiskTyped
  <2> QED
    BY <1>2, <2>1, <2>2 DEF Rests, AtDisk
<1>5. Bounded(f)' /\ InOrder(f)' /\ Settled(f)'
  BY <1>0, <1>2, <1>4, RestsKeeps, RestsSettled
<1>6. exists' \in [Files -> BOOLEAN] /\ result # "SUCCEED"
  BY <1>0, AtWorkLoading DEF Phases
<1> QED
  BY <1>0, <1>2, <1>3, <1>5, <1>6, ThreadLoads

\* A complete reply has brought what was missing of the file.
LEMMA CompleteLoads ==
    ASSUME LoadInv, NEW f \in Files, Complete(f)
    PROVE  LoadInv'
<1>0. CountInv /\ Phases /\ Bounded(f) /\ InOrder(f) /\ Settled(f)
  BY DEF LoadInv
<1>1. DiskTyped /\ Written(f) /\ \A s \in Seq(Nat) : s # Absent
  BY <1>0, NotAbsent DEF CountInv
<1>2. /\ job[f] = "asking" /\ conn[f].got = conn[f].len
      /\ UNCHANGED <<disk, torn, phase, result, exists>>
      /\ cache' = [cache EXCEPT ![f] = None] /\ Leaves(f) /\ Hangup(Files \ {f})
      /\ left' = IF exists[f] \/ conn[f].len > 0 THEN left \ {f} ELSE left
  BY DEF Complete
<1>3. CountInv'
  BY <1>0, <1>2, LeaveKeeps
<1>4. /\ job'[f] = "over" /\ cache'[f] = None
      /\ \A g \in Files \ {f} : job'[g] = job[g] /\ cache'[g] = cache[g]
  BY <1>1, <1>2 DEF Leaves, DiskTyped
<1>5. \A g \in Files \ {f} : Rests(g)
  BY <1>0, <1>2, <1>4, OthersRest
<1>6. conn'[f] = NoConn
  BY <1>2 DEF Hangup
<1>7. Bounded(f)' /\ InOrder(f)'
  <2>1. Rests(f)
    BY <1>2, <1>4, <1>6 DEF Rests, AtDisk
  <2> QED
    BY <1>0, <2>1, RestsKeeps
<1>8. conn[f] \in Conn /\ disk[f] \in Seq(Nat) /\ disk[f] # Absent
  BY <1>1, <1>2 DEF Written, AtDisk
<1>9. f \notin left' /\ f \notin torn => Len(disk[f]) = Size
  <2> SUFFICES ASSUME f \notin left', f \notin torn
               PROVE  Len(disk[f]) = Size
    OBVIOUS
  <2>1. Len(disk[f]) = conn[f].from + conn[f].got
    BY <1>0, <1>2, <1>8 DEF InOrder, AtDisk, Conn
  <2>2. /\ conn[f].from + conn[f].sent <= Size /\ conn[f].got <= conn[f].sent
        /\ conn[f].len \in {0, Size}
        /\ conn[f].from \in Nat /\ conn[f].sent \in Nat /\ conn[f].got \in Nat
    BY <1>0, <1>8 DEF Bounded, Sane, Conn
  <2>3. CASE conn[f].len > 0
    BY <1>2, <2>1, <2>2, <2>3, TransfersAssumption
  <2>4. CASE exists[f]
    <3>1. conn[f].from = Size
      BY <1>0, <1>2, <2>4 DEF Settled, AtDisk
    <3> QED
      BY <2>1, <2>2, <3>1, TransfersAssumption
  <2>5. CASE ~(exists[f] \/ conn[f].len > 0)
    <3>1. exists[f] \/ f \in left
      BY <1>0, <1>2 DEF Settled, AtDisk
    <3> QED
      BY <1>2, <2>5, <3>1
  <2> QED
    BY <2>3, <2>4, <2>5
<1>10. Settled(f)'
  BY <1>2, <1>4, <1>8, <1>9 DEF Settled, AtDisk
<1>11. /\ exists' \in [Files -> BOOLEAN] /\ result # "SUCCEED"
       /\ \A g \in Files \ {f} : g \in left' <=> g \in left
  BY <1>0, <1>2, AtWorkLoading DEF Phases
<1> QED
  BY <1>2, <1>3, <1>4, <1>5, <1>7, <1>10, <1>11, ThreadLoads

\* Blocks in order are in order with the next one.
LEMMA NextBlock ==
    ASSUME NEW s \in Seq(Nat), \A b \in 1..Len(s) : s[b] = b
    PROVE  LET t == Append(s, Len(s) + 1)
           IN t \in Seq(Nat) /\ Len(t) = Len(s) + 1 /\ \A b \in 1..Len(t) : t[b] = b
<1> DEFINE t == Append(s, Len(s) + 1)
<1>1. Len(s) \in Nat /\ Len(s) + 1 \in Nat
  OBVIOUS
<1>2. t \in Seq(Nat) /\ Len(t) = Len(s) + 1 /\ t[Len(s) + 1] = Len(s) + 1
  BY <1>1
<1>3. \A b \in 1..Len(s) : t[b] = s[b]
  BY <1>1
<1> HIDE DEF t
<1>4. \A b \in 1..Len(t) : t[b] = b
  BY <1>1, <1>2, <1>3
<1> QED
  BY <1>2, <1>4 DEF t

\* A block is received of those that were sent, and is the next one.
LEMMA ReceiveLoads ==
    ASSUME LoadInv, NEW f \in Files, Receive(f)
    PROVE  LoadInv'
<1> DEFINE block == conn[f].from + conn[f].got + 1
           blocks == Append(disk[f], block)
<1>0. CountInv /\ CountInv' /\ Phases /\ Bounded(f) /\ InOrder(f) /\ Settled(f)
  BY ReceiveKeeps DEF LoadInv
<1>1. DiskTyped /\ Written(f) /\ \A s \in Seq(Nat) : s # Absent
  BY <1>0, NotAbsent DEF CountInv
<1>2. /\ disk' = [disk EXCEPT ![f] = blocks] /\ job' = [job EXCEPT ![f] = "counting"]
      /\ job[f] = "asking" /\ conn[f].got < conn[f].sent
      /\ UNCHANGED <<cache, conn, torn, phase, result, left, exists>>
  BY DEF Receive, Flush, Unread
<1>3. /\ disk'[f] = blocks /\ job'[f] = "counting"
      /\ \A g \in Files \ {f} : disk'[g] = disk[g] /\ job'[g] = job[g]
  BY <1>1, <1>2 DEF DiskTyped
<1>4. \A g \in Files \ {f} : Rests(g)
  BY <1>0, <1>2, <1>3, OthersRest
<1>5. /\ conn[f] \in Conn /\ disk[f] \in Seq(Nat) /\ disk[f] # Absent
      /\ conn[f].from + conn[f].sent <= Size
      /\ conn[f].from \in Nat /\ conn[f].sent \in Nat /\ conn[f].got \in Nat
  BY <1>0, <1>1, <1>2 DEF Written, AtDisk, Bounded, Sane, Conn
<1>6. Bounded(f)'
  BY <1>0, <1>2 DEF Bounded
<1>7. InOrder(f)'
  <2> SUFFICES ASSUME f \notin torn
               PROVE  Prefix(f)' /\ Len(blocks) = block
    BY <1>2, <1>3 DEF InOrder, AtDisk
  <2>1. Prefix(f) /\ Len(disk[f]) = conn[f].from + conn[f].got
    BY <1>0, <1>2, <1>5 DEF InOrder, AtDisk, Conn
  <2>2. Len(disk[f]) \in Nat /\ block = Len(disk[f]) + 1 /\ block <= Size
    <3> DEFINE from == conn[f].from
               got == conn[f].got
               sent == conn[f].sent
               len == Len(disk[f])
    <3>1. len \in Nat
      BY <1>5
    <3>2. from + sent <= Size /\ from \in Nat /\ sent \in Nat /\ got \in Nat /\ got < sent
      BY <1>2, <1>5
    <3>3. len = from + got /\ block = from + got + 1
      BY <2>1
    <3>4. Size \in Nat
      BY TransfersAssumption
    <3> HIDE DEF from, got, sent, len, block
    <3>5. block = len + 1 /\ block <= Size
      BY <3>1, <3>2, <3>3, <3>4
    <3> QED
      BY <3>1, <3>5 DEF len
  <2>3. \A b \in 1..Len(disk[f]) : disk[f][b] = b
    BY <2>1 DEF Prefix
  <2>4. /\ blocks \in Seq(Nat) /\ Len(blocks) = block
        /\ \A b \in 1..Len(blocks) : blocks[b] = b
    BY <1>5, <2>2, <2>3, NextBlock
  <2> HIDE DEF blocks, block
  <2> QED
    BY <1>3, <2>2, <2>4 DEF Prefix
<1>8. Settled(f)'
  <2>1. f \in left
    <3>1. ~exists[f]
      BY <1>0, <1>2, <1>5, TransfersAssumption DEF Settled, AtDisk
    <3> QED
      BY <1>0, <1>2, <3>1 DEF Settled, AtDisk
  <2> QED
    BY <1>0, <1>2, <1>3, <2>1 DEF Settled, AtDisk
<1>9. exists' \in [Files -> BOOLEAN] /\ result # "SUCCEED"
  BY <1>0, <1>2, AtWorkLoading DEF Phases
<1> QED
  BY <1>0, <1>2, <1>3, <1>4, <1>6, <1>7, <1>8, <1>9, ThreadLoads

\* A file is opened where it ends: at the count it has, at its size, or empty.
LEMMA OpenLoads ==
    ASSUME LoadInv, NEW f \in Files, Open(f)
    PROVE  LoadInv'
<1>0. CountInv /\ CountInv' /\ Phases /\ Bounded(f) /\ InOrder(f) /\ Settled(f)
  BY OpenKeeps DEF LoadInv
<1>1. DiskTyped /\ DiskTyped' /\ Behind(f) /\ Written(f)' /\ Size \in Nat
  BY <1>0, TransfersAssumption DEF CountInv
<1>2. /\ job[f] = "queued" /\ UNCHANGED <<phase, result>>
      /\ cache' = [cache EXCEPT ![f] = 0] /\ job' = [job EXCEPT ![f] = "asking"]
  BY DEF Open
<1>3. /\ cache'[f] = 0 /\ job'[f] = "asking"
      /\ \A g \in Files \ {f} : cache'[g] = cache[g] /\ job'[g] = job[g]
  BY <1>1, <1>2 DEF DiskTyped
<1>4. /\ conn'[f] \in Conn /\ disk'[f] \in Seq(Nat) /\ disk'[f] # Absent
      /\ conn'[f].from \in Nat
  BY <1>1, <1>3, NotAbsent DEF Written, AtDisk, Conn
<1>5. \A g \in Files \ {f} : /\ disk'[g] = disk[g] /\ conn'[g] = conn[g]
                             /\ exists'[g] = exists[g]
                             /\ g \in torn' <=> g \in torn
                             /\ g \in left' <=> g \in left
  BY <1>0, <1>1 DEF Open, Resume, Existing, Afresh, Ask, DiskTyped, Phases
<1>6. /\ conn'[f].sent = 0 /\ conn'[f].got = 0 /\ conn'[f].len = Size
      /\ conn'[f].at \in {"queued", "refused"}
  BY <1>1 DEF Open, Resume, Existing, Afresh, Ask, DiskTyped
<1>7. /\ exists' \in [Files -> BOOLEAN]
      /\ conn'[f].from <= Size
      /\ exists'[f] => conn'[f].from = Size
      /\ f \in left' \/ (exists'[f] /\ Len(disk'[f]) = Size)
      /\ f \notin torn' => Len(disk'[f]) = conn'[f].from /\ Prefix(f)'
  <2>0. f \in left /\ conn \in [Files -> MaybeConn] /\ exists \in [Files -> BOOLEAN]
    BY <1>0, <1>1, <1>2 DEF Settled, DiskTyped, Phases
  <2>1. CASE Resume(f)
    <3>1. /\ conn'[f].from = cache[f] /\ cache[f] # None /\ left' = left
          /\ exists' = [exists EXCEPT ![f] = FALSE]
          /\ disk'[f] = IF disk[f] = Absent THEN <<>> ELSE disk[f]
          /\ torn' = IF Len(disk'[f]) > cache[f] THEN torn \cup {f} ELSE torn
      BY <1>1, <2>0, <2>1 DEF Resume, Ask, DiskTyped
    <3>2. exists' \in [Files -> BOOLEAN] /\ ~exists'[f] /\ conn'[f].from <= Size
      BY <1>0, <2>0, <3>1 DEF Bounded
    <3>3. ASSUME f \notin torn'
          PROVE  Len(disk'[f]) = conn'[f].from /\ Prefix(f)'
      <4>1. f \notin torn /\ ~(Len(disk'[f]) > cache[f])
        BY <3>1, <3>3
      <4>2. cache[f] \in Nat /\ Len(disk'[f]) \in Nat /\ Len(<<>>) = 0
        BY <1>1, <1>4, <3>1 DEF DiskTyped
      <4>3. CASE disk[f] = Absent
        <5>1. disk'[f] = <<>> /\ cache[f] = 0
          BY <1>1, <3>1, <4>2, <4>3 DEF Behind
        <5>2. Prefix(f)'
          BY <1>1, <1>4, <4>2, <5>1 DEF Prefix
        <5> QED
          BY <3>1, <4>2, <5>1, <5>2
      <4>4. CASE disk[f] # Absent
        <5>1. disk'[f] = disk[f] /\ (cache[f] > 0 => cache[f] <= Len(disk[f]))
          BY <1>1, <3>1, <4>4 DEF Behind
        <5>2. Prefix(f)'
          BY <1>0, <4>1, <4>4, <5>1 DEF InOrder, Prefix
        <5>3. Len(disk'[f]) = cache[f]
          BY <4>1, <4>2, <5>1
        <5> QED
          BY <3>1, <5>2, <5>3
      <4> QED
        BY <4>3, <4>4
    <3>4. f \in left' /\ (exists'[f] => FALSE)
      BY <2>0, <3>1, <3>2
    <3> QED
      BY <3>2, <3>3, <3>4
  <2>2. CASE Existing(f)
    <3>1. /\ conn'[f].from = Size /\ disk[f] # Absent /\ Len(disk[f]) = Size
          /\ disk' = disk /\ torn' = torn
          /\ exists' = [exists EXCEPT ![f] = TRUE]
      BY <1>1, <2>0, <2>2 DEF Existing, Ask
    <3>2. exists' \in [Files -> BOOLEAN] /\ exists'[f]
      BY <2>0, <3>1
    <3>3. f \notin torn' => Prefix(f)'
      BY <1>0, <3>1 DEF InOrder, Prefix
    <3> QED
      BY <1>1, <3>1, <3>2, <3>3
  <2>3. CASE Afresh(f)
    <3>1. /\ conn'[f].from = 0 /\ disk'[f] = <<>> /\ left' = left
          /\ exists' = [exists EXCEPT ![f] = FALSE]
      BY <1>1, <2>0, <2>3 DEF Afresh, Ask, DiskTyped
    <3>2. exists' \in [Files -> BOOLEAN] /\ ~exists'[f]
      BY <2>0, <3>1
    <3>3. Len(<<>>) = 0
      OBVIOUS
    <3>4. Prefix(f)'
      BY <1>1, <1>4, <3>1, <3>3 DEF Prefix
    <3>5. f \in left' /\ (exists'[f] => FALSE) /\ conn'[f].from <= Size
      BY <1>1, <2>0, <3>1, <3>2
    <3>6. Len(disk'[f]) = conn'[f].from
      BY <3>1, <3>3
    <3> QED
      BY <3>2, <3>4, <3>5, <3>6
  <2> QED
    BY <2>1, <2>2, <2>3 DEF Open
<1>8. \A g \in Files \ {f} : Rests(g)
  BY <1>0, <1>3, <1>5, OthersRest
<1>9. Bounded(f)'
  BY <1>1, <1>3, <1>4, <1>6, <1>7 DEF Bounded, Sane
<1>10. InOrder(f)'
  BY <1>3, <1>4, <1>6, <1>7 DEF InOrder
<1>11. phase = "loading" /\ result # "SUCCEED"
  BY <1>2, AtWorkLoading
<1>12. Settled(f)'
  BY <1>2, <1>3, <1>4, <1>7, <1>11 DEF Settled, AtDisk
<1> QED
  BY <1>0, <1>2, <1>3, <1>5, <1>7, <1>8, <1>9, <1>10, <1>11, <1>12, ThreadLoads

\* The block counted is one that was sent.
LEMMA CountLoads ==
    ASSUME LoadInv, NEW f \in Files, Count(f)
    PROVE  LoadInv'
<1> DEFINE block == conn[f].from + conn[f].got + 1
<1>0. CountInv /\ CountInv' /\ Phases /\ Bounded(f) /\ InOrder(f) /\ Settled(f)
  BY CountKeeps DEF LoadInv
<1>1. DiskTyped /\ Written(f)
  BY <1>0 DEF CountInv
<1>2. /\ job[f] = "counting" /\ cache' = [cache EXCEPT ![f] = block]
      /\ UNCHANGED <<disk, torn, phase, result, left, exists>>
      /\ \/ Leaves(f) /\ Hangup(Files \ {f})
         \/ /\ job' = [job EXCEPT ![f] = "asking"]
            /\ conn' = [conn EXCEPT ![f] = Counted(conn[f])]
  BY DEF Count, Flush, BreakOff, Counted
<1>3. /\ conn[f] \in Conn /\ conn[f].got < conn[f].sent
      /\ conn[f].from + conn[f].sent <= Size /\ Sane(conn[f])
      /\ conn[f].from \in Nat /\ conn[f].sent \in Nat /\ conn[f].got \in Nat
      /\ disk[f] \in Seq(Nat) /\ Len(disk[f]) \in Nat
  BY <1>0, <1>1, <1>2 DEF Written, AtDisk, Bounded, Sane, Conn
<1>4. cache'[f] = block /\ block <= Size
  BY <1>1, <1>2, <1>3, TransfersAssumption DEF DiskTyped
<1>5. /\ \A g \in Files \ {f} : cache'[g] = cache[g] /\ job'[g] = job[g]
      /\ \/ job'[f] = "over" /\ conn'[f] = NoConn
         \/ job'[f] = "asking" /\ conn'[f] = Counted(conn[f])
  BY <1>1, <1>2 DEF Leaves, Hangup, DiskTyped
<1>6. \A g \in Files \ {f} : Rests(g)
  <2>1. Hangup(Files \ {f}) \/ \A g \in Files \ {f} : conn'[g] = conn[g]
    BY <1>1, <1>2 DEF DiskTyped
  <2> QED
    BY <1>0, <1>2, <1>5, <2>1, OthersRest
<1>7. LET d == Counted(conn[f])
      IN /\ d \in Conn /\ d.from = conn[f].from /\ d.got = conn[f].got + 1
         /\ d.sent = conn[f].sent /\ d.len = conn[f].len /\ d.at = conn[f].at
  BY <1>3, CountedConn
<1>8. Sane(Counted(conn[f]))
  <2> DEFINE d == Counted(conn[f])
  <2>1. /\ d.from = conn[f].from /\ d.got = conn[f].got + 1
        /\ d.sent = conn[f].sent /\ d.len = conn[f].len /\ d.at = conn[f].at
    BY <1>7
  <2> HIDE DEF d
  <2>2. Sane(d)
    BY <1>3, <2>1 DEF Sane
  <2> QED
    BY <2>2 DEF d
<1>9. Bounded(f)'
  BY <1>4, <1>5, <1>8, NoConnNone DEF Bounded
<1>10. InOrder(f)'
  <2>1. f \notin torn /\ disk[f] # Absent => Prefix(f)'
    BY <1>0, <1>2 DEF InOrder, Prefix
  <2>2. f \notin torn => Len(disk[f]) = block
    BY <1>0, <1>2, <1>3 DEF InOrder, AtDisk
  <2>3. job'[f] \in AtDisk => /\ job'[f] = "asking"
                              /\ conn'[f].from + conn'[f].got = block
    <3>1. job'[f] \in AtDisk => /\ job'[f] = "asking" /\ conn'[f].from = conn[f].from
                                /\ conn'[f].got = conn[f].got + 1
      BY <1>5, <1>7 DEF AtDisk
    <3>2. conn[f].from + (conn[f].got + 1) = block
      BY <1>3
    <3> QED
      BY <3>1, <3>2
  <2>4. block + 0 = block
    BY <1>3
  <2> QED
    BY <1>2, <2>1, <2>2, <2>3, <2>4 DEF InOrder
<1>11. phase = "loading" /\ result # "SUCCEED"
  BY <1>2, AtWorkLoading
<1>12. Settled(f)'
  <2>1. f \in left
    <3>1. ~exists[f]
      BY <1>0, <1>2, <1>3, TransfersAssumption DEF Settled, AtDisk
    <3> QED
      BY <1>0, <1>2, <3>1 DEF Settled, AtDisk
  <2>2. exists'[f] => FALSE
    BY <1>0, <1>2, <1>3, TransfersAssumption DEF Settled, AtDisk
  <2> QED
    BY <1>2, <1>5, <1>11, <2>1, <2>2 DEF Settled, AtDisk
<1> QED
  BY <1>0, <1>2, <1>5, <1>6, <1>9, <1>10, <1>11, <1>12, ThreadLoads DEF Phases

\* The invariant of a download, step by step.
LEMMA LoadStep == LoadInv /\ [TransfersNext]_vars => LoadInv'
<1> SUFFICES ASSUME LoadInv, [TransfersNext]_vars PROVE LoadInv'
  OBVIOUS
<1>1. ASSUME NEW f \in Files, Skip(f) \/ Refuse(f) \/ Error(f) \/ Drop(f)
      PROVE  LoadInv'
  <2>1. /\ UNCHANGED <<disk, torn, phase, result, left, exists>> /\ Leaves(f)
        /\ cache' = cache \/ cache' = [cache EXCEPT ![f] = None]
        /\ job[f] # "over" /\ (Hangup(Files \ {f}) \/ conn' = conn)
    BY <1>1 DEF Skip, Refuse, Unread, BreakOff, Error, Drop, Fault, Forgets, diskVars
  <2> QED
    BY <2>1, LeaveLoads
<1>2. CASE TransfersNext
  BY <1>1, <1>2, WorkerLoads, ServerLoads, OpenLoads, ReceiveLoads, CountLoads,
     CompleteLoads DEF TransfersNext, Thread
<1>3. CASE UNCHANGED vars
  BY <1>3 DEF vars, diskVars, clientVars, LoadInv, CountInv, DiskTyped, Behind, Written,
              Phases, Bounded, InOrder, Prefix, Settled, Hopeful
<1> QED
  BY <1>2, <1>3

LEMMA LoadStarts == TransfersInit => LoadInv
<1> SUFFICES ASSUME TransfersInit PROVE LoadInv
  OBVIOUS
<1>1. CountInv
  BY CountStarts
<1>2. \A f \in Files : /\ cache[f] = None /\ job[f] = "over" /\ disk[f] = Absent
                       /\ conn[f] = NoConn
  BY DEF TransfersInit
<1>3. phase = "idle" /\ result = "none" /\ exists \in [Files -> BOOLEAN]
  BY DEF TransfersInit
<1> QED
  BY <1>1, <1>2, <1>3, NoConnNone
  DEF LoadInv, Phases, Bounded, InOrder, Settled, Hopeful, AtDisk

-----------------------------------------------------------------------------
(* What the server knows when the download succeeds.                       *)

\* The server knows that it has served f, or one of the excuses holds.
Heard(f) == f \in urls => f \in unheard \/ spinning[f] > 0

\* Who listens not has nothing left to serve.
Serving == /\ spinning \in [Files -> Nat] /\ urls \subseteq Files
           /\ up \in BOOLEAN /\ (~up => urls = {})

\* Only threads at work have connections; those that have got their answer, and
\* the files that were settled, the server knows of.
Answering(f) ==
    /\ job[f] \notin AtDisk => conn[f] = NoConn
    /\ conn[f].at \in {"closed", "idle"} => Heard(f)
    /\ Hopeful /\ job[f] = "over" /\ f \notin left => Heard(f)

HeardInv == LoadInv /\ Serving /\ \A f \in Files : Answering(f)

\* The server forgets nothing: it serves less, or spins more, or has served all.
Goes == /\ Serving' /\ urls' \subseteq urls /\ unheard \subseteq unheard'
        /\ urls' = {} \/ \A f \in Files : spinning[f] <= spinning'[f]

LEMMA GoesHears ==
    ASSUME Serving, Goes, NEW f \in Files, Heard(f)
    PROVE  Heard(f)'
<1>1. spinning[f] \in Nat /\ spinning'[f] \in Nat
  BY DEF Serving, Goes
<1> QED
  BY <1>1 DEF Heard, Goes

\* One more thread spins.
LEMMA SpinsGoes ==
    ASSUME Serving, NEW f \in Files, UNCHANGED <<urls, up>>, unheard \subseteq unheard',
           spinning' = [spinning EXCEPT ![f] = @ + 1]
    PROVE  Goes /\ Heard(f)'
<1>1. spinning' \in [Files -> Nat] /\ spinning'[f] = spinning[f] + 1
  BY DEF Serving
<1>2. \A g \in Files : spinning[g] <= spinning'[g]
  BY <1>1 DEF Serving
<1>3. spinning[f] + 1 > 0
  BY DEF Serving
<1> QED
  BY <1>1, <1>2, <1>3 DEF Serving, Goes, Heard

\* A file that counts as fetched.
LEMMA FetchedGoes ==
    ASSUME Serving, NEW f \in Files, Fetched(f), unheard \subseteq unheard'
    PROVE  Goes /\ Heard(f)'
<1>1. spinning' \in [Files -> Nat]
  BY DEF Fetched, Serving
<1>2. urls' = {} \/ spinning' = spinning
  BY DEF Fetched
<1> QED
  BY <1>1, <1>2 DEF Serving, Goes, Heard, Fetched

LEMMA StillGoes ==
    ASSUME Serving, UNCHANGED serverVars, unheard \subseteq unheard'
    PROVE  Goes
  BY DEF Serving, Goes, serverVars

LEMMA ServedGoes ==
    ASSUME Serving, NEW f \in Files, Served(f), unheard \subseteq unheard'
    PROVE  Goes
  BY SpinsGoes, FetchedGoes, StillGoes DEF Served, serverVars

\* What becomes of a thread's connection when another's has ended.
LEMMA OtherConns ==
    ASSUME HeardInv, Goes, NEW g \in Files,
           conn'[g] \in {conn[g], NoConn} \/ (~up' /\ conn'[g] = Closed(conn[g]))
    PROVE  conn'[g].at \in {"closed", "idle"} => Heard(g)'
<1>1. Answering(g) /\ Serving
  BY DEF HeardInv
<1>2. CASE conn'[g] = conn[g]
  BY <1>1, <1>2, GoesHears DEF Answering
<1>3. CASE conn'[g] = NoConn
  BY <1>3 DEF NoConn
<1>4. CASE ~up'
  BY <1>4 DEF Goes, Serving, Heard
<1> QED
  BY <1>2, <1>3, <1>4

\* A step of f's thread: what remains is to look at f.
LEMMA ThreadHears ==
    ASSUME HeardInv, LoadInv', Goes, NEW f \in Files, UNCHANGED <<phase, result>>,
           Hangup(Files \ {f}) \/ \A g \in Files \ {f} : conn'[g] = conn[g],
           \A g \in Files \ {f} : job'[g] = job[g] /\ (g \in left' <=> g \in left),
           Answering(f)'
    PROVE  HeardInv'
<1>1. ASSUME NEW g \in Files \ {f}
      PROVE  Answering(g)'
  <2>1. Answering(g) /\ Serving
    BY DEF HeardInv
  <2>2. conn'[g] = conn[g] \/ (~up' /\ conn'[g] = Closed(conn[g]))
    BY DEF Hangup
  <2>3. conn'[g].at \in {"closed", "idle"} => Heard(g)'
    BY <2>2, OtherConns
  <2>4. job'[g] \notin AtDisk => conn'[g] = NoConn
    BY <2>1, <2>2 DEF Answering, Closed, NoConn
  <2>5. Hopeful' /\ job'[g] = "over" /\ g \notin left' => Heard(g)'
    BY <2>1, GoesHears DEF Answering, Hopeful
  <2> QED
    BY <2>3, <2>4, <2>5 DEF Answering
<1> QED
  BY <1>1 DEF HeardInv, Goes

\* A thread that leaves its file, of which the server knows if it was settled.
LEMMA LeaveHears ==
    ASSUME HeardInv, LoadInv', Goes, NEW f \in Files, UNCHANGED <<phase, result>>,
           Hangup(Files \ {f}), Leaves(f), left' \in {left, left \ {f}},
           f \notin left' => Heard(f)'
    PROVE  HeardInv'
<1>1. job' = [job EXCEPT ![f] = "over"] /\ job \in [Files -> Job]
  BY DEF Leaves, HeardInv, LoadInv, CountInv, DiskTyped
<1>2. conn'[f] = NoConn
  BY DEF Hangup
<1>3. Answering(f)'
  BY <1>2 DEF Answering, NoConn
<1> QED
  BY <1>1, <1>3, ThreadHears

\* A thread whose file was settled when it was opened has nothing to receive.
LEMMA SettledHasAll ==
    ASSUME LoadInv, NEW f \in Files, job[f] \in AtDisk, f \notin left
    PROVE  /\ exists[f] /\ conn[f] \in Conn
           /\ ~(conn[f].got < conn[f].sent) /\ conn[f].at # "sending"
<1>1. CountInv /\ Bounded(f) /\ Settled(f) /\ Size \in Nat
  BY TransfersAssumption DEF LoadInv
<1>2. exists[f] /\ conn[f].from = Size /\ conn[f] \in Conn
  BY <1>1 DEF Settled, CountInv, Written
<1>3. /\ conn[f].from + conn[f].sent <= Size /\ (conn[f].at = "sending" => conn[f].from < Size)
      /\ conn[f].sent \in Nat /\ conn[f].got \in Nat
  BY <1>1, <1>2 DEF Bounded, Sane, Conn
<1> QED
  BY <1>1, <1>2, <1>3

\* The threads of the client, and the loss of a connection.
LEMMA ClientHears ==
    ASSUME HeardInv, NEW f \in Files, Thread(f) \/ Drop(f)
    PROVE  HeardInv'
<1>0. LoadInv /\ LoadInv' /\ Serving /\ Answering(f) /\ job \in [Files -> Job]
  <2>1. LoadInv'
    BY LoadStep DEF HeardInv, TransfersNext
  <2> QED
    BY <2>1 DEF HeardInv, LoadInv, CountInv, DiskTyped
<1>1. CASE Skip(f)
  <2>1. /\ UNCHANGED <<phase, result, left, conn, unheard, serverVars>>
        /\ job[f] = "queued" /\ Leaves(f)
    BY <1>1 DEF Skip, diskVars
  <2>2. f \in left /\ conn[f] = NoConn
    BY <1>0, <2>1 DEF LoadInv, Settled, Answering, AtDisk
  <2>3. Answering(f)'
    BY <2>1, <2>2 DEF Answering, NoConn
  <2>4. \A g \in Files \ {f} : job'[g] = job[g]
    BY <1>0, <2>1 DEF Leaves
  <2> QED
    BY <1>0, <2>1, <2>3, <2>4, StillGoes, ThreadHears
<1>2. CASE Open(f)
  <2>1. /\ UNCHANGED <<phase, result, unheard, serverVars>>
        /\ job' = [job EXCEPT ![f] = "asking"] /\ left' \in {left, left \ {f}}
        /\ \E from, ranged : Ask(f, from, ranged)
    BY <1>2 DEF Open, Resume, Existing, Afresh
  <2>2. /\ conn'[f].at \in {"queued", "refused"} /\ job'[f] = "asking"
        /\ \A g \in Files \ {f} : conn'[g] = conn[g] /\ job'[g] = job[g]
    BY <1>0, <2>1 DEF Ask, LoadInv, CountInv, DiskTyped
  <2>3. Answering(f)'
    BY <2>2 DEF Answering, AtDisk
  <2> QED
    BY <1>0, <2>1, <2>2, <2>3, StillGoes, ThreadHears
<1>3. CASE Receive(f)
  <2>1. /\ UNCHANGED <<phase, result, unheard, serverVars, left, conn>>
        /\ job' = [job EXCEPT ![f] = "counting"] /\ job[f] = "asking"
    BY <1>3 DEF Receive, Unread, Flush
  <2>2. job'[f] = "counting" /\ \A g \in Files \ {f} : job'[g] = job[g]
    BY <1>0, <2>1
  <2>3. Goes
    BY <1>0, <2>1, StillGoes
  <2>4. Answering(f)'
    <3>1. conn'[f].at \in {"closed", "idle"} => Heard(f)'
      BY <1>0, <2>1, <2>3, GoesHears DEF Answering
    <3> QED
      BY <2>2, <3>1 DEF Answering, AtDisk
  <2> QED
    BY <1>0, <2>1, <2>2, <2>3, <2>4, ThreadHears
<1>4. ASSUME BreakOff(f), UNCHANGED <<phase, result, unheard, left>>,
             job[f] \in AtDisk, conn[f].got < conn[f].sent
      PROVE  HeardInv'
  <2>1. f \in left
    BY <1>0, <1>4, SettledHasAll
  <2>2. Goes
    BY <1>0, <1>4, ServedGoes DEF BreakOff
  <2> QED
    BY <1>0, <1>4, <2>1, <2>2, LeaveHears DEF BreakOff
<1>5. CASE Refuse(f)
  BY <1>4, <1>5 DEF Refuse, Unread, AtDisk, diskVars
<1>6. CASE Count(f)
  <2>1. /\ UNCHANGED <<phase, result, unheard, left>>
        /\ job[f] \in AtDisk /\ conn[f].got < conn[f].sent
    BY <1>0, <1>6 DEF Count, AtDisk, LoadInv, Bounded
  <2>2. CASE BreakOff(f)
    BY <1>4, <2>1, <2>2
  <2>3. CASE /\ job' = [job EXCEPT ![f] = "asking"]
             /\ conn' = [conn EXCEPT ![f].got = @ + 1]
             /\ UNCHANGED <<status, serverVars>>
    <3>1. /\ job'[f] = "asking"
          /\ \A g \in Files \ {f} : job'[g] = job[g] /\ conn'[g] = conn[g]
      BY <1>0, <2>3 DEF LoadInv, CountInv, DiskTyped
    <3>2. conn[f] \in Conn /\ conn'[f] = Counted(conn[f])
      BY <1>0, <2>1, <2>3 DEF LoadInv, CountInv, DiskTyped, Written, Counted
    <3>3. conn'[f].at = conn[f].at
      BY <3>2, CountedConn
    <3>4. Goes
      BY <1>0, <2>1, <2>3, StillGoes
    <3>5. Answering(f)'
      <4>1. conn'[f].at \in {"closed", "idle"} => Heard(f)'
        BY <1>0, <3>3, <3>4, GoesHears DEF Answering
      <4> QED
        BY <3>1, <4>1 DEF Answering, AtDisk
    <3> QED
      BY <1>0, <2>1, <3>1, <3>4, <3>5, ThreadHears
  <2> QED
    BY <1>6, <2>2, <2>3 DEF Count
<1>7. CASE Complete(f)
  <2>1. /\ UNCHANGED <<phase, result, unheard, serverVars>> /\ Leaves(f)
        /\ Hangup(Files \ {f}) /\ left' \in {left, left \ {f}}
        /\ conn[f].at \in {"closed", "idle"}
    BY <1>7 DEF Complete
  <2>2. Goes
    BY <1>0, <2>1, StillGoes
  <2>3. Heard(f)'
    BY <1>0, <2>1, <2>2, GoesHears DEF Answering
  <2> QED
    BY <1>0, <2>1, <2>2, <2>3, LeaveHears
<1>8. CASE Error(f) \/ Drop(f)
  <2>1. /\ UNCHANGED <<phase, result, left>> /\ Leaves(f) /\ Hangup(Files \ {f})
        /\ job[f] = "asking"
        /\ unheard' = IF exists[f] /\ conn[f].at \in {"queued", "refused"}
                        THEN unheard \cup {f} ELSE unheard
        /\ UNCHANGED serverVars \/ Served(f)
    BY <1>8 DEF Error, Drop, Fault
  <2>2. Goes
    BY <1>0, <2>1, StillGoes, ServedGoes
  <2>3. ASSUME f \notin left
        PROVE  Heard(f)'
    <3>1. exists[f] /\ conn[f] \in Conn /\ conn[f].at # "sending"
      BY <1>0, <2>1, <2>3, SettledHasAll DEF AtDisk
    <3>2. CASE conn[f].at \in {"queued", "refused"}
      BY <2>1, <3>1, <3>2 DEF Heard
    <3>3. CASE conn[f].at \in {"closed", "idle"}
      BY <1>0, <2>2, <3>3, GoesHears DEF Answering
    <3> QED
      BY <3>1, <3>2, <3>3 DEF Conn, States
  <2> QED
    BY <1>0, <2>1, <2>2, <2>3, LeaveHears
<1> QED
  BY <1>1, <1>2, <1>3, <1>5, <1>6, <1>7, <1>8 DEF Thread

\* The client's worker thread.  A new download forgets who was unheard, when no
\* connection is left; one that crashes has no result.
LEMMA WorkerHears ==
    ASSUME HeardInv, Download \/ Terminate \/ Join \/ Finish \/ Break \/ Crash
    PROVE  HeardInv'
<1>0. /\ LoadInv' /\ Serving /\ Phases
      /\ \A g \in Files : Answering(g) /\ Settled(g)
  <2>1. LoadInv'
    BY LoadStep DEF HeardInv, TransfersNext
  <2> QED
    BY <2>1 DEF HeardInv, LoadInv
<1>1. CASE Download
  <2>1. /\ phase = "idle" /\ UNCHANGED <<conn, serverVars>>
        /\ left' = Files /\ job' = [g \in Files |-> "queued"]
    BY <1>1 DEF Download, Attempt
  <2>2. \A g \in Files : conn[g] = NoConn
    BY <1>0, <2>1 DEF Settled, Answering, AtDisk
  <2>3. \A g \in Files : Answering(g)'
    BY <2>1, <2>2 DEF Answering, NoConn
  <2> QED
    BY <1>0, <2>1, <2>3 DEF HeardInv, Serving, serverVars
<1>2. CASE Terminate \/ Crash
  <2>1. /\ phase = "loading" /\ phase' = "idle" /\ UNCHANGED <<result, unheard>>
        /\ \/ conn' = [g \in Files |-> NoConn] /\ UNCHANGED serverVars
           \/ \E f \in Files : Served(f) /\ Hangup({})
    BY <1>2 DEF Terminate, Crash, diskVars
  <2>2. ~Hopeful'
    BY <1>0, <2>1 DEF Phases, Hopeful
  <2>3. Serving'
    BY <1>0, <2>1, StillGoes, ServedGoes DEF Goes
  <2>4. \A g \in Files : conn'[g] = NoConn
    BY <2>1 DEF Hangup
  <2> QED
    BY <1>0, <2>2, <2>3, <2>4 DEF HeardInv, Answering, NoConn
<1>3. CASE Join \/ Break
  <2>1. UNCHANGED <<phase, result, left, job, conn, unheard, serverVars>>
    BY <1>3 DEF Join, Break, diskVars
  <2> QED
    BY <1>0, <2>1 DEF HeardInv, Serving, Answering, Heard, Hopeful, serverVars
<1>4. CASE Finish
  <2>1. /\ UNCHANGED <<conn, unheard, serverVars>> /\ phase = "loading"
        /\ \A g \in Files : job[g] = "over"
        /\ \/ left' = Files
           \/ UNCHANGED <<left, job>>
        /\ \/ job' = [g \in Files |-> "queued"]
           \/ job' = job
    BY <1>4 DEF Finish, Attempt, diskVars
  <2>2. ASSUME NEW g \in Files
        PROVE  Answering(g)'
    <3>1. conn[g] = NoConn /\ (Heard(g)' <=> Heard(g))
      BY <1>0, <2>1 DEF Answering, AtDisk, Heard, serverVars
    <3>2. g \notin left' => Heard(g)'
      BY <1>0, <2>1, <3>1 DEF Answering, Hopeful
    <3> QED
      BY <2>1, <3>1, <3>2 DEF Answering, NoConn
  <2> QED
    BY <1>0, <2>1, <2>2 DEF HeardInv, Serving, serverVars
<1> QED
  BY <1>1, <1>2, <1>3, <1>4

\* The server: it answers when it has served the file, or spins for it; when it
\* begins anew, those it had to do with are unheard.
LEMMA ServerHears ==
    ASSUME HeardInv, Distribute \/ \E f \in Files : Server(f)
    PROVE  HeardInv'
<1>0. /\ LoadInv /\ LoadInv' /\ Serving /\ \A g \in Files : Answering(g)
      /\ conn \in [Files -> MaybeConn]
  <2>1. LoadInv'
    BY LoadStep DEF HeardInv, TransfersNext
  <2> QED
    BY <2>1 DEF HeardInv, LoadInv, CountInv, DiskTyped
<1>1. CASE Distribute
  <2>1. /\ urls' = Files /\ up' = TRUE /\ spinning' = [g \in Files |-> 0]
        /\ unheard' = unheard \cup (Files \ left) \cup {g \in Files : conn[g] # NoConn}
        /\ conn' = [g \in Files |-> Closed(conn[g])] /\ UNCHANGED clientVars
    BY <1>1 DEF Distribute
  <2>2. Serving'
    BY <2>1 DEF Serving
  <2>3. ASSUME NEW g \in Files
        PROVE  Answering(g)'
    <3>1. job'[g] \notin AtDisk => conn'[g] = NoConn
      BY <1>0, <2>1 DEF Answering, Closed, NoConn, clientVars
    <3>2. conn[g] # NoConn \/ g \notin left => Heard(g)'
      BY <2>1 DEF Heard
    <3>3. conn[g] = NoConn => conn'[g].at = "none"
      BY <2>1 DEF Closed, NoConn
    <3> QED
      BY <2>1, <3>1, <3>2, <3>3 DEF Answering, clientVars
  <2> QED
    BY <1>0, <2>2, <2>3 DEF HeardInv
<1>2. ASSUME NEW f \in Files, conn[f] # NoConn, UNCHANGED <<diskVars, clientVars>>, Goes,
             \A g \in Files \ {f} : conn'[g] = conn[g] \/ (~up' /\ conn'[g] = Closed(conn[g])),
             conn'[f].at \in {"closed", "idle"} => Heard(f)'
      PROVE  HeardInv'
  <2>1. UNCHANGED <<phase, result, left, job>>
    BY <1>2 DEF clientVars
  <2>2. ASSUME NEW g \in Files
        PROVE  Answering(g)'
    <3>1. job'[g] \notin AtDisk => conn'[g] = NoConn
      <4>1. job[g] \notin AtDisk => conn[g] = NoConn /\ g # f
        BY <1>0, <1>2 DEF Answering
      <4>2. conn[g] = NoConn => Closed(conn[g]) = NoConn
        BY DEF Closed, NoConn
      <4> QED
        BY <1>2, <2>1, <4>1, <4>2
    <3>2. conn'[g].at \in {"closed", "idle"} => Heard(g)'
      BY <1>2, OtherConns
    <3>3. Hopeful' /\ job'[g] = "over" /\ g \notin left' => Heard(g)'
      BY <1>0, <1>2, <2>1, GoesHears DEF Answering, Hopeful
    <3> QED
      BY <3>1, <3>2, <3>3 DEF Answering
  <2> QED
    BY <1>0, <1>2, <2>2 DEF HeardInv, Goes
<1>3. ASSUME NEW f \in Files, conn[f] # NoConn, UNCHANGED <<diskVars, clientVars>>,
             UNCHANGED serverVars, \A g \in Files \ {f} : conn'[g] = conn[g],
             conn'[f].at \in {"closed", "idle"} => Heard(f)
      PROVE  HeardInv'
  <2>1. Goes
    BY <1>0, <1>3, StillGoes DEF diskVars
  <2> QED
    BY <1>0, <1>2, <1>3, <2>1, GoesHears
<1>4. ASSUME NEW f \in Files, conn[f] # NoConn, UNCHANGED <<diskVars, clientVars>>,
             Fetched(f), Answered(f)
      PROVE  HeardInv'
  <2>1. Goes /\ Heard(f)'
    BY <1>0, <1>4, FetchedGoes DEF diskVars
  <2>2. \A g \in Files \ {f} : conn'[g] = conn[g] \/ (~up' /\ conn'[g] = Closed(conn[g]))
    BY <1>4 DEF Answered
  <2> QED
    BY <1>2, <1>4, <2>1, <2>2
<1>5. ASSUME NEW f \in Files, Handle(f)
      PROVE  HeardInv'
  <2>1. conn[f] # NoConn /\ UNCHANGED <<diskVars, clientVars>>
    BY <1>5 DEF Handle, NoConn
  <2>2. CASE Unknown(f)
    <3>1. Heard(f) /\ UNCHANGED serverVars /\ \A g \in Files \ {f} : conn'[g] = conn[g]
      BY <1>0, <2>2 DEF Unknown, Heard
    <3> QED
      BY <1>3, <2>1, <3>1
  <2>3. CASE FromEnd(f)
    BY <1>4, <2>1, <2>3 DEF FromEnd
  <2>4. CASE Provide(f)
    <3>1. conn' = [conn EXCEPT ![f] = At(conn[f], "sending")] /\ UNCHANGED serverVars
      BY <2>4 DEF Provide, At
    <3>2. conn[f] \in Conn
      BY <1>0, <2>1 DEF MaybeConn
    <3>3. conn'[f].at = "sending" /\ \A g \in Files \ {f} : conn'[g] = conn[g]
      BY <1>0, <3>1, <3>2 DEF At, Conn
    <3> QED
      BY <1>3, <2>1, <3>1, <3>3
  <2> QED
    BY <1>5, <2>2, <2>3, <2>4 DEF Handle
<1>6. ASSUME NEW f \in Files, Send(f)
      PROVE  HeardInv'
  <2>1. /\ conn[f] # NoConn /\ UNCHANGED <<diskVars, clientVars, serverVars>>
        /\ conn' = [conn EXCEPT ![f] = Further(conn[f])] /\ conn[f].at = "sending"
    BY <1>6 DEF Send, NoConn, Further
  <2>2. conn[f] \in Conn
    BY <1>0, <2>1 DEF MaybeConn
  <2>3. conn'[f].at = "sending" /\ \A g \in Files \ {f} : conn'[g] = conn[g]
    BY <1>0, <2>1, <2>2 DEF Further, Conn
  <2> QED
    BY <1>3, <2>1, <2>3
<1>7. ASSUME NEW f \in Files, Release(f)
      PROVE  HeardInv'
  <2>1. conn[f] # NoConn /\ UNCHANGED <<diskVars, clientVars>>
    BY <1>7 DEF Release, NoConn
  <2>2. CASE /\ spinning' = [spinning EXCEPT ![f] = @ + 1]
             /\ conn' = [conn EXCEPT ![f].at = "idle"]
             /\ UNCHANGED <<urls, up>>
    <3>1. Goes /\ Heard(f)'
      BY <1>0, <2>1, <2>2, SpinsGoes DEF diskVars
    <3>2. \A g \in Files \ {f} : conn'[g] = conn[g]
      BY <1>0, <2>2
    <3> QED
      BY <1>2, <2>1, <3>1, <3>2
  <2>3. CASE Fetched(f) /\ Answered(f)
    BY <1>4, <2>1, <2>3
  <2> QED
    BY <1>7, <2>2, <2>3 DEF Release
<1> QED
  BY <1>1, <1>5, <1>6, <1>7 DEF Server

LEMMA HeardStarts == TransfersInit => HeardInv
<1> SUFFICES ASSUME TransfersInit PROVE HeardInv
  OBVIOUS
<1>1. LoadInv
  BY LoadStarts
<1>2. /\ urls = {} /\ up = FALSE /\ spinning = [f \in Files |-> 0]
      /\ conn = [f \in Files |-> NoConn]
  BY DEF TransfersInit
<1> QED
  BY <1>1, <1>2 DEF HeardInv, Serving, Answering, Heard, NoConn

LEMMA HeardStep == HeardInv /\ [TransfersNext]_vars => HeardInv'
<1> SUFFICES ASSUME HeardInv, [TransfersNext]_vars PROVE HeardInv'
  OBVIOUS
<1>1. CASE TransfersNext
  BY <1>1, ClientHears, WorkerHears, ServerHears DEF TransfersNext
<1>2. CASE UNCHANGED vars
  <2>1. LoadInv'
    BY LoadStep DEF HeardInv
  <2> QED
    BY <1>2, <2>1
    DEF vars, diskVars, clientVars, serverVars, HeardInv, Serving, Answering, Heard, Hopeful
<1> QED
  BY <1>1, <1>2

\* What is known of a download that has succeeded.
LEMMA HeardMeans == HeardInv => Distributed
<1> SUFFICES ASSUME HeardInv, result = "SUCCEED", NEW f \in urls
             PROVE  f \in unheard \cup {g \in Files : spinning[g] > 0}
  BY DEF Distributed
<1>1. f \in Files /\ left = {} /\ phase # "loading"
  BY DEF HeardInv, Serving, LoadInv, Phases
<1>2. job[f] = "over"
  BY <1>1 DEF HeardInv, LoadInv, Settled
<1>3. Heard(f)
  BY <1>1, <1>2 DEF HeardInv, Answering, Hopeful
<1> QED
  BY <1>1, <1>3 DEF Heard

LEMMA LoadMeans ==
    ASSUME LoadInv, result = "SUCCEED", NEW f \in Files \ torn
    PROVE  disk[f] = Whole
<1>1. disk[f] # Absent /\ Len(disk[f]) = Size
  BY DEF LoadInv, Phases, Settled, Hopeful
<1>2. Prefix(f)
  BY <1>1 DEF LoadInv, InOrder
<1> QED
  BY <1>1, <1>2 DEF Prefix, Whole

-----------------------------------------------------------------------------
(* The first attempt of the first download: nothing is resumed and nothing *)
(* was there before, so that it meets none of the exceptions.              *)

First == rounds <= 1 /\ times = 0

\* No download has been asked for.
Pristine ==
    /\ phase = "idle" /\ result = "none" /\ times = 0
    /\ \A f \in Files : /\ disk[f] = Absent /\ cache[f] = None /\ job[f] = "over"
                        /\ conn[f] = NoConn

Begun == /\ rounds \in Nat /\ times \in Nat /\ shows \in Nat
         /\ rounds = 0 => Pristine
         /\ status = "CANCELED" => stop

\* A file that no attempt has opened before.
Fresh(f) ==
    /\ f \notin torn /\ ~exists[f] /\ spinning[f] = 0
    /\ job[f] = "queued" => cache[f] = None /\ disk[f] = Absent
    /\ conn[f] # NoConn => ~conn[f].ranged

\* Nothing has been distributed: nobody has got anything.
Unserved ==
    /\ ~up /\ urls = {}
    /\ \A f \in Files : conn[f].at \in {"none", "refused"}
    /\ First /\ phase = "loading" => left = Files
    /\ First /\ result = "SUCCEED" => Files = {}

\* The attempt has failed, or will, as f's request was refused.
Forlorn(f) ==
    status = "FAILED" \/ stop \/ (job[f] \in AtDisk /\ conn[f].at = "refused")

\* It does not succeed when a file is served anew behind its back.
Unaware(f) == f \in unheard => (phase = "loading" => Forlorn(f)) /\ result # "SUCCEED"

FirstInv ==
    /\ HeardInv /\ Begun
    /\ shows = 0 => Unserved
    /\ First => \A f \in Files : Fresh(f)
    /\ First /\ shows <= 1 => \A f \in Files : Unaware(f)

\* A connection that the server has closed is as it was, or closed.
LEMMA ClosedStays ==
    ASSUME NEW c \in MaybeConn
    PROVE  /\ c.at \in {"none", "refused"} => Closed(c) = c
           /\ c = NoConn <=> Closed(c) = NoConn
<1>1. CASE c = NoConn
  BY <1>1 DEF Closed, NoConn
<1>2. CASE c \in Conn
  <2>1. Closed(c) \in {c, At(c, "refused"), At(c, "closed")}
    BY DEF Closed, At
  <2>2. At(c, "refused") \in Conn /\ At(c, "closed") \in Conn
    BY <1>2 DEF At, Conn, States
  <2>3. Closed(c) # NoConn /\ c # NoConn
    BY <1>2, <2>1, <2>2, NoConnNone
  <2>4. c.at \in {"none", "refused"} => Closed(c) = c
    BY DEF Closed
  <2> QED
    BY <2>3, <2>4
<1> QED
  BY <1>1, <1>2 DEF MaybeConn

\* A step of f's thread leaves the other files' as they were, but that the
\* server may close their connections.
Beside(f) ==
    \A g \in Files \ {f} :
        /\ disk'[g] = disk[g] /\ cache'[g] = cache[g] /\ job'[g] = job[g]
        /\ exists'[g] = exists[g] /\ (g \in torn' <=> g \in torn)
        /\ conn'[g] = conn[g] \/ conn'[g] = Closed(conn[g])

LEMMA ThreadFrame ==
    ASSUME HeardInv, NEW f \in Files, Thread(f) \/ Drop(f)
    PROVE  /\ UNCHANGED <<rounds, shows, phase, result, times, stop>>
           /\ job[f] # "over" /\ phase = "loading" /\ result = "none"
           /\ UNCHANGED serverVars \/ Served(f)
           /\ Beside(f)
           /\ (status = "CANCELED" => stop) => (status' = "CANCELED" => stop)
           /\ status = "FAILED" => status' = "FAILED"
<1>0. DiskTyped /\ exists \in [Files -> BOOLEAN] /\ Settled(f) /\ Phases
  BY DEF HeardInv, LoadInv, CountInv, Phases
<1>1. UNCHANGED <<rounds, shows, phase, result, times, stop>> /\ job[f] # "over"
  BY DEF Thread, Skip, Open, Receive, Refuse, Unread, Count, Complete, Error, Fault,
         Drop, boundVars
<1>2. phase = "loading" /\ result = "none"
  BY <1>0, <1>1 DEF Settled, Phases
<1>3. UNCHANGED serverVars \/ Served(f)
  BY DEF Thread, Skip, Open, Receive, Refuse, BreakOff, Count, Complete, Error, Drop
<1>4. /\ (status = "CANCELED" => stop) => (status' = "CANCELED" => stop)
      /\ status = "FAILED" => status' = "FAILED"
  BY DEF Thread, Skip, Open, Receive, Refuse, BreakOff, Count, Complete, Error, Drop,
         Fault, Canceled, Done
<1>5. Beside(f)
  <2>1. ASSUME NEW g \in Files \ {f}
        PROVE  /\ disk'[g] = disk[g] /\ cache'[g] = cache[g] /\ job'[g] = job[g]
               /\ exists'[g] = exists[g] /\ (g \in torn' <=> g \in torn)
    BY <1>0 DEF DiskTyped, Thread, Skip, Open, Resume, Existing, Afresh, Receive, Flush,
           Refuse, BreakOff, Leaves, Count, Complete, Error, Drop, Fault, Forgets, diskVars
  <2>2. ASSUME NEW g \in Files \ {f}
        PROVE  conn'[g] = conn[g] \/ conn'[g] = Closed(conn[g])
    BY <1>0 DEF DiskTyped, Thread, Skip, Open, Resume, Existing, Afresh, Ask, Receive, Refuse,
           BreakOff, Hangup, Count, Complete, Error, Drop, Fault
  <2> QED
    BY <2>1, <2>2 DEF Beside
<1> QED
  BY <1>1, <1>2, <1>3, <1>4, <1>5

\* As long as no range was asked for, no thread of the server spins.
LEMMA Unspun ==
    ASSUME FirstInv, First, NEW f \in Files, Fetched(f) \/ Served(f) \/ UNCHANGED serverVars
    PROVE  \A g \in Files : spinning'[g] = 0
<1>1. /\ \A g \in Files : spinning[g] = 0 /\ (conn[g] # NoConn => ~conn[g].ranged)
  BY DEF FirstInv, Fresh
<1>2. spinning' = spinning \/ spinning' = [g \in Files |-> 0]
  BY <1>1 DEF Fetched, Served, serverVars, NoConn
<1> QED
  BY <1>1, <1>2

\* f's own thread asks for the whole file, and gives it up when refused.
LEMMA ThreadFresh ==
    ASSUME FirstInv, First, NEW f \in Files, Thread(f) \/ Drop(f)
    PROVE  /\ f \notin torn' /\ ~exists'[f] /\ job'[f] # "queued"
           /\ conn'[f] # NoConn => ~conn'[f].ranged
           /\ unheard' = unheard
           /\ Forlorn(f) => Forlorn(f)'
           /\ left' = left \/ conn[f].at \in {"closed", "idle"}
<1>0. /\ DiskTyped /\ exists \in [Files -> BOOLEAN] /\ Fresh(f) /\ Written(f)
      /\ status = "CANCELED" => stop
  BY DEF FirstInv, Begun, HeardInv, LoadInv, CountInv, Phases
<1>1. stop' = stop /\ (status = "FAILED" => status' = "FAILED")
  BY ThreadFrame DEF FirstInv
<1>2. CASE Skip(f)
  <2>1. UNCHANGED <<torn, unheard, exists, conn, left>> /\ job[f] = "queued" /\ job'[f] = "over"
    BY <1>0, <1>2 DEF Skip, Leaves, diskVars, DiskTyped
  <2> QED
    BY <1>0, <1>1, <2>1 DEF Fresh, Forlorn, AtDisk
<1>3. CASE Open(f)
  <2>1. Afresh(f) /\ job[f] = "queued" /\ unheard' = unheard /\ job'[f] = "asking"
    BY <1>0, <1>3 DEF Open, Resume, Existing, Fresh, DiskTyped
  <2>2. /\ f \notin torn' /\ ~exists'[f] /\ left' = left /\ ~conn'[f].ranged
    BY <1>0, <2>1 DEF Afresh, Ask, DiskTyped
  <2> QED
    BY <1>1, <2>1, <2>2 DEF Forlorn, AtDisk
<1>4. CASE Receive(f)
  <2>1. UNCHANGED <<torn, unheard, exists, conn, left>> /\ job'[f] = "counting"
    BY <1>0, <1>4 DEF Receive, DiskTyped
  <2> QED
    BY <1>0, <1>1, <2>1 DEF Fresh, Forlorn, AtDisk
<1>5. ASSUME BreakOff(f), Done, UNCHANGED <<torn, unheard, exists, left>>
      PROVE  /\ f \notin torn' /\ ~exists'[f] /\ job'[f] # "queued" /\ conn'[f] = NoConn
             /\ unheard' = unheard /\ Forlorn(f)' /\ left' = left
  BY <1>0, <1>1, <1>5 DEF BreakOff, Leaves, Hangup, DiskTyped, Fresh, Forlorn, Done
<1>6. CASE Refuse(f)
  BY <1>5, <1>6 DEF Refuse, diskVars
<1>7. CASE Count(f)
  <2>1. UNCHANGED <<torn, unheard, exists, left>> /\ job[f] = "counting"
    BY <1>7 DEF Count
  <2>2. CASE Done /\ BreakOff(f)
    BY <1>5, <2>1, <2>2
  <2>3. CASE /\ job' = [job EXCEPT ![f] = "asking"]
             /\ conn' = [conn EXCEPT ![f].got = @ + 1]
    <3>1. conn[f] \in Conn /\ conn'[f] = Counted(conn[f]) /\ job'[f] = "asking"
      BY <1>0, <2>1, <2>3 DEF DiskTyped, Written, AtDisk, Counted
    <3>2. conn'[f].at = conn[f].at /\ conn'[f].ranged = conn[f].ranged
      BY <3>1, CountedConn
    <3>3. ~conn'[f].ranged
      BY <1>0, <3>1, <3>2, NoConnNone DEF Fresh
    <3> QED
      BY <1>0, <1>1, <2>1, <3>1, <3>2, <3>3 DEF Fresh, Forlorn, AtDisk
  <2> QED
    BY <1>7, <2>2, <2>3 DEF Count
<1>8. CASE Complete(f)
  <2>1. /\ UNCHANGED <<torn, unheard, exists>> /\ job'[f] = "over" /\ conn'[f] = NoConn
        /\ conn[f].at \in {"closed", "idle"}
    BY <1>0, <1>8 DEF Complete, Leaves, Hangup, DiskTyped
  <2> QED
    BY <1>0, <1>1, <2>1 DEF Fresh, Forlorn
<1>9. CASE Error(f) \/ Drop(f)
  <2>1. Fault(f)
    BY <1>9 DEF Error, Drop
  <2>2. /\ UNCHANGED <<torn, unheard, exists, left>> /\ job'[f] = "over" /\ conn'[f] = NoConn
        /\ status' = IF status = "CANCELED" THEN status ELSE "FAILED"
    BY <1>0, <2>1 DEF Fault, Leaves, Hangup, DiskTyped, Fresh
  <2> QED
    BY <1>0, <1>1, <2>2 DEF Fresh, Forlorn
<1> QED
  BY <1>2, <1>3, <1>4, <1>5, <1>6, <1>7, <1>8, <1>9 DEF Thread

\* A step of f's thread, when nothing has been distributed.
LEMMA ThreadUnserved ==
    ASSUME FirstInv, shows = 0, NEW f \in Files, Thread(f) \/ Drop(f)
    PROVE  Unserved'
<1>0. /\ DiskTyped /\ Unserved /\ Written(f) /\ Serving
  BY DEF FirstInv, HeardInv, LoadInv, CountInv
<1>1. /\ UNCHANGED <<rounds, phase, result, times>> /\ Beside(f) /\ result = "none"
      /\ UNCHANGED serverVars \/ Served(f)
  BY ThreadFrame DEF FirstInv
<1>2. UNCHANGED serverVars
  BY <1>0, <1>1 DEF Served, Unserved, serverVars
<1>3. \A g \in Files \ {f} : conn'[g].at \in {"none", "refused"}
  BY <1>0, <1>1, ClosedStays DEF Beside, Unserved, DiskTyped
<1>4. conn'[f].at \in {"none", "refused"}
  <2>1. conn'[f] = conn[f] \/ conn'[f] = NoConn \/ Open(f)
        \/ (job[f] = "counting" /\ conn' = [conn EXCEPT ![f].got = @ + 1])
    BY DEF Thread, Skip, Receive, Refuse, BreakOff, Hangup, Count, Complete, Error, Drop, Fault
  <2>2. CASE Open(f)
    BY <1>0, <2>2 DEF Open, Resume, Existing, Afresh, Ask, DiskTyped, Unserved
  <2>3. CASE job[f] = "counting" /\ conn' = [conn EXCEPT ![f].got = @ + 1]
    <3>1. conn[f] \in Conn /\ conn'[f] = Counted(conn[f])
      BY <1>0, <2>3 DEF DiskTyped, Written, AtDisk, Counted
    <3> QED
      BY <1>0, <3>1, CountedConn DEF Unserved
  <2> QED
    BY <1>0, <2>1, <2>2, <2>3 DEF Unserved, NoConn
<1>5. First => left' = left
  BY <1>0, ThreadFresh DEF Unserved
<1>6. First' <=> First
  BY <1>1 DEF First
<1> QED
  BY <1>0, <1>1, <1>2, <1>3, <1>4, <1>5, <1>6 DEF Unserved, serverVars

\* The threads of the client, and the loss of a connection.
LEMMA ThreadFirst ==
    ASSUME FirstInv, HeardInv', NEW f \in Files, Thread(f) \/ Drop(f)
    PROVE  FirstInv'
<1>0. DiskTyped /\ Begun /\ HeardInv
  BY DEF FirstInv, HeardInv, LoadInv, CountInv
<1>1. /\ UNCHANGED <<rounds, shows, phase, result, times, stop>>
      /\ phase = "loading" /\ result = "none" /\ Beside(f)
      /\ UNCHANGED serverVars \/ Served(f)
      /\ (status = "CANCELED" => stop) => (status' = "CANCELED" => stop)
      /\ status = "FAILED" => status' = "FAILED"
  BY <1>0, ThreadFrame
<1>2. Begun'
  BY <1>0, <1>1 DEF Begun, Pristine
<1>3. First' <=> First
  BY <1>1 DEF First
<1>4. ASSUME First, NEW g \in Files
      PROVE  Fresh(g)'
  <2>1. spinning'[g] = 0
    BY <1>1, <1>4, Unspun
  <2>2. CASE g = f
    BY <1>4, <2>1, <2>2, ThreadFresh DEF Fresh
  <2>3. CASE g # f
    <3>1. Fresh(g) /\ conn[g] \in MaybeConn
      BY <1>0, <1>4 DEF FirstInv, DiskTyped
    <3>2. conn'[g] # NoConn => conn[g] # NoConn /\ conn'[g].ranged = conn[g].ranged
      BY <1>1, <2>3, <3>1, ClosedStays, ClosedLike DEF Beside, Like, MaybeConn
    <3> QED
      BY <1>1, <2>1, <2>3, <3>1, <3>2 DEF Beside, Fresh
  <2> QED
    BY <2>2, <2>3
<1>5. ASSUME First, shows <= 1, NEW g \in Files
      PROVE  Unaware(g)'
  <2>1. unheard' = unheard /\ Unaware(g)
    BY <1>5, ThreadFresh DEF FirstInv
  <2>2. Forlorn(g) => Forlorn(g)'
    <3>1. CASE g = f
      BY <1>5, <3>1, ThreadFresh
    <3>2. CASE g # f
      <4>1. conn[g].at = "refused" => conn'[g].at = "refused"
        BY <1>0, <1>1, <3>2, ClosedStays DEF Beside, DiskTyped
      <4> QED
        BY <1>1, <3>2, <4>1 DEF Beside, Forlorn
    <3> QED
      BY <3>1, <3>2
  <2> QED
    BY <1>1, <2>1, <2>2 DEF Unaware
<1>6. shows = 0 => Unserved'
  BY ThreadUnserved
<1> QED
  BY <1>1, <1>2, <1>3, <1>4, <1>5, <1>6 DEF FirstInv

\* The server is asked for whole files only; what it begins to serve when it had
\* nothing is what has been refused.
LEMMA ServerFirst ==
    ASSUME FirstInv, HeardInv', Distribute \/ \E f \in Files : Server(f)
    PROVE  FirstInv'
<1>0. /\ DiskTyped /\ Begun /\ HeardInv /\ CountInv
  BY DEF FirstInv, HeardInv, LoadInv, CountInv
<1>1. /\ UNCHANGED <<rounds, disk, cache, torn, clientVars>>
      /\ \/ Distribute
         \/ shows' = shows /\ unheard' = unheard /\ \E f \in Files : Server(f)
  BY DEF Distribute, Server, Handle, Send, Release, boundVars, diskVars
<1>2. UNCHANGED <<phase, result, times, stop, status, left, job, exists>>
  BY <1>1 DEF clientVars
<1>3. \A g \in Files : Like(conn[g], conn'[g])
  BY <1>0, <1>1, ServerLike
<1>4. ASSUME NEW g \in Files
      PROVE  /\ conn[g] = NoConn => conn'[g] = NoConn
             /\ conn[g].at = "refused" => conn'[g].at = "refused"
  <2>1. CASE Distribute
    BY <1>0, <2>1, ClosedStays DEF Distribute, DiskTyped
  <2>2. ASSUME NEW f \in Files, Server(f)
        PROVE  /\ conn[g] = NoConn => conn'[g] = NoConn
               /\ conn[g].at = "refused" => conn'[g].at = "refused"
    <3>1. conn[f].at \in {"queued", "sending"} /\ conn[f] # NoConn
      BY <2>2 DEF Server, Handle, Send, Release, NoConn
    <3>2. g # f => conn'[g] = conn[g] \/ conn'[g] = Closed(conn[g])
      BY <1>0, <2>2
      DEF Server, Handle, Unknown, FromEnd, Provide, Send, Release, Answered, DiskTyped
    <3> QED
      BY <1>0, <3>1, <3>2, ClosedStays DEF DiskTyped
  <2> QED
    BY <2>1, <2>2
<1>5. Begun'
  <2>1. shows' \in Nat /\ (rounds' = 0 => Pristine)
    BY <1>0, <1>1 DEF Begun, Distribute
  <2> QED
    BY <1>0, <1>1, <1>2, <1>4, <2>1 DEF Begun, Pristine
<1>6. First' <=> First
  BY <1>1, <1>2 DEF First
<1>7. ASSUME First, NEW g \in Files
      PROVE  Fresh(g)'
  <2>1. Fresh(g) /\ conn[g] \in MaybeConn
    BY <1>0, <1>7 DEF FirstInv, DiskTyped
  <2>2. spinning'[g] = 0
    <3>1. CASE Distribute
      BY <3>1 DEF Distribute
    <3>2. ASSUME NEW f \in Files, Server(f)
          PROVE  spinning'[g] = 0
      <4>1. conn[f] # NoConn
        BY <3>2 DEF Server, Handle, Send, Release, NoConn
      <4>2. ~conn[f].ranged
        BY <1>7, <4>1 DEF FirstInv, Fresh
      <4>3. Fetched(f) \/ UNCHANGED serverVars
        BY <3>2, <4>2 DEF Server, Handle, Unknown, FromEnd, Provide, Send, Release
      <4> QED
        BY <1>7, <4>3, Unspun
    <3> QED
      BY <3>1, <3>2
  <2>3. conn'[g] # NoConn => conn[g] # NoConn /\ conn'[g].ranged = conn[g].ranged
    BY <1>3, <1>4, <2>1 DEF Like, MaybeConn
  <2> QED
    BY <1>1, <1>2, <2>1, <2>2, <2>3 DEF Fresh
<1>8. ASSUME First, shows' <= 1, NEW g \in Files
      PROVE  Unaware(g)'
  <2>1. Forlorn(g) => Forlorn(g)'
    BY <1>2, <1>4 DEF Forlorn
  <2>2. shows <= 1
    BY <1>0, <1>1, <1>8 DEF Begun, Distribute
  <2>3. g \in unheard => Unaware(g)'
    BY <1>2, <1>8, <2>1, <2>2 DEF FirstInv, Unaware
  <2>4. CASE Distribute /\ g \notin unheard
    <3>1. shows = 0
      BY <1>0, <1>8, <2>4 DEF Begun, Distribute
    <3>2. Unserved /\ Answering(g)
      BY <3>1 DEF FirstInv, HeardInv
    <3>3. result # "SUCCEED"
      BY <1>8, <3>2 DEF Unserved
    <3>4. ASSUME g \in unheard', phase = "loading"
          PROVE  Forlorn(g)
      <4>1. conn[g] # NoConn
        BY <1>8, <2>4, <3>2, <3>4 DEF Distribute, Unserved
      <4>2. job[g] \in AtDisk /\ conn[g].at # "none"
        BY <1>0, <3>2, <4>1 DEF Answering, DiskTyped, MaybeConn, Conn, States
      <4> QED
        BY <3>2, <4>2 DEF Forlorn, Unserved
    <3> QED
      BY <1>2, <2>1, <3>3, <3>4 DEF Unaware
  <2> QED
    BY <1>1, <2>3, <2>4 DEF Unaware
<1>9. shows' = 0 => Unserved'
  <2> SUFFICES ASSUME shows' = 0 PROVE Unserved'
    OBVIOUS
  <2>1. shows = 0 /\ \E f \in Files : Server(f)
    BY <1>0, <1>1 DEF Begun, Distribute
  <2>2. Unserved
    BY <2>1 DEF FirstInv
  <2> QED
    BY <2>1, <2>2 DEF Unserved, Server, Handle, Send, Release, FreeThread
<1> QED
  BY <1>5, <1>6, <1>7, <1>8, <1>9 DEF FirstInv

\* The client's worker thread: a further attempt is not the first, nor is a
\* further download.
LEMMA WorkerFirst ==
    ASSUME FirstInv, HeardInv', Download \/ Terminate \/ Join \/ Finish \/ Break \/ Crash
    PROVE  FirstInv'
<1>0. /\ DiskTyped /\ Begun /\ HeardInv /\ Phases /\ Serving
  BY DEF FirstInv, HeardInv, LoadInv, CountInv
<1>1. UNCHANGED <<shows, disk, cache, torn, exists>>
  BY DEF Download, Terminate, Join, Finish, Break, Crash, boundVars, diskVars
<1>2. CASE Download
  <2>1. /\ rounds' = rounds + 1 /\ times' = 0 /\ result' = "none" /\ status' = "SUCCEED"
        /\ left' = Files /\ UNCHANGED <<conn, urls, up, spinning>> /\ unheard' = {}
    BY <1>2 DEF Download, Attempt, serverVars
  <2>2. Begun'
    BY <1>0, <1>1, <2>1 DEF Begun
  <2>3. First' => First /\ Pristine
    BY <1>0, <2>1 DEF First, Begun, Pristine
  <2>4. ASSUME First', NEW g \in Files
        PROVE  Fresh(g)'
    BY <1>1, <2>1, <2>3, <2>4 DEF FirstInv, Fresh, Pristine
  <2>5. shows = 0 => Unserved'
    BY <2>1 DEF FirstInv, Unserved
  <2> QED
    BY <1>1, <2>1, <2>2, <2>4, <2>5 DEF FirstInv, Unaware
<1>3. CASE Terminate \/ Join \/ Finish \/ Break \/ Crash
  <2>1. phase = "loading" /\ result = "none" /\ rounds' = rounds /\ unheard' = unheard
    BY <1>0, <1>3 DEF Terminate, Join, Finish, Break, Crash, boundVars, diskVars, Phases
  <2>2. times' \in {times, times + 1} /\ (status' = "CANCELED" => stop')
    BY <1>0, <1>3 DEF Terminate, Join, Finish, Attempt, Break, Crash, Begun
  <2>3. Begun'
    BY <1>0, <1>1, <2>1, <2>2 DEF Begun, Pristine
  <2>4. First' => First /\ times' = times
    BY <1>0, <2>1, <2>2 DEF First, Begun
  <2>5. \/ UNCHANGED serverVars
        \/ \E f \in Files : Served(f)
    BY <1>3 DEF Terminate, Join, Finish, Break, Crash
  <2>6. conn' = conn \/ \A g \in Files : conn'[g] = NoConn
    BY <1>3 DEF Terminate, Join, Finish, Break, Crash, Hangup
  <2>7. ASSUME First'
        PROVE  /\ left' = left
               /\ job' = job \/ \A g \in Files : job'[g] = "over"
               /\ phase' = "idle" \/ (phase' = phase /\ result' = result /\ UNCHANGED <<conn, job>>
                                      /\ (status = "FAILED" => status' = "FAILED")
                                      /\ (stop => stop'))
               /\ result' = "SUCCEED" =>
                      /\ left = {} /\ status # "FAILED" /\ ~stop
                      /\ \A g \in Files : job[g] = "over"
    <3>1. times' = times /\ times + 1 # times
      BY <1>0, <2>4, <2>7 DEF Begun
    <3>2. CASE Terminate \/ Join \/ Break \/ Crash
      BY <2>1, <3>2 DEF Terminate, Join, Break, Crash
    <3>3. CASE Finish
      BY <2>1, <3>1, <3>3 DEF Finish, Canceled, Done
    <3> QED
      BY <1>3, <3>2, <3>3
  <2>8. ASSUME First', NEW g \in Files
        PROVE  Fresh(g)'
    <3>1. Fresh(g)
      BY <2>4, <2>8 DEF FirstInv
    <3>2. spinning'[g] = 0
      BY <2>4, <2>5, <2>8, Unspun
    <3> QED
      BY <1>1, <2>6, <2>7, <2>8, <3>1, <3>2 DEF Fresh
  <2>9. ASSUME First', shows <= 1, NEW g \in Files
        PROVE  Unaware(g)'
    <3>1. Unaware(g)
      BY <2>4, <2>9 DEF FirstInv
    <3> QED
      BY <2>1, <2>7, <2>9, <3>1 DEF Unaware, Forlorn, AtDisk
  <2>10. shows = 0 => Unserved'
    <3> SUFFICES ASSUME shows = 0 PROVE Unserved'
      OBVIOUS
    <3>1. Unserved
      BY DEF FirstInv
    <3>2. UNCHANGED serverVars
      BY <2>5, <3>1 DEF Served, Unserved, serverVars
    <3>3. \A g \in Files : conn'[g].at \in {"none", "refused"}
      BY <2>6, <3>1 DEF Unserved, NoConn
    <3>4. First' => (phase' = "loading" => left' = Files)
      BY <2>1, <2>4, <2>7, <3>1 DEF Unserved
    <3>5. First' => (result' = "SUCCEED" => Files = {})
      BY <2>1, <2>4, <2>7, <3>1 DEF Unserved
    <3> QED
      BY <3>1, <3>2, <3>3, <3>4, <3>5 DEF Unserved, serverVars
  <2> QED
    BY <1>1, <2>3, <2>8, <2>9, <2>10 DEF FirstInv
<1> QED
  BY <1>2, <1>3

LEMMA FirstStarts == TransfersInit => FirstInv
<1> SUFFICES ASSUME TransfersInit PROVE FirstInv
  OBVIOUS
<1>1. HeardInv
  BY HeardStarts
<1>2. Begun /\ shows = 0 /\ unheard = {}
  BY DEF TransfersInit, Begun, Pristine
<1>3. Unserved
  BY DEF TransfersInit, Unserved, NoConn
<1>4. \A f \in Files : Fresh(f)
  BY DEF TransfersInit, Fresh
<1> QED
  BY <1>1, <1>2, <1>3, <1>4 DEF FirstInv, Unaware

LEMMA FirstStep == FirstInv /\ [TransfersNext]_vars => FirstInv'
<1> SUFFICES ASSUME FirstInv, [TransfersNext]_vars PROVE FirstInv'
  OBVIOUS
<1>1. HeardInv'
  BY HeardStep DEF FirstInv
<1>2. CASE TransfersNext
  BY <1>1, <1>2, ThreadFirst, ServerFirst, WorkerFirst DEF TransfersNext
<1>3. CASE UNCHANGED vars
  BY <1>1, <1>3 DEF vars, boundVars, diskVars, clientVars, serverVars, FirstInv, Begun,
     Pristine, First, Fresh, Unserved, Unaware, Forlorn
<1> QED
  BY <1>2, <1>3

-----------------------------------------------------------------------------
\* A first download that succeeds at once has every file whole: no exception.
FirstIsWhole ==
    First /\ result = "SUCCEED" => \A f \in Files : disk[f] = Whole

\* When the files were distributed once, all count as fetched by then.
FirstIsDistributed ==
    First /\ shows <= 1 /\ result = "SUCCEED" => urls = {}

(***************************************************************************)
(* What a client that reports success has, for files of any number and     *)
(* size that do not change on the server.  After any crashes, breaks, lost *)
(* connections and resumptions: every file whole, block by block, but for  *)
(* those that were resumed at a count that had fallen behind what they     *)
(* held (they are torn: nothing is claimed of them).  In the first attempt *)
(* of the first download none is torn, whatever was lost: every file is    *)
(* whole.                                                                  *)
(***************************************************************************)
THEOREM SuccessAlwaysWhole == TransfersSpec => []SuccessIsWhole /\ []FirstIsWhole
<1>1. FirstInv => SuccessIsWhole /\ FirstIsWhole
  <2> SUFFICES ASSUME FirstInv PROVE SuccessIsWhole /\ FirstIsWhole
    OBVIOUS
  <2>1. result = "SUCCEED" => \A f \in Files \ torn : disk[f] = Whole
    BY LoadMeans DEF FirstInv, HeardInv
  <2>2. First => \A f \in Files : f \notin torn
    BY DEF FirstInv, Fresh
  <2> QED
    BY <2>1, <2>2 DEF SuccessIsWhole, FirstIsWhole
<1> QED
  BY <1>1, FirstStarts, FirstStep, PTL DEF TransfersSpec

(***************************************************************************)
(* What the server knows when its one client has succeeded.  After any     *)
(* distributions, downloads, crashes and lost connections: of every file   *)
(* that it was fetched, but for those it serves on for ever (they were     *)
(* resumed) and those settled behind its back (they were there already, or *)
(* it began anew).  In the first attempt of the first download, with the   *)
(* files distributed once, there are none: all are fetched.                *)
(***************************************************************************)
THEOREM AlwaysDistributed == TransfersSpec => []Distributed /\ []FirstIsDistributed
<1>1. FirstInv => Distributed /\ FirstIsDistributed
  <2> SUFFICES ASSUME FirstInv PROVE Distributed /\ FirstIsDistributed
    OBVIOUS
  <2>1. Distributed /\ Serving
    BY HeardMeans DEF FirstInv, HeardInv
  <2>2. ASSUME First, shows <= 1, result = "SUCCEED"
        PROVE  urls = {}
    <3>1. \A f \in Files : spinning[f] = 0 /\ f \notin unheard
      BY <2>2 DEF FirstInv, Fresh, Unaware
    <3> QED
      BY <2>1, <2>2, <3>1 DEF Distributed, Serving
  <2> QED
    BY <2>1, <2>2 DEF FirstIsDistributed
<1> QED
  BY <1>1, FirstStarts, FirstStep, PTL DEF TransfersSpec
=============================================================================
