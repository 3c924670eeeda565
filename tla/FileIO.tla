------------------------------- MODULE FileIO -------------------------------
(***************************************************************************)
(* The descriptors of IoFileMgrForUser (hle.c 832-1015): files of the disc *)
(* and files of the host's scratch directory, read, written and seeked     *)
(* through at most 63 descriptors, each with the result of its last        *)
(* asynchronous operation.  A file's contents are left out: a file is its  *)
(* length.                                                                 *)
(*                                                                         *)
(* A client is a guest thread with one file at a time.  Calls are atomic,  *)
(* for none of them blocks; other clients run between two of them.         *)
(***************************************************************************)
EXTENDS Integers, FiniteSets

CONSTANTS
    Clients,      \* guest threads
    MaxFd,        \* descriptors are 1..MaxFd (63 in the code)
    GuestPaths,   \* paths the guest opens
    DiscSize,     \* for the paths that are on the disc, the file's size
    HostName,     \* the host file a path is flattened to
    MaxLen,       \* bound: the longest host file
    Counts        \* lengths of reads and writes, and distances of seeks

Fds       == 1..MaxFd
HostFiles == {HostName[p] : p \in GuestPaths}
OnDisc    == "disc"     \* a descriptor without a host stream
NoResult  == -1         \* no asynchronous call to wait for
Missing   == -1         \* length of a host file that does not exist

ASSUME FileAssumption ==
    /\ MaxFd \in Nat \ {0}
    /\ MaxLen \in Nat
    /\ Counts \subseteq Nat
    /\ DOMAIN DiscSize \subseteq GuestPaths
    /\ \A p \in DOMAIN DiscSize : DiscSize[p] \in Nat
    /\ DOMAIN HostName = GuestPaths
    /\ OnDisc \notin HostFiles

\* The flags of sceIoOpen that make a difference.
OpenFlags == {{}, {"CREAT"}, {"WR", "TRUNC"}, {"WR", "APPEND"}}

VARIABLES
    fds,      \* s_fds, with the mode of the host stream
    closed,   \* s_closed_res
    len,      \* lengths of the host's files
    cli       \* per client: its descriptor, whether it is open, and, for the
              \* properties only, the result of its last asynchronous call and
              \* whether another has made one on its number since

fileVars == <<fds, closed, len, cli>>

Fd == [used : BOOLEAN, host : HostFiles \cup {OnDisc}, append : BOOLEAN,
       write : BOOLEAN, size : Nat, off : Nat, res : Int,
       \* for the properties only: the file may have changed behind this descriptor
       stale : BOOLEAN]

FileTypeOK ==
    /\ \A i \in Fds : fds[i] \in Fd
    /\ closed \in [Fds -> {0}]
    /\ \A h \in HostFiles : len[h] \in Missing..MaxLen
    /\ \A c \in Clients : /\ cli[c].fd \in Fds \cup {0}
                          /\ cli[c].open => cli[c].fd # 0
                          /\ cli[c].overtaken \in BOOLEAN

\* Of a free slot only the result can be read again.
FreeFd(r) == [used |-> FALSE, host |-> OnDisc, append |-> FALSE, write |-> FALSE,
              size |-> 0, off |-> 0, res |-> r, stale |-> FALSE]

NoClient == [fd |-> 0, open |-> FALSE, due |-> NoResult, overtaken |-> FALSE]

FileInit ==
    /\ fds = [i \in Fds |-> FreeFd(0)]
    /\ closed = [i \in Fds |-> 0]
    /\ len = [h \in HostFiles |-> Missing]
    /\ cli = [c \in Clients |-> NoClient]

Lowest(S)  == CHOOSE x \in S : \A y \in S : x <= y
Larger(a, b) == IF a > b THEN a ELSE b

-----------------------------------------------------------------------------
(* Opening.  A path that is written, created, or not on the disc is a host *)
(* file.                                                                   *)

Slot == {i \in Fds : ~fds[i].used}

InIso(p) == p \in DOMAIN DiscSize

\* Whether fopen, in the mode the flags ask for and then as "w+b", gives a stream.
HostOpens(p, fl, granted) ==
    granted /\ ("WR" \in fl \/ "CREAT" \in fl \/ len[HostName[p]] # Missing)

LenOpened(p, fl) ==
    IF "TRUNC" \in fl \/ len[HostName[p]] = Missing THEN 0 ELSE len[HostName[p]]

HostFd(p, fl, i) ==
    [fds[i] EXCEPT !.used = TRUE, !.host = HostName[p], 
                   !.append = "APPEND" \in fl /\ "TRUNC" \notin fl, !.write = fl # {},
                   !.size = LenOpened(p, fl), !.off = 0, !.stale = FALSE]

DiscFd(p, i) ==
    [fds[i] EXCEPT !.used = TRUE, !.host = OnDisc, !.append = FALSE, !.write = FALSE,
                   !.size = DiscSize[p], !.off = 0, !.stale = FALSE]

\* Descriptors of h other than i, after h changed through i.
OthersStale(f, h, i) ==
    [j \in Fds |-> IF j # i /\ f[j].used /\ f[j].host = h
                   THEN [f[j] EXCEPT !.stale = TRUE] ELSE f[j]]

\* variant: the first free slot is not looked for; a slot is taken by the path
SlotOfPath(p, fl) == IF p \in DOMAIN DiscSize THEN 1 ELSE Lowest(Fds)

OpenSlot(p, fl) == Lowest(Slot)

\* An asynchronous call of c's on i, among clients k.
Overtaking(k, c, i, async) ==
    [d \in Clients |-> IF async /\ d # c /\ k[d].fd = i
                       THEN [k[d] EXCEPT !.overtaken = TRUE] ELSE k[d]]

SetRes(f, i, r, async) == IF async THEN [f EXCEPT ![i] = [f[i] EXCEPT !.res = r]] ELSE f

(* h_IoOpen, h_IoOpenAsync.  `granted': the host lets the file be opened.  *)
Open(c, p, fl, granted, async) ==
    /\ ~cli[c].open
    /\ LET onHost == "WR" \in fl \/ "CREAT" \in fl \/ ~InIso(p)
           host   == onHost /\ HostOpens(p, fl, granted)
           i      == OpenSlot(p, fl)
       IN IF Slot = {} \/ (~host /\ ~InIso(p))
          THEN UNCHANGED fileVars
          ELSE /\ fds' = LET f == [fds EXCEPT ![i] = IF host THEN HostFd(p, fl, i) ELSE DiscFd(p, i)]
                         IN SetRes(IF host /\ len[HostName[p]] # LenOpened(p, fl)
                                   THEN OthersStale(f, HostName[p], i) ELSE f, i, i, async)
               /\ len' = IF host THEN [len EXCEPT ![HostName[p]] = LenOpened(p, fl)] ELSE len
               /\ cli' = Overtaking([cli EXCEPT ![c] =
                              [fd |-> i, open |-> TRUE, due |-> IF async THEN i ELSE NoResult,
                               overtaken |-> FALSE]], c, i, async)
               /\ UNCHANGED closed

-----------------------------------------------------------------------------
(* Reading, writing and seeking on an open descriptor.                     *)

Due(c, r, async) ==
    cli' = Overtaking(IF async THEN [cli EXCEPT ![c] = [cli[c] EXCEPT !.due = r]] ELSE cli,
                      c, cli[c].fd, async)

ReadCount(f, count) ==
    LET n == IF f.off + count > f.size THEN f.size - f.off ELSE count
    IN IF f.host = OnDisc THEN n
       ELSE IF f.off + n <= len[f.host] THEN n
       ELSE Larger(len[f.host] - f.off, 0)

(* h_IoRead, h_IoReadAsync: a host stream may hold less than its length at *)
(* the time of the open.                                                   *)
IoRead(c, count, async) ==
    /\ cli[c].open
    /\ LET i == cli[c].fd
           n == ReadCount(fds[i], count)
       IN /\ fds' = SetRes([fds EXCEPT ![i] = [fds[i] EXCEPT !.off = fds[i].off + n]], i, n, async)
          /\ Due(c, n, async)
    /\ UNCHANGED <<closed, len>>

Written(f, n) ==
    [f EXCEPT !.off = f.off + n, !.size = Larger(f.size, f.off + n),
              !.stale = f.stale \/ (f.append /\ n > 0 /\ f.off # len[f.host])]

(* h_IoWrite: the host may take less than all of it.  A stream opened for  *)
(* appending writes at the file's end, wherever the descriptor is.  What   *)
(* is written to descriptor 1, for which the standard output is taken, is  *)
(* lost, though slot 1 is handed out to files.                             *)
IoWrite(c, n) ==
    /\ cli[c].open
    /\ cli[c].fd >= 2
    /\ LET i == cli[c].fd
           f == fds[i]
           h == f.host
           end == (IF f.append THEN len[h] ELSE f.off) + n
       IN /\ h # OnDisc
          /\ n > 0 => f.write
          /\ end <= MaxLen
          /\ f.off + n <= MaxLen
          /\ fds' = IF n = 0 THEN fds ELSE OthersStale([fds EXCEPT ![i] = Written(f, n)], h, i)
          /\ len' = IF n = 0 THEN len ELSE [len EXCEPT ![h] = Larger(len[h], end)]
    /\ UNCHANGED <<closed, cli>>

\* variant: a seek beyond the end is taken
SoughtAnywhere(f, base, dist) == Larger(base + dist, 0)

Sought(f, base, dist) ==
    IF base + dist > f.size THEN f.size ELSE Larger(base + dist, 0)

(* h_IoLseek32, h_IoLseek, h_IoLseekAsync.                                 *)
Lseek(c, whence, dist, async) ==
    /\ cli[c].open
    /\ LET i  == cli[c].fd
           f  == fds[i]
           np == Sought(f, CASE whence = "SET" -> 0 [] whence = "CUR" -> f.off
                             [] whence = "END" -> f.size, dist)
       IN /\ fds' = SetRes([fds EXCEPT ![i] = [f EXCEPT !.off = np]], i, np, async)
          /\ Due(c, np, async)
    /\ UNCHANGED <<closed, len>>

-----------------------------------------------------------------------------
(* Closing and waiting.                                                    *)

(* h_IoClose: the result kept with the slot is not cleared.                *)
Close(c) ==
    /\ cli[c].open
    /\ fds' = [fds EXCEPT ![cli[c].fd] = FreeFd(fds[cli[c].fd].res)]
    /\ cli' = [cli EXCEPT ![c] = NoClient]
    /\ UNCHANGED <<closed, len>>

(* h_IoCloseAsync: the client keeps the number to wait for the close.      *)
CloseAsync(c) ==
    /\ cli[c].open
    /\ LET i == cli[c].fd
       IN /\ fds' = [fds EXCEPT ![i] = FreeFd(0)]
          /\ closed' = [closed EXCEPT ![i] = 0]
          /\ cli' = [cli EXCEPT ![c] = [fd |-> i, open |-> FALSE, due |-> 0,
                                         overtaken |-> FALSE]]
    /\ UNCHANGED len

(* What h_IoWaitAsync answers for a descriptor.                            *)
Answer(i) == IF fds[i].used THEN fds[i].res ELSE closed[i]

(* A client that has waited for its close forgets the number.              *)
WaitAsync(c) ==
    /\ cli[c].fd # 0
    /\ cli[c].due # NoResult
    /\ cli' = [cli EXCEPT ![c] = [fd   |-> IF cli[c].open THEN cli[c].fd ELSE 0,
                                  open |-> cli[c].open, due |-> NoResult,
                                  overtaken |-> FALSE]]
    /\ UNCHANGED <<fds, closed, len>>

FileNext ==
    \E c \in Clients :
        \/ \E p \in GuestPaths, fl \in OpenFlags, granted, async \in BOOLEAN :
               Open(c, p, fl, granted, async)
        \/ \E n \in Counts, async \in BOOLEAN : IoRead(c, n, async)
        \/ \E n \in Counts \cup {0} : IoWrite(c, n)
        \/ \E w \in {"SET", "CUR", "END"}, n \in Counts, s \in {-1, 1}, async \in BOOLEAN :
               Lseek(c, w, s * n, async)
        \/ Close(c)
        \/ CloseAsync(c)
        \/ WaitAsync(c)

FileSpec == FileInit /\ [][FileNext]_fileVars

-----------------------------------------------------------------------------
(* A descriptor's offset is inside its file, or the count of the next read *)
(* wraps below zero; and the size kept with it is the file's length unless *)
(* the file was changed through another descriptor or appended to, so that *)
(* a read is short only at the end (hle.c 906, 924, 947).                  *)
DescriptorInFile ==
    \A i \in Fds : fds[i].used =>
        /\ fds[i].off <= fds[i].size
        /\ fds[i].host # OnDisc /\ ~fds[i].stale => fds[i].size = len[fds[i].host]

(* A client that waits is given the result of its own last asynchronous    *)
(* call, whatever other clients open, close and do in between: no two      *)
(* clients have one descriptor, a slot keeps nothing of its last owner     *)
(* that an asynchronous call does not overwrite, and the close of a slot   *)
(* since opened again answers 0 all the same (hle.c 967-1002).  Only an    *)
(* asynchronous call of the slot's new owner takes the place of the close. *)
OwnResult ==
    \A c \in Clients :
        cli[c].due # NoResult =>
            \/ Answer(cli[c].fd) = cli[c].due
            \/ ~cli[c].open /\ cli[c].overtaken

(* Files are served: an offset lies in its file, and a result is the one   *)
(* the descriptor's own operation left.                                    *)
FilesServed == DescriptorInFile /\ OwnResult
=============================================================================
