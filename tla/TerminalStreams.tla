--------------------------- MODULE TerminalStreams ---------------------------
(***************************************************************************)
(* The bytes of one terminal: src/api/terminal_manager.py                  *)
(* (TerminalSession) and the WebSocket of src/api/terminal.py.             *)
(*                                                                         *)
(* One incarnation of one terminal.  The owning worker reads the PTY and   *)
(* XADDs to the output stream; every worker's consumer thread XREADs it    *)
(* from its cursor and hops each frame onto its event loop, which fans it  *)
(* out to the subscribed sockets.  Keystrokes go the other way through the *)
(* input stream.  A session object (a handle) belongs to one worker;       *)
(* handle 1 is the one create() made.  Who may create, restart and prune   *)
(* a terminal is in TerminalSessions.                                      *)
(*                                                                         *)
(* Output chunks and keystrokes are numbered as they are made.  A stream   *)
(* entry's id is its position in the stream's history.  The queue between  *)
(* the PTY's reader and the pump thread is a FIFO that the pump empties    *)
(* before its EOF frame, and is left out: what is read is in the stream.   *)
(* A thread takes one entry at a time.  The 60 s expiry of a finished      *)
(* stream, the trimming of the input stream and a workspace without Redis  *)
(* are left out.                                                           *)
(***************************************************************************)
EXTENDS Naturals, Sequences, SequencesExt, FiniteSets

CONSTANTS
    Workers,
    Owner,        \* the worker that forked the shell
    Clients,      \* WebSocket or REST clients
    None,
    Keep,         \* MAXLEN of the output stream and length of the replay buffer
    Room,         \* size of a subscriber's queue
    MaxOut,       \* bound: chunks the shell writes
    MaxKeys,      \* bound: keystrokes
    MaxConnects,  \* bound: connections
    MaxFaults     \* bound: failed XADDs, blocked writes

Eof == 0

VARIABLES
    shell,      \* "runs" or "over"
    made,       \* chunks written by the shell so far
    reader,     \* is the PTY's fd on the owner's event loop
    pump,       \* the owner's two threads: "off", "runs", "over" after EOF
    out,        \* the output stream's history
    gone,       \* how many of its oldest entries were trimmed or deleted
    keys,       \* the input stream's history
    inCursor,
    typed,      \* what was written to the PTY
    sent,       \* keystrokes made so far
    handles,    \* TerminalSession objects
    cache,      \* TerminalManager.sessions: a handle's index, or 0
    client,
    removed,    \* the terminal was closed: no owner key, no meta
    slips,      \* what happened that excuses a gap or a repetition
    connects, faults

streamVars == <<shell, made, reader, pump, out, gone, keys,
                inCursor, typed, sent, handles, cache, client, removed, slips,
                connects, faults>>

ptyVars == <<made, reader>>
inputVars == <<keys, inCursor, typed, sent>>

Away == [at |-> 0, step |-> "off", from |-> 0, read |-> 0, sees |-> <<>>,
         queue |-> <<>>, subscribed |-> FALSE]
Chunks == 1..MaxOut
MaxHandles == 1 + MaxConnects

TypeOK ==
    /\ shell \in {"runs", "over"}
    /\ made \in 0..MaxOut
    /\ reader \in BOOLEAN /\ removed \in BOOLEAN
    /\ pump \in {"off", "runs", "over"}
    /\ out \in Seq(0..MaxOut)
    /\ gone \in 0..Len(out)
    /\ keys \in Seq(1..MaxKeys) /\ typed \in Seq(1..MaxKeys)
    /\ inCursor \in 0..Len(keys)
    /\ sent \in 0..MaxKeys
    /\ Len(handles) \in 1..MaxHandles
    /\ \A h \in DOMAIN handles :
          handles[h] \in [worker : Workers, alive : BOOLEAN, stopping : BOOLEAN,
                          consumer : {"off", "runs", "over"}, cursor : 0..Len(out),
                          loop : Seq(0..MaxOut),
                          buffer : Seq(Chunks)]
    /\ cache \in [Workers -> 0..Len(handles)]
    /\ \A c \in Clients :
          /\ client[c].at \in 0..Len(handles)
          /\ client[c].step \in {"off", "looked", "got", "sending", "waits", "sends", "left"}
          /\ client[c].sees \in Seq(Chunks)
          /\ Len(client[c].queue) <= Room
    /\ slips \subseteq {"raced", "missed", "full", "lost", "trimmed", "removed", "early"}
    /\ connects \in 0..MaxConnects
    /\ faults \in 0..MaxFaults

\* create() has published the terminal; its threads are not started yet.
Init ==
    /\ shell = "runs"
    /\ made = 0
    /\ reader = FALSE /\ removed = FALSE
    /\ pump = "off"
    /\ out = <<>> /\ gone = 0
    /\ keys = <<>> /\ inCursor = 0 /\ typed = <<>> /\ sent = 0
    /\ handles = << [worker |-> Owner, alive |-> TRUE, stopping |-> FALSE,
                     consumer |-> "off", cursor |-> 0, loop |-> <<>>, buffer |-> <<>>] >>
    /\ cache = [w \in Workers |-> IF w = Owner THEN 1 ELSE 0]
    /\ client = [c \in Clients |-> Away]
    /\ slips = {}
    /\ connects = 0 /\ faults = 0

Fault == faults < MaxFaults /\ faults' = faults + 1
Slip(s) == slips' = slips \cup s

Newest(s, n) == IF Len(s) <= n THEN s ELSE SubSeq(s, Len(s) - n + 1, Len(s))

\* The data frames of a stream that ends with its EOF frame, if it has one.
Data(s) == IF s # <<>> /\ s[Len(s)] = Eof THEN SubSeq(s, 1, Len(s) - 1) ELSE s

(***************************************************************************)
(* The owner's side.                                                       *)
(***************************************************************************)
\* _start_owner_io, at the end of create(): whatever is on the input stream is
\* skipped.
StartOwnerIo ==
    /\ pump = "off"
    /\ ~handles[1].stopping
    /\ pump' = "runs"
    /\ inCursor' = Len(keys)
    /\ Slip(IF keys = <<>> THEN {} ELSE {"early"})
    /\ UNCHANGED <<shell, ptyVars, out, gone, keys, typed, sent, handles, cache, client,
                   removed, connects, faults>>

\* The route that asked for the terminal starts its reader.
CreateReturns ==
    /\ pump # "off"
    /\ handles[1].consumer = "off"
    /\ handles' = [handles EXCEPT ![1].consumer = "runs"]
    /\ reader' = ~handles[1].stopping
    /\ UNCHANGED <<shell, made, pump, out, gone, inputVars, cache, client, removed, slips,
                   connects, faults>>

ShellExits ==
    /\ shell = "runs"
    /\ shell' = "over"
    /\ UNCHANGED <<ptyVars, pump, out, gone, inputVars, handles, cache, client, removed,
                   slips, connects, faults>>

\* XADD ... MAXLEN: an unread entry that is trimmed leaves a gap behind it.
Add(frame) ==
    LET left == IF Len(out) + 1 > Keep + gone THEN Len(out) + 1 - Keep ELSE gone
    IN /\ out' = Append(out, frame)
       /\ gone' = left
       /\ Slip(IF \E h \in DOMAIN handles : handles[h].cursor < left
               THEN {"trimmed"} ELSE {})

\* on_readable and the pump: the shell's next chunk.
Outputs ==
    /\ shell = "runs"
    /\ reader
    /\ made < MaxOut
    /\ made' = made + 1
    /\ \/ Add(made + 1) /\ UNCHANGED faults
       \/ Fault /\ Slip({"lost"}) /\ UNCHANGED <<out, gone>>
    /\ UNCHANGED <<shell, reader, pump, inputVars, handles, cache, client, removed,
                   connects>>

\* _on_eof and the pump: the EOF frame goes last.
PtyEnds ==
    /\ shell = "over"
    /\ reader
    /\ reader' = FALSE
    /\ pump' = "over"
    /\ \/ Add(Eof) /\ UNCHANGED faults
       \/ Fault /\ Slip({"lost"}) /\ UNCHANGED <<out, gone>>
    /\ UNCHANGED <<shell, made, inputVars, handles, cache, client, removed, connects>>

\* _in_consumer_loop and _write_fd.
InputTypes ==
    /\ pump # "off"
    /\ ~handles[1].stopping
    /\ inCursor < Len(keys)
    /\ inCursor' = inCursor + 1
    /\ \/ /\ shell = "runs"
          /\ typed' = Append(typed, keys[inCursor + 1])
          /\ UNCHANGED <<handles, faults>>
       \* EIO of a shell that is gone, EAGAIN of one that does not read.
       \/ /\ IF shell = "runs" THEN Fault ELSE UNCHANGED faults
          /\ handles' = [handles EXCEPT ![1].alive = FALSE]
          /\ UNCHANGED typed
    /\ UNCHANGED <<shell, ptyVars, pump, out, gone, keys, sent, cache, client, removed,
                   slips, connects>>

(***************************************************************************)
(* A worker's consumer thread and its event loop.                          *)
(***************************************************************************)
Newer(h) == IF handles[h].cursor < gone THEN gone + 1 ELSE handles[h].cursor + 1

\* _out_consumer_loop: the cursor moves, then the frame is handed to the loop;
\* EOF marks the handle dead from this thread, ahead of the loop.
Consume(h) ==
    /\ handles[h].consumer = "runs"
    /\ ~handles[h].stopping
    /\ Newer(h) <= Len(out)
    /\ LET frame == out[Newer(h)] IN
       handles' = [handles EXCEPT
            ![h].cursor = Newer(h),
            ![h].loop = Append(@, frame),
            ![h].alive = @ /\ frame # Eof,
            ![h].consumer = IF frame = Eof THEN "over" ELSE @]
    /\ UNCHANGED <<shell, ptyVars, pump, out, gone, inputVars, cache, client, removed,
                   slips, connects, faults>>

Full(c) == client[c].subscribed /\ Len(client[c].queue) = Room

\* _fan_out: the replay buffer, then every subscriber; one whose queue is full
\* is dropped.
FanOut(h) ==
    /\ handles[h].loop # <<>>
    /\ LET frame == Head(handles[h].loop)
           mine == {c \in Clients : client[c].at = h}
           full == {c \in mine : Full(c)}
       IN /\ handles' = [handles EXCEPT ![h].loop = Tail(@),
                ![h].buffer = IF frame = Eof THEN @ ELSE Newest(Append(@, frame), Keep)]
          /\ client' = [c \in Clients |->
                IF c \in full THEN [client[c] EXCEPT !.subscribed = FALSE]
                ELSE IF c \in mine /\ client[c].subscribed
                     THEN [client[c] EXCEPT !.queue = Append(@, frame)]
                     ELSE client[c]]
          /\ Slip((IF full = {} THEN {} ELSE {"full"})
                    \cup (IF \E c \in mine : client[c].step = "sending"
                          THEN {"missed"} ELSE {}))
    /\ UNCHANGED <<shell, ptyVars, pump, out, gone, inputVars, cache, removed, connects,
                   faults>>

(***************************************************************************)
(* A client: TerminalManager.get, then the socket's handler.               *)
(***************************************************************************)
Usable(h) == h # 0 /\ handles[h].alive /\ shell = "runs"

Arrives(c) ==
    /\ client[c].step = "off"
    /\ connects < MaxConnects
    /\ connects' = connects + 1

\* get() on a cached handle: with no consumer of its own its buffer is read
\* again, on a thread.
GetCached(c, w) ==
    /\ Arrives(c)
    /\ LET h == cache[w] IN
       /\ Usable(h)
       /\ client' = [client EXCEPT ![c] =
             IF handles[h].consumer = "off"
             THEN [Away EXCEPT !.at = h, !.step = "looked", !.from = gone, !.read = Len(out)]
             ELSE [Away EXCEPT !.at = h, !.step = "got"]]
    /\ UNCHANGED <<shell, ptyVars, pump, out, gone, inputVars, handles, cache, removed,
                   slips, faults>>

PrimeKeepsCursor(c) ==
    /\ client[c].step = "looked"
    /\ LET h == client[c].at IN
       /\ handles' = [handles EXCEPT
             ![h].buffer = Data(SubSeq(out, client[c].from + 1, client[c].read))]
       /\ Slip(IF handles[h].consumer = "off" THEN {} ELSE {"raced"})
    /\ client' = [client EXCEPT ![c].step = "got"]
    /\ UNCHANGED <<shell, ptyVars, pump, out, gone, inputVars, cache, removed, connects,
                   faults>>

\* prime_scrollback on a cached handle: buffer and cursor together, whatever
\* the consumer has done since the stream was read; the cursor may come to stand
\* before entries that were trimmed after that.
Prime(c) ==
    /\ client[c].step = "looked"
    /\ LET h == client[c].at
           from == client[c].from
           read == client[c].read
       IN /\ handles' = [handles EXCEPT
                ![h].buffer = Data(SubSeq(out, from + 1, read)),
                ![h].cursor = IF read > from THEN read ELSE @]
          /\ Slip((IF handles[h].consumer = "off" THEN {} ELSE {"raced"})
                    \cup (IF read > from /\ read < gone THEN {"trimmed"} ELSE {}))
    /\ client' = [client EXCEPT ![c].step = "got"]
    /\ UNCHANGED <<shell, ptyVars, pump, out, gone, inputVars, cache, removed, connects,
                   faults>>

\* get() without a usable handle: adopt, primed from the stream's tail.
GetAdopts(c, w) ==
    /\ Arrives(c)
    /\ ~Usable(cache[w])
    /\ shell = "runs"
    /\ ~removed
    /\ handles' = Append(handles,
          [worker |-> w, alive |-> TRUE, stopping |-> FALSE, consumer |-> "off",
           cursor |-> IF Len(out) > gone THEN Len(out) ELSE 0, loop |-> <<>>,
           buffer |-> Data(SubSeq(out, gone + 1, Len(out)))])
    /\ cache' = [cache EXCEPT ![w] = Len(handles) + 1]
    /\ client' = [client EXCEPT ![c] =
          [Away EXCEPT !.at = Len(handles) + 1, !.step = "got"]]
    /\ UNCHANGED <<shell, ptyVars, pump, out, gone, inputVars, removed, slips, faults>>

GetRefused(c, w) ==
    /\ Arrives(c)
    /\ ~Usable(cache[w])
    /\ shell = "over" \/ removed
    /\ cache' = [cache EXCEPT ![w] = 0]
    /\ UNCHANGED <<shell, ptyVars, pump, out, gone, inputVars, handles, client, removed,
                   slips, faults>>

\* A REST call needs no more than the handle.
Answered(c) ==
    /\ client[c].step = "got"
    /\ client' = [client EXCEPT ![c] = Away]
    /\ UNCHANGED <<shell, ptyVars, pump, out, gone, inputVars, handles, cache, removed,
                   slips, connects, faults>>

Follow(h) == IF handles[h].alive THEN "waits" ELSE "left"

\* start_reader, then the replay; nothing to replay, nothing to wait for.
Open(c) ==
    /\ client[c].step = "got"
    /\ LET h == client[c].at
           replay == handles[h].buffer
       IN /\ handles' = [handles EXCEPT ![h].consumer = IF @ = "off" THEN "runs" ELSE @]
          /\ reader' = IF h = 1 /\ pump = "runs" /\ ~handles[1].stopping
                       THEN TRUE ELSE reader
          /\ client' = [client EXCEPT ![c].sees = replay,
                ![c].step = IF replay = <<>> THEN Follow(h) ELSE "sending",
                ![c].subscribed = (replay = <<>>)]
    /\ UNCHANGED <<shell, made, pump, out, gone, inputVars, cache, removed, slips, connects,
                   faults>>

Subscribe(c) ==
    /\ client[c].step = "sending"
    /\ client' = [client EXCEPT ![c].step = Follow(client[c].at), ![c].subscribed = TRUE]
    /\ UNCHANGED <<shell, ptyVars, pump, out, gone, inputVars, handles, cache, removed,
                   slips, connects, faults>>

\* pty_to_ws: what is queued, up to the sentinel, in one message; the handle is
\* looked at again before the next.
ClientTakes(c) ==
    /\ client[c].step = "waits"
    /\ client[c].queue # <<>>
    /\ LET q == client[c].queue
           data == IF Eof \in ToSet(q)
                   THEN SubSeq(q, 1, SelectInSeq(q, LAMBDA x : x = Eof) - 1) ELSE q
       IN client' = [client EXCEPT
             ![c].queue = SubSeq(q, Len(data) + 2, Len(q)),
             ![c].sees = @ \o data,
             ![c].step = IF data = <<>> THEN "left" ELSE "sends"]
    /\ UNCHANGED <<shell, ptyVars, pump, out, gone, inputVars, handles, cache, removed,
                   slips, connects, faults>>

ClientSent(c) ==
    /\ client[c].step = "sends"
    /\ client' = [client EXCEPT ![c].step = Follow(client[c].at)]
    /\ UNCHANGED <<shell, ptyVars, pump, out, gone, inputVars, handles, cache, removed,
                   slips, connects, faults>>

Disconnect(c) ==
    /\ client[c].step \in {"waits", "sends", "left"}
    /\ client' = [client EXCEPT ![c] = Away]
    /\ UNCHANGED <<shell, ptyVars, pump, out, gone, inputVars, handles, cache, removed,
                   slips, connects, faults>>

Type(c) ==
    /\ client[c].step \in {"waits", "sends", "left"}
    /\ sent < MaxKeys
    /\ sent' = sent + 1
    /\ \/ keys' = Append(keys, sent + 1) /\ UNCHANGED faults
       \/ Fault /\ UNCHANGED keys
    /\ UNCHANGED <<shell, ptyVars, pump, out, gone, inCursor, typed, handles, cache,
                   client, removed, slips, connects>>

\* remove(): the owner closes the fd and stops its threads; another worker
\* stops its own and kills the shell.  Both streams are deleted.
Close(w) ==
    /\ ~removed
    /\ removed' = TRUE
    /\ shell' = "over"
    /\ LET h == cache[w] IN
       /\ handles' = IF h = 0 THEN handles
                     ELSE [handles EXCEPT ![h].stopping = TRUE,
                                          ![h].alive = @ /\ h # 1]
       /\ reader' = (reader /\ h # 1)
    /\ cache' = [cache EXCEPT ![w] = 0]
    /\ gone' = Len(out)
    /\ keys' = <<>>
    /\ inCursor' = 0
    /\ Slip({"removed"})
    /\ UNCHANGED <<made, pump, out, typed, sent, client, connects, faults>>

Next ==
    \/ StartOwnerIo \/ CreateReturns \/ Outputs \/ ShellExits \/ PtyEnds \/ InputTypes
    \/ \E h \in DOMAIN handles : Consume(h) \/ FanOut(h)
    \/ \E c \in Clients :
          \/ \E w \in Workers : GetCached(c, w) \/ GetAdopts(c, w) \/ GetRefused(c, w)
          \/ Prime(c) \/ Answered(c) \/ Open(c) \/ Subscribe(c)
          \/ ClientTakes(c) \/ ClientSent(c) \/ Disconnect(c) \/ Type(c)
    \/ \E w \in Workers : Close(w)

Spec == Init /\ [][Next]_streamVars

(***************************************************************************)
(* Properties                                                              *)
(***************************************************************************)
\* What a client has on its screen is a piece of what the shell wrote, in order
\* and once, wherever it connected, unless its replay was primed under a
\* running consumer; and without a gap, unless one of the named losses
\* happened.
ScreenIsFaithful ==
    \A c \in Clients : \A i \in 1..(Len(client[c].sees) - 1) :
        /\ "raced" \notin slips => client[c].sees[i] < client[c].sees[i + 1]
        /\ slips \subseteq {"early"} => client[c].sees[i + 1] = client[c].sees[i] + 1

\* A keystroke is typed once, in the order of the stream.
KeysOnce == \A i \in 1..(Len(typed) - 1) : typed[i] < typed[i + 1]

\* "Ordered ids mean a reconnect resumes at a cursor - nothing lost, nothing
\* duplicated."
NothingTwice ==
    \A c \in Clients : \A i \in 1..(Len(client[c].sees) - 1) :
        client[c].sees[i] < client[c].sees[i + 1]

\* "so the last real bytes cannot be dropped by alive going false ahead of
\* them": a client that left because the terminal ended saw all of it.
LastBytesSeen ==
    \A c \in Clients : client[c].step = "left" /\ slips = {} /\ client[c].sees # <<>>
        /\ pump = "over" /\ faults = 0 => client[c].sees[Len(client[c].sees)] = made

\* "`alive` flips on the EOF frame, i.e. the shell is genuinely gone."
DeadMeansOver == \A h \in DOMAIN handles : ~handles[h].alive => shell = "over"
=============================================================================
