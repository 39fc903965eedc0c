----------------------------- MODULE MCTerminals -----------------------------
(***************************************************************************)
(* A terminal on every worker: who owns it and who knows it, for two       *)
(* workers and the incarnations of one id, and what its clients see of the *)
(* bytes of one incarnation.  A behaviour is about one of the two, chosen  *)
(* at the start; the other stays at its first state.                       *)
(***************************************************************************)
EXTENDS TerminalSessions, Sequences, TLC

CONSTANTS Viewers, Forker,   \* the workers of the streams, and the one that forked the shell
          Clients, None,
          Keep, Room,        \* sizes of the streams and queues,
          MaxOut, MaxKeys,   \* and bounds of them
          MaxConnects, MaxFaults

\* The output stream keeps something (MAXLEN).
ASSUME StreamsAssumption ==
  /\ Forker \in Viewers
  /\ Keep \in Nat \ {0} /\ Room \in Nat
  /\ MaxOut \in Nat /\ MaxKeys \in Nat
  /\ MaxConnects \in Nat /\ MaxFaults \in Nat

VARIABLES
  which,   \* what a behaviour is about
  streamsShell, streamsMade, streamsReader, streamsPump, streamsOut, streamsGone,
  streamsKeys, streamsInCursor, streamsTyped, streamsSent, streamsHandles, streamsCache,
  streamsClient, streamsRemoved, streamsSlips, streamsConnects, streamsFaults

streamsVars == <<streamsShell, streamsMade, streamsReader, streamsPump, streamsOut,
                 streamsGone, streamsKeys, streamsInCursor, streamsTyped, streamsSent,
                 streamsHandles, streamsCache, streamsClient, streamsRemoved,
                 streamsSlips, streamsConnects, streamsFaults>>

Streams == INSTANCE TerminalStreams WITH
  shell <- streamsShell, made <- streamsMade, reader <- streamsReader,
  pump <- streamsPump, out <- streamsOut, gone <- streamsGone, keys <- streamsKeys,
  inCursor <- streamsInCursor, typed <- streamsTyped, sent <- streamsSent,
  handles <- streamsHandles, cache <- streamsCache, client <- streamsClient,
  removed <- streamsRemoved, slips <- streamsSlips, connects <- streamsConnects,
  faults <- streamsFaults, Workers <- Viewers, Owner <- Forker

TerminalsInit ==
  /\ which \in {"sessions", "streams"}
  /\ Init
  /\ Streams!Init

SessionsMoves ==
  /\ which = "sessions"
  /\ Next
  /\ UNCHANGED <<which, streamsVars>>

StreamsMoves ==
  /\ which = "streams"
  /\ Streams!Next
  /\ UNCHANGED <<which, vars>>

TerminalsNext == SessionsMoves \/ StreamsMoves

terminalsVars == <<which, vars, streamsVars>>

TerminalsSpec == TerminalsInit /\ [][TerminalsNext]_terminalsVars

\* The behaviours about the sessions, of workers that go on.
SessionsInit == which = "sessions" /\ TerminalsInit

LapseSpec == SessionsInit /\ [][TerminalsNext]_terminalsVars /\ Fairness

\* bound: one removal, lapse or stop in a behaviour; nothing is followed past a slip,
\* but a lapse, and a race as long as no list is under way.
Followed ==
  /\ removes + lapses + stops <= 1
  /\ \/ slips \subseteq {"lapse"}
     \/ slips = {"raced"} /\ removes + stops = 0 /\ \A w \in Workers : lst[w] = NoList

\* bound, with one incarnation: two of them, and nothing past a slip but a lapse.
Lapsed == removes + lapses + stops <= 2 /\ slips \subseteq {"lapse"}

\* bound: one kind of loss at a time.
FewSlips == Cardinality(streamsSlips) <= 1

Symmetry == Permutations(Workers)

-----------------------------------------------------------------------------
(* Properties *)

\* The keys, shells and handles of a terminal have their types, and its streams theirs.
TypesOK == TypeOK /\ Streams!TypeOK

\* What a terminal's client sees is what the shell wrote, in order, on whichever worker it
\* is connected, and a keystroke is typed once, except for the losses that
\* TerminalStreams names.
ScreenIsFaithful == Streams!ScreenIsFaithful /\ Streams!KeysOnce
=============================================================================
