---------------------------- MODULE CommHandles ----------------------------
(***************************************************************************)
(* Communicators of one rank while its program is recorded and while its   *)
(* trace is replayed.  A call names its communicator in the trace by an    *)
(* index of the recorder's HandleMapper; the replayer, whose MPI library   *)
(* hands out handles of its own, finds the communicator by that index in   *)
(* its HandleMapper.  So that recording and replay can be compared, a       *)
(* communicator is given the number of the call that created it.           *)
(***************************************************************************)
EXTENDS HandleMapper

CONSTANTS
  MaxCalls   \* bound on the number of recorded calls

VARIABLES
  phase,    \* "record", "replay", or "abort" when MPI rejects a communicator
  trace,    \* calls: what is done, the index recorded, the communicator meant
            \* and, for one that creates, whether it returned MPI_COMM_NULL
  record,   \* record_ptr
  comms,    \* handle -> number of the communicator it names, while recording
  replay,   \* replay_ptr
  recomms,  \* handle -> number of the communicator it names, in the replay
  replayed  \* number of calls replayed so far
recordVars == <<trace, record, comms>>
replayVars == <<replay, recomms, replayed>>
vars == <<phase, recordVars, replayVars>>

\* Numbers of communicators no recorded call created.
Predefined == [h \in {World, Self} |-> IF h = World THEN 0 ELSE -1]
UntracedNumber == -2

Init ==
  /\ phase = "record"
  /\ trace = <<>>
  /\ record = EmptyMapper
  /\ comms = Predefined
  /\ replay = EmptyMapper
  /\ recomms = Predefined
  /\ replayed = 0

Without(f, h) == [x \in DOMAIN f \ {h} |-> f[x]]
With(f, h, n) == [x \in DOMAIN f \cup {h} |-> IF x = h THEN n ELSE f[x]]

-----------------------------------------------------------------------------
\* The wrapper records the index of the call's communicator.
Record(do, comm, null) ==
  /\ phase = "record"
  /\ Len(trace) < MaxCalls
  /\ comm \in DOMAIN comms
  /\ trace' = Append(trace, [do |-> do, index |-> HandleToIndex(record, comm),
                             comm |-> comms[comm], null |-> null])
  /\ UNCHANGED <<phase, replayVars>>

\* Calls that only use a communicator.
RecordUse(comm) ==
  /\ Record("use", comm, FALSE)
  /\ UNCHANGED <<record, comms>>

\* MPI_Comm_dup, MPI_Comm_create and MPI_Comm_split: MPI returns a handle that
\* names nothing at the moment, or MPI_COMM_NULL to a rank left out.
RecordCreate(comm, out) ==
  /\ Record("create", comm, FALSE)
  /\ out \in Handles \ DOMAIN comms
  /\ record' = AddHandle(record, out)
  /\ comms' = With(comms, out, Len(trace) + 1)

RecordLeftOut(comm) ==
  /\ Record("create", comm, TRUE)
  /\ record' = AddHandle(record, NullHandle)
  /\ UNCHANGED comms

\* MPI_Comm_free: MPI may give the handle out again.
RecordFree(comm) ==
  /\ comm \in Handles
  /\ Record("free", comm, FALSE)
  /\ record' = RemoveHandle(record, comm)
  /\ comms' = Without(comms, comm)

\* The wrappers of the other calls that create communicators (MPI_Cart_create,
\* MPI_Cart_sub, MPI_Graph_create, MPI_Intercomm_create, MPI_Intercomm_merge)
\* record nothing.
CreateUntraced(out) ==
  /\ phase = "record"
  /\ out \in Handles \ DOMAIN comms
  /\ comms' = With(comms, out, UntracedNumber)
  /\ UNCHANGED <<phase, trace, record, replayVars>>

StartReplay ==
  /\ phase = "record"
  /\ phase' = "replay"
  /\ UNCHANGED <<recordVars, replayVars>>

-----------------------------------------------------------------------------
\* The next call of the trace finds its communicator by the recorded index.
Call == trace[replayed + 1]
Replay(do, comm) ==
  /\ phase = "replay"
  /\ replayed < Len(trace)
  /\ Call.do = do
  /\ comm \in IndexToHandles(replay, Call.index)
  /\ comm \in DOMAIN recomms
  /\ replayed' = replayed + 1
  /\ UNCHANGED <<phase, recordVars>>

ReplayUse(comm) ==
  /\ Replay("use", comm)
  /\ UNCHANGED <<replay, recomms>>

ReplayCreate(comm, out) ==
  /\ Replay("create", comm)
  /\ ~Call.null
  /\ out \in Handles \ DOMAIN recomms
  /\ replay' = AddHandle(replay, out)
  /\ recomms' = With(recomms, out, replayed + 1)

ReplayLeftOut(comm) ==
  /\ Replay("create", comm)
  /\ Call.null
  /\ replay' = AddHandle(replay, NullHandle)
  /\ UNCHANGED recomms

ReplayFree(comm) ==
  /\ comm \in Handles
  /\ Replay("free", comm)
  /\ replay' = RemoveHandle(replay, comm)
  /\ recomms' = Without(recomms, comm)

\* MPI ends a program that passes a handle that names no communicator.
ReplayAbort(comm) ==
  /\ phase = "replay"
  /\ replayed < Len(trace)
  /\ comm \in IndexToHandles(replay, Call.index)
  /\ comm \notin DOMAIN recomms \/ (Call.do = "free" /\ comm \notin Handles)
  /\ phase' = "abort"
  /\ UNCHANGED <<recordVars, replayVars>>

AllHandles == Handles \cup {NullHandle, Self, World}

Next ==
  \/ \E comm \in AllHandles : RecordUse(comm) \/ RecordLeftOut(comm) \/ RecordFree(comm)
  \/ \E comm \in AllHandles, out \in Handles : RecordCreate(comm, out) \/ ReplayCreate(comm, out)
  \/ \E out \in Handles : CreateUntraced(out)
  \/ StartReplay
  \/ \E comm \in AllHandles : ReplayUse(comm) \/ ReplayLeftOut(comm) \/ ReplayFree(comm)
                              \/ ReplayAbort(comm)

Spec == Init /\ [][Next]_vars
-----------------------------------------------------------------------------
\* A communicator is lost to the trace only when as many others as the table
\* holds were created after it, or when the call that created it is untraced.
LostOnlyByOverflow ==
  \A k \in DOMAIN trace :
    trace[k].index = -1 /\ trace[k].comm # UntracedNumber =>
      Cardinality({j \in 1..(k - 1) : trace[j].do = "create" /\ j > trace[k].comm}) >= Size

\* Every call is replayed on the communicator it was recorded on, whatever
\* handles either MPI library hands out, as long as none was lost.
SameCommunicator ==
  phase = "replay" /\ replayed < Len(trace) =>
    \/ \E k \in 1..(replayed + 1) : trace[k].index = -1
    \/ \A comm \in IndexToHandles(replay, Call.index) :
         comm \in DOMAIN recomms /\ recomms[comm] = Call.comm
=============================================================================
