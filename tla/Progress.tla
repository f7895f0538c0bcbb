-------------------------------- MODULE Progress --------------------------------
(* What must come about in the end, in five parts that share no state: the      *)
(* buffer (whose names this module has as its own), the two of Pipeline, the     *)
(* circuit breaker, and the stopping of a process.  Steps of two of them         *)
(* commute, so a behaviour runs one part, its focus, and leaves the others as    *)
(* they start.                                                                   *)
EXTENDS KinesisBuffer, Pipeline

CONSTANTS
  None,
  \* of the breaker
  Calls, MaxRequests, Interval, Timeout, ReadyToTrip(_), MaxGeneration, MaxCount,
  \* of the process
  Work, MaxSignals

VARIABLES
  focus,
  cb, admitted,
  program, main, opened, server, work, cancelled, overdue, signals, exit, waits

breakerVars  == <<cb, admitted>>
processVars  == <<program, main, opened, server, work, cancelled, overdue, signals, exit, waits>>
partVars     == <<vars, consumerVars, breakerVars, processVars, batchVars>>

Breaker == INSTANCE CircuitBreaker
Process == INSTANCE Lifecycle WITH open <- opened

\* What a process and a breaker ask of their constants.
ASSUME PartsAssumption == Process!LifecycleAssumption /\ Breaker!BreakerAssumption

-----------------------------------------------------------------------------

ProgressInit ==
  /\ focus \in {"buffer", "consumer", "breaker", "process", "batch"}
  /\ Init /\ Consumer!Init /\ Breaker!Init /\ Batch!Init /\ Process!Init

ProgressNext ==
  \/ focus = "buffer"   /\ Next          /\ UNCHANGED <<focus, consumerVars, breakerVars, processVars, batchVars>>
  \/ focus = "consumer" /\ Consumer!Next /\ UNCHANGED <<focus, vars, breakerVars, processVars, batchVars>>
  \/ focus = "breaker"  /\ Breaker!Next  /\ UNCHANGED <<focus, vars, consumerVars, processVars, batchVars>>
  \/ focus = "process"  /\ Process!Next  /\ UNCHANGED <<focus, vars, consumerVars, breakerVars, batchVars>>
  \/ focus = "batch"    /\ Batch!Next    /\ UNCHANGED <<focus, vars, consumerVars, breakerVars, processVars>>

\* The part in focus is fair; the others take no step.
ProgressFairness ==
  \/ focus = "buffer"   /\ Fairness
  \/ focus = "consumer" /\ Consumer!Fairness
  \/ focus = "breaker"  /\ Breaker!Fairness
  \/ focus = "process"  /\ Process!Fairness
  \/ focus = "batch"    /\ Batch!Fairness

ProgressSpec == ProgressInit /\ [][ProgressNext]_<<focus, partVars>> /\ ProgressFairness

-----------------------------------------------------------------------------
(* Properties, with KeepsItsPromise of the buffer.                         *)

\* An acknowledged event leaves the buffer although its flush job was refused,
\* and Close gets the flush loop to stop.
BufferDrains == focus = "buffer" => EventuallyFlushed /\ CloseCompletes

\* While the consumer runs, a record of the shard is in the end stored, logged or
\* reported, unless the iterator expires.
EventuallyRead == focus = "consumer" => Consumer!EventuallyRead

\* Under traffic a breaker that opened tries the service again, and one that tries
\* decides, if as many trials are allowed as failures it takes to trip.
BreakerRecovers == focus = "breaker" => Breaker!OpenIsTemporary /\ Breaker!HalfOpenSettles

\* The type invariants of all parts.
TypesOK == TypeOK /\ Consumer!TypeOK /\ Breaker!TypeOK /\ Process!TypeOK /\ Batch!TypeOK

\* Nothing is closed under work that uses it, unless its server ran out of time.
OpenWhileServed == Process!OpenWhileServed

\* A process that was asked to stop ends, even if its requests never do.
ShutdownCompletes == focus = "process" => Process!ShutdownCompletes

\* While the batch processor runs, an accepted event is sent or given up, even if
\* its batch never fills.
BatchesFlushed == focus = "batch" => Batch!EventuallyFlushed
=============================================================================
