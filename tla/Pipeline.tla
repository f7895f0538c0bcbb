-------------------------------- MODULE Pipeline --------------------------------
(* The two ends of a Kinesis stream: the batch processor, which publishes       *)
(* events to it, and the consumer, which stores what it reads from it.  They     *)
(* share no state; Delivery and Progress put them beside other parts.            *)

CONSTANTS
  \* of the batch processor
  Publications, Outlets, streamOf, batchSize, MaxRetryAttempts,
  \* of the consumer
  Inlets, MaxRecords, MaxStarts, MaxOpenConns, MaxOutages

VARIABLES
  mu, isRunning, shutdownCh, toStart, batchChannels, channels, goroutine, eventBuffer, attempt,
    ctxDone, crashed, taken, delivered, dropped,
  shard, open, expired, iterator, poller, events, app, stopChan, timedOut, starts, rows, logged,
    reported, kept, outages

batchVars    == <<mu, isRunning, shutdownCh, toStart, batchChannels, channels, goroutine, eventBuffer,
                  attempt, ctxDone, crashed, taken, delivered, dropped>>
consumerVars == <<shard, open, expired, iterator, poller, events, app, stopChan, timedOut, starts,
                  rows, logged, reported, kept, outages>>

Batch == INSTANCE BatchProcessor WITH
  Events <- Publications, Streams <- Outlets,
  pc <- goroutine, accepted <- taken, sent <- delivered, lost <- dropped

Consumer == INSTANCE KinesisConsumer WITH Streams <- Inlets, pc <- poller, batch <- events

\* What these parts ask of their constants.
ASSUME PipelineAssumption == Batch!ProcessorAssumption /\ Consumer!ConsumerAssumption

-----------------------------------------------------------------------------
(* Properties.                                                             *)

\* An event the batch processor took is in one place.
BatchCustody == Batch!Custody

\* What Kinesis acknowledges comes in the order in which it was accepted.
InOrder == Batch!InOrder

\* A stop that succeeded has left nothing behind, of the batch processor or of
\* the consumer.
CleanStop == Batch!CleanStop /\ Consumer!CleanStop

\* What the consumer has passed by is stored, logged or reported.
Accounted == Consumer!Accounted

\* A parsed trace stays out of the database only for want of a connection or by
\* a failure of the database.
StoredUntilDry == Consumer!StoredUntilDry

\* A record is stored twice only across a restart.
Duplicates == Consumer!Duplicates
=============================================================================
