----------------------------- MODULE SingleFile -----------------------------
(***************************************************************************)
(* GenerateTableWithStrategy for a table that goes to one file or dataset: *)
(* the strategy is resolved against the format, and the task becomes the   *)
(* parallel encoding of Parquet (ParallelEncode, extended) or the stream   *)
(* to a Lance or Vortex thread (ForeignStreaming, instantiated).  The      *)
(* machine that is not chosen keeps one initial state.  (ORC's, the third, *)
(* is NativeOrdered; part files are PartitionFiles.)                       *)
(***************************************************************************)
EXTENDS ParallelEncode, FormatDrivers

CONSTANTS InputParts, MaxBatches, Capacity  \* the bounds of ForeignStreaming

ASSUME ForeignAssumption ==
  InputParts \in Nat \ {0} /\ MaxBatches \in Nat /\ Capacity \in Nat \ {0}

VARIABLES
  output_format,  \* the table's format
  requested,      \* --write-strategy
  step,           \* where the task is: "resolve", the execution model, or "returned"
  finished,       \* MarkTableFinished was called
  \* the variables of ForeignStreaming, those of a name ParallelEncode has renamed
  format, batches_of, f_pc, f_part, batch, is_open, wrote, sender, joined, f_channel,
  f_receiver, handle, status, failing, worker, consumed, dataset, reported, committed,
  parts_completed, f_result

Foreign == INSTANCE ForeignStreaming WITH
  PartCount <- InputParts, pc <- f_pc, part <- f_part, channel <- f_channel,
  receiver <- f_receiver, result <- f_result

switchVars == <<output_format, requested, step, finished>>
foreignVars == <<format, batches_of, f_pc, f_part, batch, is_open, wrote, sender, joined, f_channel,
  f_receiver, handle, status, failing, worker, consumed, dataset, reported, committed,
  parts_completed, f_result>>
allVars == <<switchVars, vars, foreignVars>>

SingleFileInit ==
  /\ Init /\ Foreign!Init
  /\ output_format \in {"parquet", "lance", "vortex"}
  /\ IF output_format = "parquet"
     THEN format = "lance" /\ dataset = "absent" /\ batches_of = [p \in 1 .. InputParts |-> 0]
     ELSE format = output_format /\ file = "absent"
  /\ requested \in Strategies \cup {"auto"}
  /\ ResolveSelectedWriteStrategy(requested, output_format) # "parallel-files"
  /\ step = "resolve"
  /\ finished = FALSE

\* "Write strategy is not supported for format": reported, 2.
Unsupported ==
  /\ step = "resolve"
  /\ ResolveSelectedWriteStrategy(requested, output_format) = "none"
  /\ step' = "returned"
  /\ UNCHANGED <<output_format, requested, finished, vars, foreignVars>>

\* MarkTableStarted, and the switch over the execution models.
Resolve ==
  /\ step = "resolve"
  /\ ResolveSelectedWriteStrategy(requested, output_format) = "single-file-ordered"
  /\ step' = OrderedExecutionModel(output_format)
  /\ UNCHANGED <<output_format, requested, finished, vars, foreignVars>>

Encoding(A) == step = "parallel-encode" /\ A /\ UNCHANGED <<switchVars, foreignVars>>
Streaming(A) == step = "foreign-streaming" /\ A /\ UNCHANGED <<switchVars, vars>>

Outcome == IF step = "parallel-encode" THEN result ELSE f_result

Return ==
  /\ step \in {"parallel-encode", "foreign-streaming"} /\ Outcome # NoResult
  /\ step' = "returned"
  /\ finished' = (Outcome = 0)
  /\ UNCHANGED <<output_format, requested, vars, foreignVars>>

\* The table's task is one thread, whatever it runs.
TableThread ==
  Unsupported \/ Resolve \/ Encoding(TableTask) \/ Streaming(Foreign!Task) \/ Return

SingleFileNext ==
  \/ TableThread
  \/ \E w \in Workers : Encoding(Worker(w))
  \/ Streaming(Foreign!Thread \/ Foreign!Failure)

(* Threads run while they can, as in the two modules; nothing has to fail. *)
SingleFileSpec ==
  /\ SingleFileInit /\ [][SingleFileNext]_allVars
  /\ WF_allVars(TableThread)
  /\ \A w \in Workers : WF_allVars(Encoding(Worker(w)))
  /\ WF_allVars(Streaming(Foreign!Thread))

-----------------------------------------------------------------------------
(* Properties *)

(* Everything has a value its code can give it. *)
SingleFileTypeOK ==
  /\ TypeOK /\ Foreign!TypeOK
  /\ step \in {"resolve", "parallel-encode", "foreign-streaming", "returned"}
  /\ finished \in BOOLEAN

(* What the display calls finished is a whole file or dataset, or a file that *)
(* was there before, of the format that was asked for; and nothing of the     *)
(* other formats has been touched.                                            *)
DatasetIsWhole ==
  /\ Foreign!SuccessIsComplete
  /\ finished => IF output_format = "parquet" THEN result = 0 ELSE f_result = 0
  /\ requested = "parallel-files" => file # "published" /\ dataset \in {"absent", "old"}

(* See ForeignStreaming: no batch of a stream is lost, doubled or overtaken,  *)
(* and no more of them wait than the channel has room for.                    *)
BoundedPrefix == Foreign!BoundedPrefix

(* See ForeignStreaming: the task leaves no writer thread behind. *)
NoThreadLeft == Foreign!NoThreadLeft

(* The task of a table comes to its end, whichever way it writes, as long as  *)
(* no encoding ends by an exception.                                          *)
TableEnds == ([]\A w \in Workers : pc[w] # "threw") => <>(step = "returned")
=============================================================================
