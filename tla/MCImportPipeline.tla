--------------------------- MODULE MCImportPipeline ---------------------------
(***************************************************************************)
(* Small instances for TLC: one file with text and one scan, at most one   *)
(* reference PDF, and two ticks of one process or of two.                  *)
(***************************************************************************)
EXTENDS ImportPipeline

CONSTANTS typed, scan, copy, left, right, first, second

MCImports == {typed, scan}
MCTicks == {first, second}

\* The scan and the reference copy are PDF files.
MCPdfs == Sources \ {typed}

OwnHash == [s \in Sources |-> s]

\* Both imports are uploads of the same bytes.
SameHash == [s \in Sources |-> IF s \in Imports THEN typed ELSE s]

OneTick == [t \in {first} |-> left]
OneHost == [t \in Ticks |-> left]
TwoHosts == [t \in Ticks |-> IF t = first THEN left ELSE right]

\* Spec with no process ever stopping (MaxStops = 0): none has to start again and,
\* without slow jobs, no claim grows stale.  The runs about the queue stop processes.
SteadyNext ==
  \/ ImportSteps
  \/ AttachmentSteps
  \/ SourceSteps
  \/ \E t \in Ticks : ClaimAny(t) \/ Work(t)

SteadySpec == Init /\ [][SteadyNext]_vars
=============================================================================
