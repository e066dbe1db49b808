# Verification of kober

kober decodes protocol bytes by a declarative specification. It reads a `.zpf`
file of byte streams and datagrams, decodes messages, and writes another file
whose blocks cite or name every byte it read. This directory models that
program in TLA+, checks the models with TLC and proves facts about them with
TLAPS.

## The system

| Component | Source | State it keeps | Operations |
|---|---|---|---|
| Stage drivers | `stage.py` `_drive_stream`, `_decode_run`, `_drive_datagrams` | resume offset, after-gap flag, current run, whether the next message's start is known | read a run, gap or datagram; step a message; judge the verdict; retry or drop a guess |
| Stage writer | `stage.py` `_Writer` | confirmed, declined, lost, transform failure, held runs, pending region, owed seam | begin, gap, skip, copy, record, note, confirm, failed, decline, finish, flush |
| Stage entry points | `stage.py` `run`, `run_compiled`, `decode_stream`; `Decoder.__init__` | a decoder's parameters, a module's constants, the output's digest and adjacency | make a decoder, compile a module, check parameters and shape, run one file |
| Steps of a stage | `stage.py` `_interpreted`, `_compiled`, `_RegionsLast` | the regions of one message | decode one message, hand its records and regions on |
| Cursor | `cursor.py` | a window, a bit position | read bits, bytes, integers; seek, align, view, find |
| Decoder | `decoder.py`, `node.py` | a scope stack, a tree, pointer and repeat bounds | decode a unit, field, repeat, pointer, transform, switch, select |
| Emitter | `emit.py` | none (a function of a tree) | `plan`: records, holes, merging |
| Runtime sinks | `runtime.py` `Held`, `Output`, `take_over`, `run_transform` | writes held back | record, undecoded, retract, withdraw, release, take over |
| Transforms | `transforms.py` | a registry | register, look up, decompress within a limit, apply |
| Checker | `check.py` | the unit graph | fixpoints: widths, starvation, reachability, left recursion |
| Operation planner | `ops.py` | none | a specification to generator operations |
| Code generator | `pygen.py` | none | prints a Python module |
| Expressions | `expr.py` | none | parse, type, evaluate |
| Specifications, loader | `spec.py`, `loader.py`, `source.py` | immutable records | parse YAML |
| Command line | `cli.py` | none | arguments, printing |

How they interact. The command line or a client opens a `zpf` decode stage and
gives each input stream to `_drive`. The driver asks a *step* for one message
at a time: the interpreter (decoder, then emitter) or a generated module. The
step calls a *sink*: the writer itself, or a `Held` in front of it while the
message's start is a guess. The writer holds everything until the stream is
confirmed or declined, and then writes blocks to the file. Everything runs on
one thread; what makes the behaviour hard is that decisions are taken long
after the calls they concern, that gaps cut messages at any offset, and that
two implementations of a step must leave the same file.

What must be true of each part:

- **drivers**: a message decoded as known starts where the sender started one;
  the decode ends; a failure past a gap never decides about the protocol; each
  datagram stands alone.
- **writer**: every byte is cited by a record or named by a region, never both
  and never twice; the decision is taken once and follows what was seen; a
  declined stream keeps nothing; a record carries a seam when a hole is owed
  and only then; adjacent regions that agree are one.
- **cursor**: no read leaves its window, no byte is gone over that no read claims,
  offsets of a view are the parent's.
- **decoder**: a tree's leaves are inside their parent's window except through a
  pointer; repeats and pointers end; a failure says where it stopped.
- **emitter**: records and regions of one message partition its bytes.
- **sinks**: what is held is released once, in order, or not at all; a transform
  that fails half way leaves its source named.
- **checker and planner**: what they conclude of a specification is so of every
  decode of it; their loops end.
- **transforms**: a limit is exact, a name stays bound to one thing, a failure says
  what was wrong.
- **expressions**: what was type-checked never meets another type; the generated
  Python computes what the interpreter does; a failure is one the decoder expects.
- **entry points**: an output says which configuration and which kind of records
  it holds, and says it truly.

## Modules

| Module | Models | Extends |
|---|---|---|
| `StageStep` | what a step may write and return | |
| `StageWriter` | `_Writer` | `StageStep` |
| `StageStream` | `_drive_stream` and `_decode_run` over the writer | `StageWriter` |
| `StageDatagrams` | `_drive_datagrams` over the writer | `StageWriter` |
| `StagePromise` | what a stage promises, with neither driver nor writer in it | |
| `StageRun` | decoders, modules and runs: parameters, digest, adjacency, granularity | |
| `Cursor` | every operation of `cursor.py`, on cursors over windows of one run | |
| `Specs` | a specification's fields and types, and what `check.py` and `ops.py` look up in one | |
| `SpecWidths` | what they decide of widths, consumption and what may follow: the recursive rules | `Specs` |
| `SpecLoops` | their loops over the units | `Specs` |
| `SpecAnalyses` | both, compared with the decodes of a specification | `SpecLoops`, `SpecWidths` |
| `Message` | one message decoded by the interpreter and by a generated module: conditions, repetitions, switches, pointers, selects, computed fields, scopes, limits | `SpecWidths` |
| `Expressions` | parsing, types, evaluation, spelling and the Python of expressions | |
| `Transforms` | the registry, bounded decompression, a run of a transform | |
| `Sinks` | `Held`, `Output` and the writes they hold, of `runtime.py` | |
| `Nodes` | the nodes of a decode tree, `node.py` | `Sinks` |
| `EmitPlan` | `emit.plan` at field granularity, as a function of a tree | `Nodes` |
| `UnitDecode` | one message decoded: the interpreter's tree, and what a generated module writes | `Nodes` |
| `UnitAgreement` | that both implementations write the same of it | `UnitDecode`, `EmitPlan` |
| `StageWriterProofs` | lemmas about messages and the writer, shared by both drivers | `StageWriter` |
| `StageStreamProofs` | theorems about the byte-stream driver, and that it implements `StagePromise` | `StageStream` |
| `StageDatagramsProofs` | the same for the datagram driver | `StageDatagrams` |
| `CursorProofs`, `TransformsProofs`, `StageRunProofs`, `SpecLoopsProofs`, `UnitDecodeProofs` | theorems about those modules | |
| `MC...` | what TLC runs | |

### How the state corresponds to the code

- A byte is an offset. Payloads, content types, roles, timestamps and the words
  of comments are not modelled; a comment is one of the kinds of comment the
  code can write (`Comments`).
- `held` is one queue, where the code has a list of runs each with its writes.
  While the stream is undecided calls wait in it; once decided, `PutInFile`
  empties it, one entry at a time, before the driver moves (`Idle`). That is
  the order of the synchronous calls: `confirm` and `decline` walk the list,
  and later calls pass straight through. A run is an entry of its own, because
  a declined stream names the whole run and drops its writes.
- `pending`, `seam` and `out` are `_pending`, `_seam` and the file.
- `pc` is where the driver is: reading chunks (`chunk`, or `next` for
  datagrams), at the head of the message loop (`decode`), with a verdict in hand
  (`judge`), after the last chunk (`flush`), finished (`done`).
- `known`, `resume` and `afterGap` are the variables of those names.
- The stream itself is chosen as it is read: a run or a gap of any length at any
  point, a gap between any two runs, since reassembly yields maximal runs.
- A step is any outcome of `Outcomes(at, end)`: where it stopped, its verdict,
  whether a guard refused it, where a truncated message would have ended, and a
  sequence of writes that accounts for each byte it consumed. `Emit` is the
  granularity; `Quirks` names behaviours only unusual specifications have, so
  that a run can do without them or be about them:
  `empty_transform` (a transform that fails over no bytes),
  `unordered_regions` (a generated module naming failed transforms' sources in
  another order than theirs) and `sub_byte` (a message that is not a whole
  number of bytes).
- `starts`, `guessed`, `tried`, `dropped` (and `originals`, `copies`) are
  history: no action reads them except to extend them.

In `UnitDecode`:

- Both implementations call the same units in the same order, so one stack of
  frames (`stack`) serves both: a frame's `nodes` are what the interpreter has
  decoded of a unit and its `writes` are what the generated unit's `Held` or
  `Output` keeps. When the message is over, `tree` is the interpreter's tree,
  `Plan(tree)` (of `EmitPlan`) what its emitter writes, and `out` what the
  generated module wrote. `UnitAgreement` compares `out` with `Plan(tree)`.
  The emitter walks a tree by recursive operators, so it is kept out of
  `UnitDecode`, which is proved about.
- One action per field: `ReadField` decodes any field a specification might have
  next. So the specification is chosen as it is read, like the input. A field's
  path is the sequence of positions down to it, where the code has names.
- `stop` is a status on its way out: the interpreter's `_Stop` and the exceptions
  of a generated module. It leaves nested units one by one (`LeaveGroup`), ends
  at a transform's output (`FailOutput`) or ends the message (`Finish`).
- A transform's output has its own offsets, from 0. `Recited` replaces them by
  the transform's range when the output is released.
- Widths are of whole bytes. A repetition is modelled by the one shape a concat
  joins, units of a size and its data.
- Each member of `Quirks` is something a specification the checker accepts may
  do, over which the code does not keep the property (below). The passing runs
  are about specifications and inputs that do none of them; assuming at most one
  keeps a counterexample about that one.

In `Cursor` an operation is an operator from a cursor to what it returns: where it
left the position, what it refused, the value. `run` never changes; `cursors` grows
by `View`. The operations' values are those of the code, in bits and bytes; a shift
by `n` is `PowerOf2[n]`, a recursive function and not the built-in power, so that
proofs can unfold it. A delimiter and its bound may be empty, which `find` refuses;
`None` is no bound. `claims` is history: for each cursor the position it was put at
without a read (by `seek` or its making) and the bytes cited for what it read since.

In `Specs` and the modules over it a field is a record of its type, its
repetition and its condition; names of fields are strings only where something
looks one up. `Walk` is `_walk_types`, everything a field's type nests, found by
looking `TypeNesting` types deep; every type is a finite term, so some number is
deep enough for all of a specification's, and `WalksWhole` says that this one is.
`SpecLoops`
has one variable for each loop's set and one action per visit; a visit is of *any*
unit that would change something, where the code goes in declaration order. `Whole`
of `SpecAnalyses` is the reference for the widths: all the sequences of reads a
decode of a unit may make, to a nesting of `Nesting`.

In `Message` one stack of frames serves both implementations, since their code
visits units, elements, cases and targets in the same order. `how` says which of
them decodes; where they differ, the generated module's version is named `Gen...`.
`m` holds the position, the size in force (a pointer lowers it to its ceiling), the
limit, the hops and the leaves read. A message that was found truncated with its end
known is decoded again with the missing bytes (`extended`), and one with bytes
behind it without them (`alone`). Expressions there are of the few shapes the
specifications use; `Expressions` is about the language itself.

In `Expressions` a text is a sequence of tokens and a character a number. `Places`
are where an expression may stand: in the entry unit, at a select with and without an
alias, in a unit that the entry decodes, and in one that two units decode. So `this.`,
`parent.` and `root.` lead where they do in the code: through every caller for the
checker, through the frame of the caller there is for the interpreter, and through
the arguments of the generated function for Python. Fields are of every kind an
expression can name or be refused: integers, text, bytes, units, transforms kept
raw or decoded, computed and selected fields, switches, repetitions, any of them
under a condition; a concat is bytes, a pointer its target, and parameters of a unit
are left out. `code` holds the tokens `pygen` renders; `Python` says what Python's
grammar and operators, which are not kober's, make of them. `env` has a frame for each
unit decoded; a message changes what one name holds.

In `Transforms` a codec is what it makes of its data: a sequence of pieces, each a
whole member, one that is cut or one that is corrupt, with the bytes it inflates to.

In `StageRun` the digest is what is hashed, taken to be injective. A message is
what it was decoded with and at which granularity; what it writes is the kinds of
records. `caller` is the dictionary the program holds, which it may change at any
time; `ChangesWhileRunning` says whether also while a module runs.

## Runs

| Run | Bounds | Shows |
|---|---|---|
| `stream_field` | 4 bytes, field granularity | the coverage guarantee, seams, coalescing, dropped guesses |
| `stream_message` | 6 bytes, message granularity | the decision follows the evidence, is taken once and is what the file shows; known starts, termination, the promise of a stage |
| `datagrams` | 3 datagrams in 2 bytes, empty ones included, field granularity | independence, copies, coverage, the promise |
| `unit_fields` | 4 fields in 4 bytes, outputs of 1 byte, 3 units deep, every kind of field | both implementations write the same records in the same order and name the same bytes for the same reasons; no byte cited and named, none silent; nothing of a refused unit or failed output is left; a source is written only through its transform |
| `unit_outputs` | 8 fields of one byte, outputs of 2 bytes, 2 of them nested | the same agreement inside outputs of outputs |
| `cursor` | runs of up to 3 bytes, 2 cursors | every read, search, slice and span returns what the run has at the stream's offsets; an empty delimiter or bound is refused; no cursor gets past a byte that nothing it read cites |
| `spec_analyses` | 2 units of up to 2 of 16 kinds of field, decodes 2 deep | what the checker and the planner conclude is so of the decodes: bytes are left for each field, message tails are last, repetitions and recursion advance, the plan is closed, the loops end |
| `message` | a byte and two of 29 further fields, a second unit, 1 deep, 2 hops | both implementations come to the same outcome; the end of a truncated message is its end; what follows a message does not matter; work is bounded |
| `transforms` | 2 users, up to 3 pieces, a limit of 2 bytes | limits are exact, names stay bound, failures say what the data is, every run ends |
| `expressions` | 288 expressions, each in one of 6 places, messages that differ from a first one in up to 3 names | what was checked never meets another type; both implementations agree; nothing unexpected is raised; what is quoted parses back; only what is referenced matters |
| `to_int_escapes` | numbers of 2 digits, 1 of which Python converts | violation: a decode raises |
| `stage_run` | 6 documents, 7 sets of parameters, modules of 3 vintages, 2 outputs | the digest is that of what decoded each message; one digest is one configuration; the declared adjacency fits; both implementations declare alike |

Several of the checked properties are conjunctions of named parts, so that a run
asks one question at a time (`WhatLiesBetween`, `DecisionIsCarriedOut`,
`DatagramsStandAlone`, `SameFile`, `TakenBack`, `ReadsAreExact`, `BytesAreLeft`,
`DecodesAdvance`, `WorkIsBounded`, `NamesStayBound`, `NeverRaises`,
`DecodedAsConfigured`, `RecordsAsDeclared`); the modules state each part.

`Extent` is the only bound of a byte stream. Four bytes hold a run, a gap and a
run with a message cut and resumed; at field granularity each message also
splits in a record and a region, or two regions, at any byte. Six bytes hold
two gaps and three runs, so a cut message can end past the run after the gap,
be swallowed by the next gap, or be resumed a second time; message granularity
keeps that space small. For datagrams the order of the decision, copies and
failures is what matters, so three datagrams of up to two bytes are enough for
a copy before the decision, after a confirm and after a decline.

In `UnitDecode` a unit has at most `MaxFields` fields altogether. Four fields are
enough for a source, an argument, a transform and a transform of its output, or
for chunks, their concat, its transform and a failure after it; four bytes for
two chunks with data. Eight are enough for an output within an output with an
argument of its own, and a failure outside.

Two units are enough for a unit that reads to the end inside one that goes on, for
recursion through a condition, a pointer or a switch, and for a unit reached both
from a tail and from elsewhere. Three bytes and two hops are enough for a pointer
out of a pointer's target, whose chain the limit then cuts; depth 1 for a
recursion the guard refuses. Of `Expressions` the expressions name at most three
things that may change, which is `MaxChanged`. `MaxDepth` is 64, `MaxHops` 16, `MaxShift` 1024 and
`MaxDigits` 4300 in the code. Two outputs are what the properties of `StageRun`
compare.

Fairness. The stage modules state `WF_vars(Next)`: a stage is one thread that waits
for nothing, so it takes a step whenever it has one. `SpecAnalyses` states the same
of the loops (in `SpecLoops`), for the same reason. `Transforms` states weak fairness of `Running`
only: a transform is a call that runs until it returns, taking a caller's own
function to return, while nothing obliges a program to start one. The other
modules have no liveness property and state none; of `Message` the bounds on
depth, hops and elements (`WorkIsBounded`) say what termination needs.

Deadlock is checked in `Cursor`, `Message`, `Transforms` and `StageRun`. The other
configurations turn it off, because the system does stop there: the stream's or
the message's output is complete, the loops have ended, an expression was refused
and is not decoded with.

### What the runs say against the documentation

- `to_int_escapes`: `to_int` hands its digits to Python's `int`, which refuses more
  than 4300 of them with an exception that neither implementation catches.

The following are cases the passing runs leave out, each by a constant. Giving the
constant its other value makes TLC show what the code does.

Of the stage (`Quirks` of `StreamField.cfg`):

- `empty_transform`: `_decode_run` continues at the same offset when a transform
  fails in a message that consumed nothing (`Terminates`). Its guard against such
  messages looks only at a message that decoded whole.
- `unordered_regions`: `_undecoded` joins a region to the pending one when the
  pending one *ends* at or after its start, and keeps the pending start. A
  generated module names a failed transform's source when the transform runs,
  so a region may begin before the pending one; its first bytes are lost
  (`CitedOrNamed`).
- `sub_byte`: a message of, say, 12 bits cites the byte it ends in; the next
  message starts in that byte and, failing, names it (`CitedOrNamed`).
- `UndecodableWasTried`, at message granularity and 6 bytes: a run that lies inside
  a cut message is held without being tried, and becomes `undecodable` when the
  stream is declined.

Of what is written of a message (`Quirks` of `UnitFields.cfg`, or for
`skipped_in_output` of `UnitOutputs.cfg`):

- `chained_arguments`: a transform cites its source and its arguments. When its
  output is the source of a second transform and that one fails, `_transform`
  names the first one's whole range, although the docstring says that argument
  fields keep their own records (`NeverBoth`).
- `skipped_in_output`: `_transform` takes back the `skipped` regions of a
  transform's arguments by comparing offsets. In an output the argument's offsets
  are the output's, and the region of an unrelated field of the input is taken
  back (`SameFile`).
- `silent_output`: a transform whose output writes no record takes its source's
  record back in a generated module, and nothing names the source's bytes. The
  interpreter's emitter finds the hole and names it `skipped` (`AllSpokenFor`).
- `shared_source`: two transforms of one source of which one fails leave its
  bytes both cited and undecodable (`NeverBoth`).
- `skipped_in_range`: a concat cites from its first datum to its last, sizes
  that are `emit: none` between them included; likewise a transform whose source
  and argument have such a field between them (`NeverBoth`).
- `skipped_const`: a constant that is `emit: none` and does not match is `skipped`
  by the interpreter and `undecodable` by a generated module (`SameFile`).
- `skipped_chain`: an `emit: none` transform of a transform that failed leaves
  the source named twice in a generated module, for two reasons (`SameFile`).
- `nested_argument`: an argument inside a nested unit makes the interpreter cite
  that whole unit, and a generated module nothing (`SameFile`).

Of the analyses (`FieldChoices <- MCEndFields` in `SpecAnalyses.cfg`, with
`NothingAfterToEnd`):

- a repetition that runs to the end of the input (`to_end`) is not among what makes
  a unit terminal, so a field after it is accepted and can never be read.

Of a message (the definitions of `MCMessage` for `Specifications` in `Message.cfg`):

- `MCEndlessRepeat`: `_field_consumes` does not look at a field's repetition, so a
  unit whose only field is repeated is taken to consume; the generated loop over
  such units drops its progress check and does not end where the field has no
  element. The interpreter stops (`WorkIsBounded`).
- `MCNestedSwitch`: `_branches` flattens a switch in a switch, and the compiled
  choice is made by the outer selector for both (`SameOutcome`).
- `MCPointerSearch`: a delimiter is searched for past the ceiling of a pointer by
  the generated module (`SameOutcome`).
- `MCPointerSwitch`: of a switch whose cases are all pointers the generated module
  follows one whatever the selector says (`SameOutcome`).
- `MCPointerToPointer`: a pointer whose target is a pointer has a plan of the
  inner one's offset only (`SameOutcome`).
- `MCAbsentSelect`: a select over a repetition that its condition left out meets an
  unset local in the generated module (`SameOutcome`).
- `MCAliasShadows`: a select's alias that is a field's name removes that field
  from the interpreter's scope when it ends (`SameOutcome`).

Of expressions (`MCCases` and `MCPlaces` of `MCExpressions`):

- `parent.k` where two units decode this one, and `k` is under a condition in the
  second of them only: the generator looks at the first, and the generated module
  meets a `None` with a `TypeError`, which escapes (`SameAnswer`, `NeverRaises`).
- `parent.r`, `root.r` or `u.r` in an `until` or a `select` without an alias, on a field
  named `r`, where the path leads to a repeated field that is also named `r`: the
  checker compares names and takes it for an element; the interpreter finds no scalar
  value, and the generated module raises a `TypeError` (`NeverRaises`).

Of a run (`ChangesWhileRunning = TRUE` in `StageRun.cfg`, `DecodedAsConfigured`):

- `run_compiled` writes the digest of a checked copy of the parameters, and hands
  the caller's own dictionary on with every stream; a program that changes it in
  the meantime gets messages decoded with other parameters than the output says.
  `document_params` says that it changes neither.

Met while modelling and in no run: a parameter of the document named `this.p` or
`root.p` passes the checker and the interpreter and is refused by the generator; a
field named like `u.k`, where `k` is a parameter of the unit `u`, passes the checker
and neither implementation can read it; a chain of more than 64 distinct units is
refused by the interpreter and not by a generated module, which guards recursive
units only; computed fields that refer to each other in a circle make `check` itself
recurse without end, as does one of the entry unit that names itself as `root.x`;
an entry unit that decodes itself and names `root.x` is generated without the argument
the name needs, and calling it is a `TypeError` where the interpreter reads the
outermost unit's; the Kelvin sign, which `lower` makes a `k`, passes for a digit in
bases above 20 and makes `int` raise, as in `to_int_escapes`; the docstring of `unparse`
says that what is written parses back to the same tree, where an `and` of `and`s or
an `or` of `or`s comes back flat, with the same meaning (`SpelledBack` compares flattened
trees); and the token of a computed integer is not always the
narrowest that holds it.

## Proofs

TLAPS proves the following. None of it has a bound in it; each holds from the named
assumptions on the constants, which only say of what kind they are, unless more is
said here.

| Module | Theorem | States | For |
|---|---|---|---|
| `StageStreamProofs` | `TypeCorrect` | `[]TypeOK` | every `Extent`, `Emit`, `Quirks` |
| | `DecisionTakenOnce` | `DecidedOnce` | the same |
| | `KnownStartsAreStarts` | `[]KnownIsAStart` | the same |
| | `DroppedGuessesLeaveNothing` | `[]NothingFromADroppedGuess` | the same |
| | `BlocksAgree` | `[]WhatLiesBetween` | the same |
| | `DecisionIsSound` | `[]DecisionIsCarriedOut` | the same |
| | `EveryByteOnce` | `[]CitedOrNamed` | orderly steps |
| | `PromiseKept` | `KeepsItsPromise` | orderly steps |
| `StageDatagramsProofs` | `TypeCorrect`, `DecisionTakenOnce`, `BlocksAgree` | `[]TypeOK`, `DecidedOnce`, `[]WhatLiesBetween` | every `MaxDatagrams`, `Extent`, `Emit`, `Quirks` |
| | `EachStandsAlone`, `PromiseKept` | `[]DatagramsStandAlone`, `KeepsItsPromise` | orderly steps |
| `CursorProofs` | `PositionsStayInside`, `OffsetsStayAbsolute`, `NothingConsumedUnclaimed` | `[]TypeOK`, `[]WindowsOfTheRun`, `[]ConsumedIsClaimed` | every set of runs, counts and searches, any number of cursors |
| | `ReadsAreTrue` | `[]ReadsAreExact` | the same |
| `TransformsProofs` | `LimitsHold`, `NamesStay`, `FailuresAreOfTheData` | `[]WithinTheLimit`, `[]NamesStayBound`, `[]SaysWhatTheDataIs` | any registry, data and callers' functions |
| `StageRunProofs` | `DigestsAreTrue`, `DigestsTellConfigurationsApart` | `[]DecodedAsConfigured`, `[]OneDigestOneConfiguration` | while no dictionary changes under a module |
| | `DeclarationsFit` | `[]RecordsAsDeclared` | any documents, parameters, vintages |
| `SpecLoopsProofs` | `LoopsAreExact` | `[]PlanIsClosed` | every finite set of units, any fields |
| | `TurnsAreNotInVain` | `EveryTurnFindsMore` | the same |
| | `AllBelowIsLeast` | what `AllBelow` is | the same |
| `UnitDecodeProofs` | `NothingLeftBehind` | `[]TakenBack` | every `Extent`, bound, kind of field, `Quirks` |
| | `EveryByteSpokenFor` | `[]AllSpokenFor` | the same without `silent_output` |

### The stage

`Orderly` says that `Quirks` has neither `unordered_regions` nor, for a byte stream,
`sub_byte`: a step names bytes in their order, and a message ends at a byte.
These are the two behaviours over which the code loses or repeats bytes (above), so
without them coverage is false and with them it is a theorem. They depend on
the specification, not on the input: the interpreter names regions in order, and so
does a generated module without transforms; and most protocols have messages of
whole bytes. `empty_transform` is allowed
throughout: it costs termination, not coverage. A datagram is decoded from a byte
to its end and nothing resumes inside it, so `sub_byte` does no harm there.

The invariants are built in layers, each inductive relative to those before it.

1. *Types and order.* `TypeOK` is inductive as it stands; what a step may return is
   bounded by `OutcomesType`, and what reaches the file by `PutNextType`.
   `DecodesUndeclined` says that no run of a declined stream is being decoded; with
   it a message can confirm or decline only an undecided stream
   (`DecisionTakenOnce`). `SenderInv` adds that a resume offset is a start and that
   what a step returned from a start leads to one (`KnownStartsAreStarts`): the
   property speaks of the head of the message loop, but is decided by what was kept
   since an earlier run. `DroppedInv` says that the driver only moves forward:
   dropped bytes are behind the frontier, records are not past what was read, and
   strictly behind the frontier while the next message is a guess
   (`DroppedGuessesLeaveNothing`).
2. *Where things are.* `JudgeInv`, `SettledInv` (`StageInv` for datagrams): what is
   being judged is what a step may return from there; the file is empty before the
   decision; nothing is left in line after the end. Together, `Settled`.
3. *Accounts.* Coverage is not inductive, since until the decision the file says
   nothing. `Account(d, n, out, pending, held)` says that the file, the pending
   region and the queue, read as the stream being believed (`d = FALSE`) or declined
   (`TRUE`), speak once of each byte below `n` and of no other, in order.
   Believed, `n` is `Told`, what the messages have spoken of; declined, it is `pos`,
   since a run is then named whole. Both accounts are kept until the decision drops one
   (`BelievedInv`, `RefusedInv`). A call adds to the end (`AccountHold`) and
   `PutInFile` moves one entry across (`AccountPut`); that a step adds calls for just
   the bytes it consumed is `OutcomesSpoken`, and `AddsReading`, `AddsStep` and the
   like say it of each action of the driver.
4. *Between the blocks.* `BlocksInv`: the blocks in the file agree with what lies
   between them (`Lies`), the seam owed is that of the holes since the last record,
   and the pending region does not agree with a region that ends the file (`Ends`). Nothing is
   asked of the order of bytes, so it needs no `Orderly`.
5. *Decisions.* `MarkInv`, `UndecidedInv`, `EvidenceInv`: the flags `_lost` and
   `_transform_failure` are raised by verdicts of their kind, no verdict is
   forgotten while undecided, and a decision taken fits all that were seen.
   `RefusalInv` and `TriedInv` follow what a declined stream holds on its way to the
   file: every offset tried is in a run still held, or in a region that is
   undecodable with the comment of the decision. For datagrams `CopyInv` does the
   same for copies.

`KeepsItsPromise` is the safety part of `StagePromise`, mapped by what the file says
of each byte. Its proof has one step per kind of action: reading a chunk is
`Read`; a datagram with no bytes is a stutter; a verdict or the end of the stream is
`Decide` or a stutter; `PutInFile` and the last flush are `Account`. That
`Account` takes nothing back, and never names what is cited, is layer 3; that it
leaves nothing out at the end is that the queue and the pending region are then
empty.

### The cursor

The inductive invariant is `TypeOK` with `WindowsOfTheRun`; `ReadsAreExact` follows
from it, one lemma for each of its parts. `ConsumedIsClaimed` is inductive with
them: an operation that moves a cursor forward cites, by its own range, every byte it
goes over (`CitesOn`), whole ones and those it only begins or ends in; one that is
refused stays; what `align` skips lies in a byte that was cited; and only `seek` and the making of a cursor put it elsewhere. `ReadsSay`: a read walks bits or bytes by
recurrences (`value << 1 | bit`, `from_bytes`) and the reference counts weights
from the other end of the run, so their equality is an induction over the number of
digits: `PlaceValues`, for bits in base 2 and bytes in base 256, and
`BytesAreBits` between the two. `DigitsBound` says that `n` bits are less than
`PowerOf2[n]`, which puts a two's complement in its range. `TruncatedAtTheEnd` and
`CitedOutward` are arithmetic of positions; `FoundFirst` uses that a nonempty set
of places has a least (`LeastNat`); `SlicedByOffset` is clipping.

### Transforms

`RunsInv` adds to the types that what has run is what the user holds, that a user's
names are never bound anew once it is ready, that an inflating output is at most
its limit plus what the engine was asked for, and that an accepted output is within
the limit. `FailuresAreOfTheData` adds `ReadSoFar`: what has been read is a number
of whole members, what has come out is what they inflate to, and what is left is
the rest. What the data inflates to is a recursive sum over its pieces; that it
only grows, and passes the limit where the loop says so, is an induction over the
pieces (`CountGrows`). `MembersAssumption` says that only the last piece of a
source is cut or corrupt, since what follows such a piece is not read as a member.

### Runs

`RunInv` adds what a decoder and a module hold (`Holding`), that a run was started
for what it decodes with now (`Underway`), and that an output's messages are all of
one granularity, which its records and its adjacency follow from (`Consistent`).
`SameKinds` is why the generator's one granularity per unit is enough: where it
does not refuse, all sites agree.

### The loops over a specification's units

A loop that visits units in some order until nothing changes is right if it arrives
at a set that does not depend on the order. `PlanIsClosed` says which set: everything
below the entry, and below each unit; the *least* set that holds every unit the
terminal rule says reads to the end; the *greatest* set of units reached only from
tails of units in it. `TypeOK` is inductive; the rest needs `LoopInv`, which says of
each loop two things that hold at every turn. What has been found lies inside every
set that is closed under the loop's rule (so it is never too much), or, for the set
that shrinks, holds every such set (so it is never too little); and once the loop is
left, what it found is itself closed. `EndsThroughMore` and `LeavesSmaller` say
that the rules are monotone, which keeps the first of these when another unit is
added or discarded.

`ClosuresAreWhole` speaks of `AllBelow`, which counts levels of calls and not closed
sets. `AllBelowIsLeast` joins the two: levels only grow, there are no more of them
than units (`LevelsSettle`, by cardinality), and so the last one is closed and in
every closed set that holds the first. `TurnsAreNotInVain` is what bounds the loops: each turn
changes a set, in one direction. That they do end is liveness, and TLC's.

`UnitsAssumption` says that the units are finitely many and hold the entry;
`FieldsAssumption` that fields name units of the specification, which `check`
refuses them for otherwise, and that a walk sees all of a field's type.

### What a message leaves

A generated module writes as it reads and takes back what turns out wrong: a refused
guard and a failed output `retract` what they read, a transform `withdraw`s its
source's record and `take_over`s what its arguments wrote. The two theorems
say that these leave neither too much nor too little. Both are about calls that undo
calls made by *other* units, some of them finished, so both are carried by an
invariant of the whole stack of frames.

`NothingLeftBehind`. `Inv` says of each frame (`FrameOK`) that its nodes lie inside
what it has read, that a concat or a transform reads an earlier node of the kind it
needs (`Reads`), and that the records it holds have distinct paths, each of which
*stands* (`RecordsStand`, `Stands`): it leads, from field to field, to a node that
no guard refused, no transform failed over and nobody took over. `Stacked` adds that
each unit is read inside the one below it, and `OutOK` says the same of what has been
written. It is inductive because whatever a step does to the writes *thins* them: it
keeps some of them in their order (`Thins`). `Retract`, `Withdraw`, `take_over` and the
release of an output at its transform's offsets (`Recited`) are each shown to do so,
and each to leave out the paths that the step's new node makes unfit to stand. Reading
another field makes no path unfit but that of the one it takes over (`StandsOn`).
`Siblings` follows a path down a tree by a recursive function; that a path into a
nested unit stands in the unit around it exactly when its rest does in the nested one
is an induction over its length. The theorem holds whatever `Quirks` are.

`EveryByteSpokenFor`. Being spoken for is not inductive by itself, for two reasons. A
record that `Withdraw` takes away may have been the only one of its bytes: what
replaces it must be shown to cite them, so a record has to be known to cite no more
than its own field (`Fits`). And a concat's record repeats what its data wrote, so
counting it would leave a hole when a transform takes it over with them: each byte
must be in a write held that is not a concat's (`Speaks`, `Joins`). `Accounts` is
these two with what bounds a node from below (`Begun`), and `SpokenInv` asks it of
every frame, with what the file says at the end (`OutSpeaks`). One lemma for each
action says that it keeps `Accounts`; those of the transforms come down to
`TransformAccounts`: what is left, with what the transform writes, still speaks for
every byte. The hypothesis is needed: in an output that holds fields but writes no
record there is nothing to cite the source by, and its record is taken back all the
same (`silent_output`, above). It excludes nothing else; a byte may well be both
cited and named under the other quirks, but none is silent.

### Induction over data

The library's induction theorems take an operator as a parameter and cannot be used
here. The proof modules that need it state induction for a set instead, from the
library's theorem that a well-founded relation has minimal elements: `LeastNat`,
then `SetInduction`. With it, recursive *functions* over numbers can be reasoned
about, which is what the cursor, the transforms, the levels of `SpecLoops` and the
loops of the sinks need; `SomeIterates` says that an operation can be repeated any
number of times.

### What stays with TLC

- Liveness: `Terminates` and `EveryRunEnds` are out of the prover's reach, as
  is the fairness of `StagePromise`'s refinement; so only its safety part is stated.
- `Ends` of `SpecLoops` likewise; `TurnsAreNotInVain` is its safety part.
- What `SpecAnalyses` says of decodes (`BytesAreLeft`, `TailsAreLast`,
  `DecodesAdvance`): widths are recursive over types and fields, and so is `Whole`;
  what they say of each other is an induction over that data.
- `UnitAgreement`, `Message` and `Expressions`: the emitter, the fields of a message
  and expressions are walked by recursive operators, and modules that hold those
  cannot be proved about as they stand. `NeverBoth` and `SameFile` say what the
  emitter makes of a tree too, and so stay with them.

## Not modelled

Timestamps, content types and payloads; the `zpf` library, which is used
through its decode stage (streams in, records and undecoded blocks out);
`content_registry`; the loader and the checks that look at one declaration at a
time, which keep no state and read no input; how the Python is printed; the
command line and the tools, which start other programs and move files.

Of a message: text and its encodings, bit fields inside a message (`Cursor` has the
reads), constants outside `UnitDecode`, the reasons a transform's declaration may
give for its failure (`fails_as`), and a message that has both pointers and
transforms. `Message` compares what is read, `UnitDecode` what is written; no one
module does both, so what `emit: none` makes of a field below a pointer is in no
run. A unit with neither guard nor transform, whose generated function writes
straight through, is not told apart from one that holds its writes.

`StageStep` remains the stage's contract for a step. `UnitDecode` checks it for
one message (`NeverBoth`, `AllSpokenFor`), but the two are not composed.

## Plan

Done: the stage's drivers, writer and entry points with their promise and theorems;
the sinks, the emitter and both decoders; the cursor, transforms, the analyses and
the expressions. Left, in order:

1. `Message` and `UnitDecode` together: records under pointers, switches and
   conditions; `emit: none` under a pointer; `fails_as`.
2. `StageStep`'s outcomes shown to be what that module can leave.
3. Proofs: `EmitPlan` with its walk as a recursive function over the depth of a tree,
   and then `SameFile`, for which `UnitDecodeProofs` says what is held on one side:
   `Inv` that no record is too many, `SpokenInv` that no byte is missing.
