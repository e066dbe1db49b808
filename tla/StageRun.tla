------------------------------ MODULE StageRun ------------------------------
(***************************************************************************)
(* A program decodes files: it makes a decoder of a document or compiles a *)
(* module from it, hands either its parameters, and runs one file after    *)
(* another (Decoder.__init__ and run of kober.decoder, run and             *)
(* run_compiled of kober.stage).  Each output says which configuration     *)
(* wrote it, and how its records lie next to each other.                   *)
(*                                                                         *)
(* A value is [type, data], where data is a sequence: of one <<v>>, or of  *)
(* the entries <<k, v>> of a map in the order the caller built it.         *)
(***************************************************************************)
EXTENDS Naturals, Sequences, FiniteSets

CONSTANTS
  Documents,            (* what a document says of its run: below          *)
  Suppliable,           (* the parameters a caller may supply, by name     *)
  Vintages,             (* the constants a module was generated with       *)
  MaxOutputs,           (* bound: files written                            *)
  ChangesWhileRunning   (* whether the caller's parameters may change      *)
                        (* while a module is run with them                 *)

ASSUME BoundsAssumption == MaxOutputs \in Nat
ASSUME ChangesAssumption == ChangesWhileRunning \in BOOLEAN

VARIABLES
  document,   (* the specification                                         *)
  caller,     (* the parameters the caller's dictionary holds              *)
  decoder,    (* <<>>, or the decoder made last                            *)
  module,     (* <<>>, or the module compiled last                         *)
  job,        (* <<>>, or the run under way                                *)
  outputs     (* what was written, by runs that ended and that broke off   *)

vars == <<document, caller, decoder, module, job, outputs>>

Granularities == {"message", "field", "none"}
Inherited     == "inherited"

(* A document declares its parameters' types, the granularity of its entry *)
(* unit and of the one unit below it, that of each field that names this   *)
(* one, and the shape of its input.                                        *)
DocumentType ==
  [params : UNION {[names -> {"int", "bytes", "map"}] : names \in SUBSET {"key", "table"}},
   entry  : Granularities \cup {Inherited},
   inner  : Granularities \cup {Inherited},
   sites  : SUBSET (Granularities \cup {Inherited}),
   shape  : {"stream", "datagram", "either"}]

ASSUME DocumentsAssumption == Documents \subseteq DocumentType

Or(emit, default) == IF emit = Inherited THEN default ELSE emit

-----------------------------------------------------------------------------
\* A bug kept as a mutant: a parameter too many is let through.
document_paramsAny(supplied) ==
  \A name \in DOMAIN document.params :
    name \in DOMAIN supplied /\ supplied[name].type = document.params[name]

(* Every declared parameter, no other, each of its type.                   *)
document_params(supplied) ==
  /\ DOMAIN supplied = DOMAIN document.params
  /\ \A name \in DOMAIN supplied : supplied[name].type = document.params[name]

\* A bug kept as a mutant: a map counts as it was built.
DigestibleAsBuilt(value) == <<value.type, value.data>>

(* A map counts as its entries, in whatever order they were put in.        *)
Digestible(value) == <<value.type, {value.data[j] : j \in DOMAIN value.data}>>

(* The digest stands for what goes into it: two of one value are one.      *)
params_digest(emit, params) ==
  [spec |-> document, emit |-> emit,
   params |-> [name \in DOMAIN params |-> Digestible(params[name])]]

\* A bug kept as a mutant: the decoder's default, whatever the entry says.
root_emitDefault(default) == default

(* The entry unit's granularity, from the document alone.                  *)
root_emit(default) == Or(document.entry, default)

(* And what is resolved at the root of each tree.                          *)
resolve_emit(default) == Or(document.entry, default)

_adjacency(emit) == IF emit = "field" THEN "units" ELSE "carried forward"

(* A unit named by fields of two granularities is resolved where it stands *)
(* by the interpreter, and refused by the generator.                       *)
AtSite(site, emit) == Or(site, Or(document.inner, emit))

Compilable(emit) ==
  \A s, t \in document.sites : AtSite(s, emit) = AtSite(t, emit)

Below(emit) == {AtSite(site, emit) : site \in document.sites}

(* The records one message leaves: the whole of it, or those of its leaves *)
(* and of the units below it.                                              *)
Written(emit) ==
  IF emit = "message" THEN {"message"}
  ELSE IF emit = "none" THEN {}
  ELSE {"field"} \cup (Below(emit) \cap {"field"})
         \cup {"unit" : g \in Below(emit) \cap {"message"}}

\* A bug kept as a mutant: a module's unit goes by the unit's own setting.
granularityOfTheUnit(emit) == Or(document.inner, emit)

(* One granularity for the unit, worked out from the sites that name it.   *)
granularity(emit) ==
  IF document.sites = {} THEN emit ELSE CHOOSE g \in Below(emit) : TRUE

WrittenByModule(emit) ==
  IF emit # "field" THEN Written(emit)
  ELSE {"field"} \cup (IF document.sites # {} /\ granularity(emit) = "message" THEN {"unit"} ELSE {})

(* Only a datagram specification over a byte stream is refused.            *)
_check_shape(shape, stream) == ~(shape = "datagram" /\ stream = "bytes")

-----------------------------------------------------------------------------
Init ==
  /\ document \in Documents
  /\ caller \in Suppliable
  /\ decoder = <<>>
  /\ module = <<>>
  /\ job = <<>>
  /\ outputs = {}

Idle == job = <<>>

ModuleRuns == \E j \in DOMAIN job : job[j].by = "module"

(* The caller changes its own dictionary.                                  *)
Change ==
  /\ ModuleRuns => ChangesWhileRunning
  /\ caller' \in Suppliable
  /\ UNCHANGED <<document, decoder, module, job, outputs>>

(* A decoder keeps the values it checked.                                  *)
MakeDecoder ==
  /\ Idle
  /\ document_params(caller)
  /\ \E emit \in Granularities : decoder' = <<[emit |-> emit, params |-> caller]>>
  /\ UNCHANGED <<document, caller, module, job, outputs>>

CompileModule ==
  /\ Idle
  /\ \E emit \in Granularities, has \in Vintages :
       /\ Compilable(root_emit(emit))
       /\ module' = <<[emit |-> root_emit(emit), has |-> has]>>
  /\ UNCHANGED <<document, caller, decoder, job, outputs>>

Started(by, emit, digest) ==
  [by |-> by, digest |-> digest, adjacency |-> _adjacency(emit),
   messages |-> {}, records |-> {}]

Run ==
  /\ Idle /\ decoder # <<>>
  /\ LET emit == root_emit(decoder[1].emit)
     IN  job' = <<Started("decoder", emit, <<params_digest(emit, decoder[1].params)>>)>>
  /\ UNCHANGED <<document, caller, decoder, module, outputs>>

(* A module without EMIT is refused, one without SPEC_DIGEST writes none.  *)
RunCompiled ==
  /\ Idle /\ module # <<>>
  /\ "EMIT" \in module[1].has
  /\ document_params(caller)
  /\ LET emit   == module[1].emit
         digest == IF "SPEC_DIGEST" \in module[1].has THEN <<params_digest(emit, caller)>> ELSE <<>>
     IN  job' = <<Started("module", emit, digest)>>
  /\ UNCHANGED <<document, caller, decoder, module, outputs>>

\* A bug kept as a mutant: a decoder keeps the caller's own dictionary.
InForceShared == caller

(* What a message is decoded with.  A decoder has its own copy; a module   *)
(* is handed the caller's dictionary anew with every stream and checks it  *)
(* with every message.                                                     *)
InForce ==
  IF job[1].by = "decoder" THEN decoder[1].params ELSE caller

GranularityInForce ==
  IF job[1].by = "decoder" THEN resolve_emit(decoder[1].emit) ELSE module[1].emit

Accepts(stream) ==
  /\ job[1].by = "module" => document_params(caller)
  /\ IF job[1].by = "decoder" \/ "INPUT" \in module[1].has
       THEN _check_shape(document.shape, stream) ELSE TRUE

Message(stream) ==
  /\ ~Idle
  /\ Accepts(stream)
  /\ job' = <<[job[1] EXCEPT
       !.messages = @ \cup {[with |-> InForce, emit |-> GranularityInForce]},
       !.records  = @ \cup IF job[1].by = "decoder" THEN Written(GranularityInForce)
                           ELSE WrittenByModule(GranularityInForce)]>>
  /\ UNCHANGED <<document, caller, decoder, module, outputs>>

(* The end of the input, or an error that breaks the run off, a stream of  *)
(* another shape or parameters that fit no more: what it wrote until then  *)
(* is there.                                                               *)
Ended ==
  /\ ~Idle
  /\ outputs' = outputs \cup {job[1]}
  /\ job' = <<>>
  /\ UNCHANGED <<document, caller, decoder, module>>

Next ==
  \/ Change
  \/ MakeDecoder \/ CompileModule
  \/ Cardinality(outputs) < MaxOutputs /\ (Run \/ RunCompiled)
  \/ \E stream \in {"bytes", "datagrams"} : Message(stream)
  \/ Ended

Spec == Init /\ [][Next]_vars
-----------------------------------------------------------------------------
(* What is held keeps its type, and every message, in whichever run and    *)
(* however the caller's dictionary was changed, was decoded with each      *)
(* parameter the document declares and no other (runtime.document_params). *)
Fits(params) ==
  /\ DOMAIN params = DOMAIN document.params
  /\ \A name \in DOMAIN params : params[name].type = document.params[name]

Jobs == outputs \cup {job[j] : j \in DOMAIN job}

TypeOK ==
  /\ document \in Documents
  /\ caller \in Suppliable
  /\ Len(decoder) <= 1 /\ Len(module) <= 1 /\ Len(job) <= 1
  /\ \A o \in Jobs : \A m \in o.messages : m.with \in Suppliable /\ Fits(m.with)

(* An output's digest is that of what each of its messages was decoded     *)
(* with: of a decoder whatever the caller does to its dictionary after, of *)
(* a module as long as it leaves it alone until the output is written      *)
(* (Decoder.params_digest, stage.run_compiled).                            *)
DigestSaysWhatDecoded ==
  \A o \in Jobs : \A m \in o.messages :
    o.digest # <<>> => o.digest[1] = params_digest(m.emit, m.with)

(* Every message was decoded with what the document asks for, and with     *)
(* what its output's digest says it was.                                   *)
DecodedAsConfigured == TypeOK /\ DigestSaysWhatDecoded

(* The values a decode can tell apart: of a map, what each key gives.      *)
Meaning(params) ==
  [name \in DOMAIN params |-> {params[name].data[j] : j \in DOMAIN params[name].data}]

(* Two outputs bear one digest exactly when they were decoded alike, by a  *)
(* decoder or by a module, and however their parameters were put together  *)
(* (runtime.params_digest).                                                *)
OneDigestOneConfiguration ==
  \A o, p \in Jobs : \A m \in o.messages, n \in p.messages :
    o.digest # <<>> /\ p.digest # <<>> =>
      (o.digest = p.digest <=> m.emit = n.emit /\ Meaning(m.with) = Meaning(n.with))

(* An output that holds records of single fields says that they are units, *)
(* and one that holds whole messages does not: what it says is settled     *)
(* before any is decoded (stage._adjacency, emit.root_emit).               *)
DeclaresWhatItHolds ==
  \A o \in Jobs :
    /\ "field" \in o.records => o.adjacency = "units"
    /\ "message" \in o.records => o.adjacency # "units"

(* A decoder and a module of one document, at one granularity, write the   *)
(* same kinds of records and declare them alike (pygen.granularity).       *)
WrittenAlike ==
  \A o, p \in Jobs : \A m \in o.messages, n \in p.messages :
    m.emit = n.emit => o.records = p.records /\ o.adjacency = p.adjacency

(* What an output says of its records is true of them, and the same        *)
(* whichever implementation wrote it.                                      *)
RecordsAsDeclared == DeclaresWhatItHolds /\ WrittenAlike
=============================================================================
