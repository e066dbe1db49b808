--------------------------- MODULE StageRunProofs ---------------------------
(***************************************************************************)
(* What holds of runs and their outputs for any documents, any parameters  *)
(* a caller may supply, modules of any vintage and any number of outputs.  *)
(***************************************************************************)
EXTENDS StageRun, TLAPS

(* A decoder keeps parameters it checked, a module a granularity each of   *)
(* its units has one of.                                                   *)
Holding ==
  /\ document \in Documents /\ caller \in Suppliable
  /\ decoder # <<>> =>
       /\ decoder = <<decoder[1]>>
       /\ decoder[1].emit \in Granularities
       /\ decoder[1].params \in Suppliable
       /\ Fits(decoder[1].params)
  /\ module # <<>> =>
       /\ module = <<module[1]>>
       /\ module[1].emit \in Granularities
       /\ Compilable(module[1].emit)

(* What is to be known of an output, and of one under way.                 *)
Consistent(o) ==
  /\ o.messages = {} => o.records = {}
  /\ o.digest # <<>> => o.digest = <<o.digest[1]>>
  /\ \A m \in o.messages :
       /\ m.emit \in Granularities
       /\ m.with \in Suppliable
       /\ Fits(m.with)
       /\ o.records = Written(m.emit)
       /\ o.adjacency = _adjacency(m.emit)
       /\ ~ChangesWhileRunning /\ o.digest # <<>> =>
            o.digest[1] = params_digest(m.emit, m.with)

(* A run under way was started for what it decodes with now: at one        *)
(* granularity, and with parameters that cannot have changed since.        *)
StartedFor(o, emit, params) ==
  /\ o.adjacency = _adjacency(emit)
  /\ \A m \in o.messages : m.emit = emit
  /\ o.digest # <<>> => o.digest[1] = params_digest(emit, params)

Underway ==
  job # <<>> =>
    /\ job = <<job[1]>>
    /\ job[1] = [by |-> job[1].by, digest |-> job[1].digest, adjacency |-> job[1].adjacency,
                 messages |-> job[1].messages, records |-> job[1].records]
    /\ Consistent(job[1])
    /\ job[1].by \in {"decoder", "module"}
    /\ job[1].by = "decoder" =>
         /\ decoder # <<>>
         /\ StartedFor(job[1], root_emit(decoder[1].emit), decoder[1].params)
    /\ job[1].by = "module" =>
         /\ module # <<>>
         /\ job[1].adjacency = _adjacency(module[1].emit)
         /\ \A m \in job[1].messages : m.emit = module[1].emit
         /\ ~ChangesWhileRunning => StartedFor(job[1], module[1].emit, caller)

RunInv == Holding /\ Underway /\ \A o \in outputs : Consistent(o)

-----------------------------------------------------------------------------
(* A granularity resolved at the entry is a granularity.                   *)
LEMMA EntryGranularity ==
  ASSUME document \in Documents, NEW emit \in Granularities
  PROVE  /\ root_emit(emit) \in Granularities
         /\ resolve_emit(emit) = root_emit(emit)
<1>1. document \in DocumentType
  BY DocumentsAssumption
<1>2. document.entry \in Granularities \cup {Inherited}
  BY <1>1 DEF DocumentType
<1> QED
  BY <1>2 DEF root_emit, resolve_emit, Or

(* Which records a message leaves tells its granularity.                   *)
LEMMA WrittenTells ==
  ASSUME NEW emit \in Granularities
  PROVE  /\ "field" \in Written(emit) => emit = "field"
         /\ "message" \in Written(emit) => emit = "message"
BY DEF Written, Granularities

(* Where each unit has one granularity, the module that settles on it      *)
(* writes what the interpreter writes.                                     *)
LEMMA SameKinds ==
  ASSUME NEW emit \in Granularities, Compilable(emit)
  PROVE  WrittenByModule(emit) = Written(emit)
<1>1. CASE emit # "field"
  BY <1>1 DEF WrittenByModule
<1>2. CASE emit = "field" /\ document.sites = {}
  <2>1. Below(emit) = {}
    BY <1>2 DEF Below
  <2> QED
    BY <1>2, <2>1 DEF WrittenByModule, Written
<1>3. CASE emit = "field" /\ document.sites # {}
  <2>1. PICK s \in document.sites : TRUE
    BY <1>3
  <2>2. Below(emit) = {AtSite(s, emit)}
    BY <2>1 DEF Below, Compilable
  <2>3. granularity(emit) = AtSite(s, emit)
    BY <1>3, <2>2 DEF granularity
  <2> QED
    BY <1>3, <2>2, <2>3 DEF WrittenByModule, Written
<1> QED
  BY <1>1, <1>2, <1>3

(* What a run under way is and what it left before are all the outputs.    *)
LEMMA JobsAre ==
  ASSUME RunInv
  PROVE  \A o \in Jobs : Consistent(o)
<1>1. CASE job = <<>>
  BY <1>1 DEF RunInv, Jobs
<1>2. CASE job # <<>>
  <2>1. job = <<job[1]>>
    BY <1>2 DEF RunInv, Underway
  <2>2. DOMAIN job = {1}
    BY <2>1
  <2> QED
    BY <1>2, <2>2 DEF RunInv, Underway, Jobs
<1> QED
  BY <1>1, <1>2

(* What an output is depends on the document, which nothing changes.       *)
LEMMA OutputsStay ==
  ASSUME UNCHANGED document, NEW o
  PROVE  Consistent(o)' <=> Consistent(o)
<1>1. \A m : Written(m.emit)' = Written(m.emit)
  BY DEF Written, Below, AtSite, Or
<1>2. \A m : Fits(m.with)' <=> Fits(m.with)
  BY DEF Fits
<1>3. \A m : params_digest(m.emit, m.with)' = params_digest(m.emit, m.with)
  BY DEF params_digest, Digestible
<1> QED
  BY <1>1, <1>2, <1>3 DEF Consistent, _adjacency

LEMMA OperatorsStay ==
  ASSUME UNCHANGED document
  PROVE  /\ \A e : root_emit(e)' = root_emit(e)
         /\ \A e : Compilable(e)' <=> Compilable(e)
         /\ \A e : resolve_emit(e)' = resolve_emit(e)
         /\ \A e, p : params_digest(e, p)' = params_digest(e, p)
         /\ \A p : Fits(p)' <=> Fits(p)
BY DEF root_emit, Or, Compilable, AtSite, resolve_emit, params_digest, Digestible, Fits

LEMMA StartStays ==
  ASSUME UNCHANGED document, NEW o, NEW emit, NEW params
  PROVE  StartedFor(o, emit, params)' <=> StartedFor(o, emit, params)
BY OperatorsStay DEF StartedFor, _adjacency

(* A run begins with nothing written, so it is consistent.                 *)
LEMMA StartIsConsistent ==
  ASSUME NEW by, NEW emit, NEW digest, digest # <<>> => digest = <<digest[1]>>
  PROVE  Consistent(Started(by, emit, digest))
BY DEF Consistent, Started

(* Another message at the granularity of those before it, with parameters  *)
(* that the digest was made from, keeps an output consistent.              *)
LEMMA MessageIsConsistent ==
  ASSUME NEW o, Consistent(o), NEW emit \in Granularities, NEW params \in Suppliable,
         Fits(params),
         \A m \in o.messages : m.emit = emit,
         o.adjacency = _adjacency(emit),
         ~ChangesWhileRunning => StartedFor(o, emit, params),
         NEW p,
         p.messages = o.messages \cup {[with |-> params, emit |-> emit]},
         p.records = o.records \cup Written(emit),
         p.adjacency = o.adjacency, p.digest = o.digest
  PROVE  Consistent(p)
<1>1. o.records = {} \/ o.records = Written(emit)
  BY DEF Consistent
<1>2. p.records = Written(emit)
  BY <1>1
<1>3. ASSUME NEW m \in p.messages
      PROVE  /\ m.emit = emit /\ m.with \in Suppliable /\ Fits(m.with)
             /\ ~ChangesWhileRunning /\ p.digest # <<>> =>
                  p.digest[1] = params_digest(m.emit, m.with)
  <2>1. CASE m \in o.messages
    BY <2>1 DEF Consistent
  <2>2. CASE m = [with |-> params, emit |-> emit]
    BY <2>2 DEF StartedFor
  <2> QED
    BY <2>1, <2>2
<1>4. p.messages # {}
  OBVIOUS
<1> QED
  BY <1>2, <1>3, <1>4 DEF Consistent

-----------------------------------------------------------------------------
LEMMA InitHolds == Init => RunInv
BY DEF Init, RunInv, Holding, Underway

(* What an action leaves alone of the invariant.                           *)
LEMMA HoldingStays ==
  ASSUME Holding, UNCHANGED document, caller' \in Suppliable,
         UNCHANGED <<decoder, module>>
  PROVE  Holding'
BY OperatorsStay DEF Holding

LEMMA UnderwayStays ==
  ASSUME Underway, UNCHANGED <<document, decoder, module, job>>,
         job # <<>> => UNCHANGED caller \/ ChangesWhileRunning \/ job[1].by = "decoder"
  PROVE  Underway'
<1>1. CASE job = <<>>
  BY <1>1 DEF Underway
<1>2. CASE job # <<>>
  <2>1. Consistent(job[1])'
    BY <1>2, OutputsStay DEF Underway
  <2>2. job[1].by = "decoder" => StartedFor(job[1], root_emit(decoder[1].emit), decoder[1].params)'
    BY <1>2, OperatorsStay DEF Underway, StartedFor, _adjacency
  <2>3. job[1].by = "module" /\ ~ChangesWhileRunning => StartedFor(job[1], module[1].emit, caller)'
    BY <1>2, OperatorsStay DEF Underway, StartedFor, _adjacency
  <2> QED
    BY <1>2, <2>1, <2>2, <2>3 DEF Underway, _adjacency
<1> QED
  BY <1>1, <1>2

(* A dictionary may change between runs, and under a decoder's.            *)
LEMMA ChangeHolds == RunInv /\ Change => RunInv'
<1> SUFFICES ASSUME RunInv, Change
             PROVE  RunInv'
  OBVIOUS
<1>1. Holding'
  BY HoldingStays DEF RunInv, Change
<1>2. job # <<>> => UNCHANGED caller \/ ChangesWhileRunning \/ job[1].by = "decoder"
  <2>1. job # <<>> /\ job[1].by = "module" => ModuleRuns
    BY DEF RunInv, Underway, ModuleRuns
  <2> QED
    BY <2>1 DEF RunInv, Underway, Change
<1>3. Underway'
  BY <1>2, UnderwayStays DEF RunInv, Change
<1>4. \A o \in outputs' : Consistent(o)'
  BY OutputsStay DEF RunInv, Change
<1> QED
  BY <1>1, <1>3, <1>4 DEF RunInv

LEMMA MakeDecoderHolds == RunInv /\ MakeDecoder => RunInv'
<1> SUFFICES ASSUME RunInv, MakeDecoder
             PROVE  RunInv'
  OBVIOUS
<1>1. Fits(caller)
  BY DEF MakeDecoder, document_params, Fits
<1>2. Holding'
  BY <1>1, OperatorsStay DEF MakeDecoder, RunInv, Holding
<1>3. Underway'
  BY DEF MakeDecoder, Idle, Underway
<1>4. \A o \in outputs' : Consistent(o)'
  BY OutputsStay DEF RunInv, MakeDecoder
<1> QED
  BY <1>2, <1>3, <1>4 DEF RunInv

LEMMA CompileModuleHolds == RunInv /\ CompileModule => RunInv'
<1> SUFFICES ASSUME RunInv, CompileModule
             PROVE  RunInv'
  OBVIOUS
<1>1. PICK emit \in Granularities, has \in Vintages :
        /\ Compilable(root_emit(emit))
        /\ module' = <<[emit |-> root_emit(emit), has |-> has]>>
  BY DEF CompileModule
<1>2. root_emit(emit) \in Granularities
  BY EntryGranularity DEF RunInv, Holding
<1>3. Holding'
  BY <1>1, <1>2, OperatorsStay DEF CompileModule, RunInv, Holding
<1>4. Underway'
  BY DEF CompileModule, Idle, Underway
<1>5. \A o \in outputs' : Consistent(o)'
  BY OutputsStay DEF RunInv, CompileModule
<1> QED
  BY <1>3, <1>4, <1>5 DEF RunInv

(* A run that starts for what is held keeps the invariant.                 *)
LEMMA StartHolds ==
  ASSUME RunInv, NEW new, NEW by \in {"decoder", "module"}, NEW emit, NEW digest,
         digest # <<>> => digest = <<digest[1]>>,
         new = Started(by, emit, digest),
         job' = <<new>>,
         UNCHANGED <<document, caller, decoder, module, outputs>>,
         by = "decoder" =>
           /\ decoder # <<>> /\ emit = root_emit(decoder[1].emit)
           /\ digest # <<>> => digest[1] = params_digest(emit, decoder[1].params),
         by = "module" =>
           /\ module # <<>> /\ emit = module[1].emit
           /\ digest # <<>> => digest[1] = params_digest(emit, caller)
  PROVE  RunInv'
<1>1. Holding'
  BY HoldingStays DEF RunInv, Holding
<1>2. Consistent(new)'
  BY StartIsConsistent, OutputsStay
<1>3. new.by = by /\ new.digest = digest /\ new.adjacency = _adjacency(emit) /\ new.messages = {}
  BY DEF Started
<1>4. new = [by |-> new.by, digest |-> new.digest, adjacency |-> new.adjacency,
             messages |-> new.messages, records |-> new.records]
  BY DEF Started
<1>5. job' # <<>> /\ job'[1] = new
  OBVIOUS
<1>6. ASSUME by = "decoder"
      PROVE  StartedFor(new, root_emit(decoder[1].emit), decoder[1].params)'
  <2>1. StartedFor(new, root_emit(decoder[1].emit), decoder[1].params)
    BY <1>3, <1>6 DEF StartedFor
  <2>2. root_emit(decoder[1].emit)' = root_emit(decoder[1].emit)
    BY OperatorsStay
  <2>3. StartedFor(new, root_emit(decoder[1].emit), decoder[1].params)'
          <=> StartedFor(new, root_emit(decoder[1].emit), decoder[1].params)
    BY <2>2, OperatorsStay DEF StartedFor, _adjacency
  <2> QED
    BY <2>1, <2>3
<1>7. ASSUME by = "module"
      PROVE  StartedFor(new, module[1].emit, caller)'
  <2>1. StartedFor(new, module[1].emit, caller)
    BY <1>3, <1>7 DEF StartedFor
  <2>2. StartedFor(new, module[1].emit, caller)' <=> StartedFor(new, module[1].emit, caller)
    BY OperatorsStay DEF StartedFor, _adjacency
  <2> QED
    BY <2>1, <2>2
<1>8. Underway'
  BY <1>2, <1>3, <1>4, <1>5, <1>6, <1>7 DEF Underway, _adjacency, Consistent, StartedFor
<1>9. \A o \in outputs' : Consistent(o)'
  BY OutputsStay DEF RunInv
<1> QED
  BY <1>1, <1>8, <1>9 DEF RunInv

LEMMA RunHolds == RunInv /\ Run => RunInv'
<1> SUFFICES ASSUME RunInv, Run
             PROVE  RunInv'
  OBVIOUS
<1>1. PICK emit : emit = root_emit(decoder[1].emit)
  OBVIOUS
<1>2. PICK digest : digest = <<params_digest(emit, decoder[1].params)>>
  OBVIOUS
<1>3. PICK new : new = Started("decoder", emit, digest)
  OBVIOUS
<1>4. job' = <<new>> /\ UNCHANGED <<document, caller, decoder, module, outputs>> /\ decoder # <<>>
  BY <1>1, <1>2, <1>3 DEF Run
<1>5. digest = <<digest[1]>> /\ digest[1] = params_digest(emit, decoder[1].params)
  BY <1>2
<1> QED
  BY <1>1, <1>3, <1>4, <1>5, StartHolds

LEMMA RunCompiledHolds == RunInv /\ RunCompiled => RunInv'
<1> SUFFICES ASSUME RunInv, RunCompiled
             PROVE  RunInv'
  OBVIOUS
<1>1. PICK emit : emit = module[1].emit
  OBVIOUS
<1>2. PICK digest : digest = IF "SPEC_DIGEST" \in module[1].has
                               THEN <<params_digest(emit, caller)>> ELSE <<>>
  OBVIOUS
<1>3. PICK new : new = Started("module", emit, digest)
  OBVIOUS
<1>4. job' = <<new>> /\ UNCHANGED <<document, caller, decoder, module, outputs>> /\ module # <<>>
  BY <1>1, <1>2, <1>3 DEF RunCompiled
<1>5. digest # <<>> => digest = <<digest[1]>> /\ digest[1] = params_digest(emit, caller)
  BY <1>2
<1> QED
  BY <1>1, <1>3, <1>4, <1>5, StartHolds

(* Every message is decoded at the granularity the run was started at.     *)
LEMMA MessageHolds ==
  ASSUME RunInv, NEW stream, Message(stream)
  PROVE  RunInv'
<1>1. PICK old : old = job[1]
  OBVIOUS
<1>2. PICK emit : emit = GranularityInForce
  OBVIOUS
<1>3. PICK params : params = InForce
  OBVIOUS
<1>4. PICK new : new = [old EXCEPT
        !.messages = @ \cup {[with |-> params, emit |-> emit]},
        !.records  = @ \cup IF old.by = "decoder" THEN Written(emit) ELSE WrittenByModule(emit)]
  OBVIOUS
<1>5. /\ job # <<>> /\ job' = <<new>>
      /\ UNCHANGED <<document, caller, decoder, module, outputs>>
      /\ old.by = "module" => document_params(caller)
  BY <1>1, <1>2, <1>3, <1>4 DEF Message, Idle, Accepts
<1>6. /\ old = [by |-> old.by, digest |-> old.digest, adjacency |-> old.adjacency,
                messages |-> old.messages, records |-> old.records]
      /\ Consistent(old) /\ old.by \in {"decoder", "module"}
  BY <1>1, <1>5 DEF RunInv, Underway
<1>7. /\ emit \in Granularities /\ params \in Suppliable /\ Fits(params)
      /\ old.adjacency = _adjacency(emit) /\ \A m \in old.messages : m.emit = emit
      /\ ~ChangesWhileRunning => StartedFor(old, emit, params)
      /\ old.by = "module" => emit = module[1].emit /\ params = caller /\ Compilable(emit)
      /\ old.by = "decoder" =>
           /\ emit = root_emit(decoder[1].emit) /\ params = decoder[1].params
           /\ StartedFor(old, emit, params)
  <2>1. CASE old.by = "decoder"
    <3>1. /\ decoder # <<>> /\ decoder[1].emit \in Granularities
          /\ StartedFor(old, root_emit(decoder[1].emit), decoder[1].params)
          /\ decoder[1].params \in Suppliable /\ Fits(decoder[1].params)
          /\ document \in Documents
      BY <1>1, <1>5, <2>1 DEF RunInv, Underway, Holding
    <3>2. /\ emit = root_emit(decoder[1].emit) /\ emit \in Granularities
          /\ params = decoder[1].params
      BY <1>1, <1>2, <1>3, <2>1, <3>1, EntryGranularity DEF GranularityInForce, InForce
    <3> QED
      BY <2>1, <3>1, <3>2 DEF StartedFor
  <2>2. CASE old.by = "module"
    <3>1. /\ emit = module[1].emit /\ params = caller
      BY <1>1, <1>2, <1>3, <2>2 DEF GranularityInForce, InForce
    <3>2. Fits(caller)
      BY <1>5, <2>2 DEF document_params, Fits
    <3> QED
      BY <1>1, <1>5, <2>2, <3>1, <3>2 DEF RunInv, Underway, Holding
  <2> QED
    BY <1>6, <2>1, <2>2
<1>8. /\ new.messages = old.messages \cup {[with |-> params, emit |-> emit]}
      /\ new.records = old.records \cup Written(emit)
      /\ new.by = old.by /\ new.adjacency = old.adjacency /\ new.digest = old.digest
      /\ new = [by |-> new.by, digest |-> new.digest, adjacency |-> new.adjacency,
                messages |-> new.messages, records |-> new.records]
  <2>1. old.by = "module" => WrittenByModule(emit) = Written(emit)
    BY <1>7, SameKinds
  <2> QED
    BY <1>4, <1>6, <2>1
<1>9. Consistent(new)
  BY <1>6, <1>7, <1>8, MessageIsConsistent
<1>10. Consistent(new)'
  BY <1>5, <1>9, OutputsStay
<1>11. /\ \A m \in new.messages : m.emit = emit
       /\ StartedFor(old, emit, params) => StartedFor(new, emit, params)
  BY <1>7, <1>8 DEF StartedFor
<1>12. StartedFor(new, emit, params)' <=> StartedFor(new, emit, params)
  BY <1>5, StartStays
<1>13. job' # <<>> /\ job'[1] = new
  BY <1>5
<1>14. /\ old.by = "decoder" => StartedFor(new, root_emit(decoder[1].emit), decoder[1].params)'
       /\ old.by = "module" /\ ~ChangesWhileRunning => StartedFor(new, module[1].emit, caller)'
  BY <1>5, <1>7, <1>11, <1>12, OperatorsStay DEF StartedFor, _adjacency
<1>15. /\ old.by = "decoder" => decoder # <<>>
       /\ old.by = "module" => module # <<>>
  BY <1>1, <1>5 DEF RunInv, Underway
<1>16. Underway'
  BY <1>5, <1>6, <1>7, <1>8, <1>10, <1>11, <1>13, <1>14, <1>15
     DEF Underway, _adjacency, Consistent, StartedFor
<1>17. Holding'
  BY <1>5, HoldingStays DEF RunInv, Holding
<1>18. \A o \in outputs' : Consistent(o)'
  BY <1>5, OutputsStay DEF RunInv
<1> QED
  BY <1>16, <1>17, <1>18 DEF RunInv

LEMMA EndedHolds == RunInv /\ Ended => RunInv'
<1> SUFFICES ASSUME RunInv, Ended
             PROVE  RunInv'
  OBVIOUS
<1>1. Consistent(job[1])
  BY DEF RunInv, Ended, Idle, Underway
<1>2. \A o \in outputs' : Consistent(o)'
  BY <1>1, OutputsStay DEF RunInv, Ended
<1>3. Holding'
  BY HoldingStays DEF RunInv, Holding, Ended
<1>4. Underway'
  BY DEF Ended, Underway
<1> QED
  BY <1>2, <1>3, <1>4 DEF RunInv

LEMMA NextHolds == RunInv /\ [Next]_vars => RunInv'
<1> SUFFICES ASSUME RunInv, [Next]_vars
             PROVE  RunInv'
  OBVIOUS
<1>1. CASE Change
  BY <1>1, ChangeHolds
<1>2. CASE MakeDecoder
  BY <1>2, MakeDecoderHolds
<1>3. CASE CompileModule
  BY <1>3, CompileModuleHolds
<1>4. CASE Run
  BY <1>4, RunHolds
<1>5. CASE RunCompiled
  BY <1>5, RunCompiledHolds
<1>6. ASSUME NEW stream \in {"bytes", "datagrams"}, Message(stream)
      PROVE  RunInv'
  BY <1>6, MessageHolds
<1>7. CASE Ended
  BY <1>7, EndedHolds
<1>8. CASE UNCHANGED vars
  <2>1. Holding'
    BY <1>8, HoldingStays DEF RunInv, Holding, vars
  <2>2. Underway'
    BY <1>8, UnderwayStays DEF RunInv, vars
  <2>3. \A o \in outputs' : Consistent(o)'
    BY <1>8, OutputsStay DEF RunInv, vars
  <2> QED
    BY <2>1, <2>2, <2>3 DEF RunInv
<1> QED
  BY <1>1, <1>2, <1>3, <1>4, <1>5, <1>6, <1>7, <1>8 DEF Next

-----------------------------------------------------------------------------
(* The inductive invariant, of which all that is promised of runs follows. *)
THEOREM RunsInvariant == Spec => []RunInv
BY InitHolds, NextHolds, PTL DEF Spec

(* Every message, by whichever run, was decoded with each parameter the    *)
(* document declares, of its type, and no other                            *)
(* (runtime.document_params).                                              *)
LEMMA ParametersFit == RunInv => TypeOK
<1> SUFFICES ASSUME RunInv
             PROVE  TypeOK
  OBVIOUS
<1>1. ASSUME NEW v, v = <<>> \/ v = <<v[1]>>
      PROVE  Len(v) <= 1
  BY <1>1
<1>2. Len(decoder) <= 1 /\ Len(module) <= 1 /\ Len(job) <= 1
  BY <1>1 DEF RunInv, Holding, Underway
<1> QED
  BY <1>2, JobsAre DEF RunInv, Holding, TypeOK, Consistent

(* So has every message of every output, and every variable its type.      *)
THEOREM EveryMessageHasItsParameters == Spec => []TypeOK
BY ParametersFit, RunsInvariant, PTL

(* As long as a dictionary is not changed under a module, an output's      *)
(* digest is that of what each of its messages was decoded with, whatever  *)
(* a caller does to the dictionary a decoder was made from                 *)
(* (Decoder.params_digest, stage.run_compiled).                            *)
THEOREM DigestsAreTrue ==
  ASSUME ~ChangesWhileRunning
  PROVE  Spec => []DecodedAsConfigured
<1>1. RunInv => DigestSaysWhatDecoded
  BY JobsAre DEF Consistent, DigestSaysWhatDecoded
<1>2. RunInv => DecodedAsConfigured
  BY <1>1, ParametersFit DEF DecodedAsConfigured
<1> QED
  BY <1>2, RunsInvariant, PTL

(* Of parameters of one document the types agree, so digests differ only   *)
(* where values do.                                                        *)
LEMMA DigestsOfFitting ==
  ASSUME NEW e, NEW f, NEW params, NEW others, Fits(params), Fits(others)
  PROVE  params_digest(e, params) = params_digest(f, others)
           <=> e = f /\ Meaning(params) = Meaning(others)
<1> DEFINE names == DOMAIN document.params
           Digested(ps) == [name \in DOMAIN ps |-> Digestible(ps[name])]
           Entries(v) == {v.data[j] : j \in DOMAIN v.data}
<1>1. DOMAIN params = names /\ DOMAIN others = names
  BY DEF Fits
<1>2. \A name \in names : params[name].type = others[name].type
  BY DEF Fits
<1>3. \A name \in names :
        Digestible(params[name]) = Digestible(others[name])
          <=> Entries(params[name]) = Entries(others[name])
  BY <1>2 DEF Digestible
<1>4. Digested(params) = Digested(others)
        <=> \A name \in names : Digestible(params[name]) = Digestible(others[name])
  <2> HIDE DEF names
  <2>1. /\ Digested(params) = [name \in names |-> Digestible(params[name])]
        /\ Digested(others) = [name \in names |-> Digestible(others[name])]
    BY <1>1
  <2>2. ASSUME Digested(params) = Digested(others), NEW name \in names
        PROVE  Digestible(params[name]) = Digestible(others[name])
    <3>1. Digested(params)[name] = Digested(others)[name]
      BY <2>2
    <3> QED
      BY <2>1, <3>1
  <2> HIDE DEF Digested
  <2>3. ASSUME \A name \in names : Digestible(params[name]) = Digestible(others[name])
        PROVE  Digested(params) = Digested(others)
    BY <2>1, <2>3
  <2> QED
    BY <2>2, <2>3
<1>5. Meaning(params) = Meaning(others)
        <=> \A name \in names : Entries(params[name]) = Entries(others[name])
  <2> HIDE DEF names
  <2>1. /\ Meaning(params) = [name \in names |-> Entries(params[name])]
        /\ Meaning(others) = [name \in names |-> Entries(others[name])]
    BY <1>1 DEF Meaning
  <2> HIDE DEF Entries
  <2>2. ASSUME Meaning(params) = Meaning(others), NEW name \in names
        PROVE  Entries(params[name]) = Entries(others[name])
    <3>1. Meaning(params)[name] = Meaning(others)[name]
      BY <2>2
    <3> QED
      BY <2>1, <3>1
  <2>3. ASSUME \A name \in names : Entries(params[name]) = Entries(others[name])
        PROVE  Meaning(params) = Meaning(others)
    BY <2>1, <2>3
  <2> QED
    BY <2>2, <2>3
<1>6. params_digest(e, params) = params_digest(f, others)
        <=> e = f /\ Digested(params) = Digested(others)
  <2>1. /\ params_digest(e, params).emit = e /\ params_digest(e, params).params = Digested(params)
        /\ params_digest(f, others).emit = f /\ params_digest(f, others).params = Digested(others)
    BY DEF params_digest
  <2>2. /\ params_digest(e, params) = [spec |-> document, emit |-> e, params |-> Digested(params)]
        /\ params_digest(f, others) = [spec |-> document, emit |-> f, params |-> Digested(others)]
    BY DEF params_digest
  <2> HIDE DEF Digested
  <2> QED
    BY <2>1, <2>2
<1> QED
  BY <1>3, <1>4, <1>5, <1>6

(* Then one digest means one configuration, and one configuration has one  *)
(* digest (runtime.params_digest).                                         *)
THEOREM DigestsTellConfigurationsApart ==
  ASSUME ~ChangesWhileRunning
  PROVE  Spec => []OneDigestOneConfiguration
<1>1. ASSUME RunInv PROVE OneDigestOneConfiguration
  <2> SUFFICES ASSUME NEW o \in Jobs, NEW p \in Jobs,
                      NEW m \in o.messages, NEW n \in p.messages,
                      o.digest # <<>>, p.digest # <<>>
               PROVE  o.digest = p.digest <=> m.emit = n.emit /\ Meaning(m.with) = Meaning(n.with)
    BY DEF OneDigestOneConfiguration
  <2>1. /\ o.digest = <<o.digest[1]>> /\ p.digest = <<p.digest[1]>>
        /\ o.digest[1] = params_digest(m.emit, m.with) /\ p.digest[1] = params_digest(n.emit, n.with)
        /\ Fits(m.with) /\ Fits(n.with)
    BY <1>1, JobsAre DEF Consistent
  <2>2. params_digest(m.emit, m.with) = params_digest(n.emit, n.with)
          <=> m.emit = n.emit /\ Meaning(m.with) = Meaning(n.with)
    BY <2>1, DigestsOfFitting
  <2>3. o.digest = p.digest <=> o.digest[1] = p.digest[1]
    BY <2>1
  <2> QED
    BY <2>1, <2>2, <2>3
<1> QED
  BY <1>1, RunsInvariant, PTL

(* What an output declares of its records fits what it holds               *)
(* (stage._adjacency, emit.root_emit), and at one granularity the          *)
(* interpreter and a generated module write the same kinds of records and  *)
(* declare them alike (pygen.granularity).                                 *)
THEOREM DeclarationsFit == Spec => []RecordsAsDeclared
<1>1. ASSUME RunInv PROVE DeclaresWhatItHolds
  <2> SUFFICES ASSUME NEW o \in Jobs
               PROVE  /\ "field" \in o.records => o.adjacency = "units"
                      /\ "message" \in o.records => o.adjacency # "units"
    BY DEF DeclaresWhatItHolds
  <2>1. Consistent(o)
    BY <1>1, JobsAre
  <2>2. CASE o.messages = {}
    BY <2>1, <2>2 DEF Consistent
  <2>3. ASSUME NEW m \in o.messages
        PROVE  /\ "field" \in o.records => o.adjacency = "units"
               /\ "message" \in o.records => o.adjacency # "units"
    BY <2>1, WrittenTells DEF Consistent, _adjacency
  <2> QED
    BY <2>2, <2>3
<1>2. RunInv => WrittenAlike
  BY JobsAre DEF Consistent, WrittenAlike
<1>3. RunInv => RecordsAsDeclared
  BY <1>1, <1>2 DEF RecordsAsDeclared
<1> QED
  BY <1>3, RunsInvariant, PTL
=============================================================================
