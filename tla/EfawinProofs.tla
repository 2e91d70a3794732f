----------------------------- MODULE EfawinProofs ----------------------------
(* What holds of the application, the loader and efawin.dll together for      *)
(* every device, every set of requests, any number of objects and every       *)
(* library that may be found.                                                 *)
EXTENDS Efawin, FiniteSetTheorems, WellFoundedInduction, TLAPS

----------------------------------------------------------------------------
(* The loader. No call of the application touches its variables, and loading  *)
(* fills the table at once or not at all.                                     *)
LoaderSteps == LoadLib \/ FreeLib \/ UNCHANGED loaderVars

(* Every step of the whole system loads or frees the library, or leaves the   *)
(* loader as it is.                                                           *)
LEMMA CallsLeaveLoader ==
  ASSUME Next PROVE LoaderSteps
<1>1. CASE LoadLib \/ FreeLib
  BY <1>1 DEF LoaderSteps
<1>2. CASE CallDummy \/ Ended
  BY <1>2 DEF LoaderSteps, CallDummy, Ended, vars
<1>3. CASE CallNowhere
  BY <1>3 DEF LoaderSteps, CallNowhere
<1>4. CASE DeviceCalls
  BY <1>4 DEF LoaderSteps, DeviceCalls, Calls
<1>5. CASE ProtectionCalls
  BY <1>5 DEF LoaderSteps, ProtectionCalls, Calls
<1>6. CASE QueueCalls
  BY <1>6 DEF LoaderSteps, QueueCalls, Calls
<1> QED
  BY <1>1, <1>2, <1>3, <1>4, <1>5, <1>6 DEF Next

(* The table is a function of the exports: what TableIsWhole needs to be      *)
(* inductive.                                                                 *)
LoaderInv ==
  /\ DOMAIN ops = Exports
  /\ TableIsWhole

(* The table of the loader is all dummies or all of one library, and the      *)
(* library is mapped as long as its handle is set: no failing way through     *)
(* efa_load_efawin_lib leaves a part of it.                                   *)
THEOREM TableWhole == Spec => []TableIsWhole
<1>1. EfawinInit => LoaderInv
  BY DEF EfawinInit, LoaderInit, LoaderInv, TableIsWhole
<1>2. ASSUME LoaderInv, [Next]_vars PROVE LoaderInv'
  <2>1. CASE LoadLib
    <3>1. CASE LoadAgain
      BY <1>2, <3>1 DEF LoadAgain, loaderVars, LoaderInv, TableIsWhole
    <3>2. CASE LoadMissing
      BY <1>2, <3>2 DEF LoadMissing, LoaderInv, TableIsWhole
    <3>3. ASSUME NEW dll \in Dlls, Load(dll) PROVE LoaderInv'
      <4>1. CASE Usable(dll)
        BY <3>3, <4>1 DEF Load, OpsWhenAll, LoaderInv, TableIsWhole
      <4>2. CASE ~Usable(dll)
        BY <1>2, <3>3, <4>2 DEF Load, OpsWhenAll, LoaderInv, TableIsWhole
      <4> QED
        BY <4>1, <4>2
    <3> QED
      BY <2>1, <3>1, <3>2, <3>3 DEF LoadLib
  <2>2. CASE FreeLib
    BY <1>2, <2>2 DEF FreeLib, Free, LoaderInv, TableIsWhole
  <2>3. CASE UNCHANGED loaderVars
    BY <1>2, <2>3 DEF loaderVars, LoaderInv, TableIsWhole
  <2> QED
    BY <1>2, <2>1, <2>2, <2>3, CallsLeaveLoader DEF LoaderSteps, vars, loaderVars
<1>3. LoaderInv => TableIsWhole
  BY DEF LoaderInv
<1> QED
  BY <1>1, <1>2, <1>3, PTL DEF Spec

----------------------------------------------------------------------------
(* The objects. The parts an object and the context can have.                 *)
PartNames == ContextParts \cup
  {"cond", "lock", "mutex", "rq.wrid", "rq.pool", "rq.lock",
   "sq.wrid", "sq.pool", "sq.lock", "local_queue"}
QpFieldNames ==
  {"handle", "qpNum", "pd", "scq", "rcq", "type", "ops", "state", "size",
   "maxBatchWr", "asked"}

(* The part of an object that the application holds, or that a destroy call   *)
(* that failed has left.                                                      *)
HasPart(o, part) ==
  \/ o \in held /\ part \in Parts(o)
  \/ o \in leftovers /\ part = "struct"

(* Blocks are those of the objects held or left over, and some outside.       *)
BlocksFit ==
  /\ held \subseteq Objects /\ leftovers \subseteq Cqs \cup Qps
  /\ held \cap leftovers = {} /\ IsFiniteSet(held)
  /\ blocks \subseteq (Objects \cup Outside) \X PartNames
  /\ \A o \in Objects, part \in PartNames :
       <<o, part>> \in blocks <=> HasPart(o, part)

(* An open context has its device and all its parts; otherwise nothing is     *)
(* held, and outside there are a device list and what is never freed.         *)
Outer == {<<"list", "struct">>, <<"device", "struct">>, <<"context", "mutex">>}

ContextFits ==
  /\ context \in {"none", "open", "null member"}
  /\ Exists("list") => Exists("device")
  /\ context = "open" =>
       Exists("device") /\ Part("context", ContextParts) \subseteq blocks
  /\ context # "open" => held = {}
  /\ \A o \in Outside, part \in PartNames : <<o, part>> \in blocks =>
       \/ <<o, part>> \in Outer
       \/ context = "open" /\ o = "context" /\ part \in ContextParts

(* An object names objects that are held, a QP one number by another.         *)
NamesHeld(o) ==
  /\ o \in Mrs \cup Ahs \cup Qps => fields[o].pd \in held \cap Pds
  /\ o \in Qps =>
       /\ fields[o].scq \in held \cap Cqs /\ fields[o].rcq \in held \cap Cqs
       /\ DOMAIN fields[o] = QpFieldNames
       /\ fields[o].handle \in Nums /\ fields[o].qpNum = QpNum(fields[o].handle)
NamesFit == DOMAIN fields = Objects /\ \A o \in held : NamesHeld(o)

(* The driver has what the held objects stand for, each apart from the other, *)
(* and what it refused to destroy, under numbers of their own.                *)
DriverFits ==
  /\ driver = {Counterpart(o) : o \in held} \cup refused
  /\ \A o \in held : Counterpart(o) \notin refused
  /\ \A o, x \in held : Counterpart(o) = Counterpart(x) => o = x
  /\ \A d, e \in driver : d.kind = e.kind /\ d.num = e.num => d = e

(* The table and the counts of the poll loop.                                 *)
LookupsFit ==
  /\ DOMAIN table = 0 .. TableSize - 1 /\ DOMAIN refCnt = Cqs
  /\ LookupsMatchQps

ObjectsInv ==
  BlocksFit /\ ContextFits /\ NamesFit /\ DriverFits /\ LookupsFit

(* An address handle has one number under two names; a QP was made when the   *)
(* limits were those of the device, and has asked for no more.                *)
KeepsWord(o) ==
  /\ o \in Ahs => fields[o].ahn = fields[o].handle
  /\ o \in Qps => /\ attrs = QueriedAttrs(Info)
                  /\ CheckQpLimits(fields[o].asked, LimitsIn(Info))

(* What was told is what the device answered.                                 *)
AnswersFit ==
  /\ context # "open" => told = None
  /\ context = "open" =>
       /\ cached \in {Info, CutVersion(Info)}
       /\ attrs \in {GetContext(Info), QueriedAttrs(Info)}
       /\ told # None =>
            /\ cached = CutVersion(Info) /\ attrs = QueriedAttrs(Info)
            /\ told = DeviceAnswer(Info)
  /\ \A o \in held : KeepsWord(o)

ControlInv == ObjectsInv /\ AnswersFit

----------------------------------------------------------------------------
(* An object is of one kind, and there are no others.                         *)
LEMMA KindsApart ==
  /\ \A o \in Pds : /\ o \in Objects
                   /\ o \notin Mrs /\ o \notin Ahs /\ o \notin Cqs /\ o \notin Qps
  /\ \A o \in Mrs : /\ o \in Objects
                   /\ o \notin Pds /\ o \notin Ahs /\ o \notin Cqs /\ o \notin Qps
  /\ \A o \in Ahs : /\ o \in Objects
                   /\ o \notin Pds /\ o \notin Mrs /\ o \notin Cqs /\ o \notin Qps
  /\ \A o \in Cqs : /\ o \in Objects
                   /\ o \notin Pds /\ o \notin Mrs /\ o \notin Ahs /\ o \notin Qps
  /\ \A o \in Qps : /\ o \in Objects
                   /\ o \notin Pds /\ o \notin Mrs /\ o \notin Ahs /\ o \notin Cqs
  /\ \A o \in Objects : o \in Pds \/ o \in Mrs \/ o \in Ahs \/ o \in Cqs \/ o \in Qps
  BY ControlAssumption DEF Objects

(* Neither the list, the device, the context nor None is an object.           *)
LEMMA OutsideApart ==
  /\ \A o \in Objects : o # "list" /\ o # "device" /\ o # "context"
  /\ None \notin Objects
  BY ControlAssumption DEF Outside

(* The driver's object of each kind of object.                                *)
CounterpartTable ==
  /\ \A o \in Pds : Counterpart(o) = [kind |-> "pd", num |-> fields[o].handle]
  /\ \A o \in Mrs : Counterpart(o) = [kind |-> "mr", num |-> fields[o].lkey,
                                     pd |-> fields[fields[o].pd].handle]
  /\ \A o \in Ahs : Counterpart(o) = [kind |-> "ah", num |-> fields[o].handle,
                                     pd |-> fields[fields[o].pd].handle]
  /\ \A o \in Cqs : Counterpart(o) = [kind |-> "cq", num |-> fields[o].handle,
                                     depth |-> fields[o].cqe]
  /\ \A o \in Qps : Counterpart(o) =
       [kind |-> "qp", num |-> fields[o].handle, type |-> fields[o].type,
        pd |-> fields[fields[o].pd].handle,
        scq |-> fields[fields[o].scq].handle, rcq |-> fields[fields[o].rcq].handle,
        sqDepth |-> fields[o].size.sqCnt, rqDepth |-> fields[o].size.rqCnt,
        sqRing |-> RingEntries(fields[o].size.sqMask),
        rqRing |-> RingEntries(fields[o].size.rqMask),
        state |-> fields[o].state]

(* The table says what Counterpart says.                                      *)
LEMMA Counterparts == CounterpartTable
<1>1. ASSUME NEW o \in Pds
      PROVE  Counterpart(o) = [kind |-> "pd", num |-> fields[o].handle]
  BY <1>1, KindsApart DEF Counterpart
<1>2. ASSUME NEW o \in Mrs
      PROVE  Counterpart(o) = [kind |-> "mr", num |-> fields[o].lkey,
                               pd |-> fields[fields[o].pd].handle]
  BY <1>2, KindsApart DEF Counterpart
<1>3. ASSUME NEW o \in Ahs
      PROVE  Counterpart(o) = [kind |-> "ah", num |-> fields[o].handle,
                               pd |-> fields[fields[o].pd].handle]
  BY <1>3, KindsApart DEF Counterpart
<1>4. ASSUME NEW o \in Cqs
      PROVE  Counterpart(o) = [kind |-> "cq", num |-> fields[o].handle,
                               depth |-> fields[o].cqe]
  BY <1>4, KindsApart DEF Counterpart
<1>5. ASSUME NEW o \in Qps
      PROVE  Counterpart(o) =
       [kind |-> "qp", num |-> fields[o].handle, type |-> fields[o].type,
        pd |-> fields[fields[o].pd].handle,
        scq |-> fields[fields[o].scq].handle, rcq |-> fields[fields[o].rcq].handle,
        sqDepth |-> fields[o].size.sqCnt, rqDepth |-> fields[o].size.rqCnt,
        sqRing |-> RingEntries(fields[o].size.sqMask),
        rqRing |-> RingEntries(fields[o].size.rqMask),
        state |-> fields[o].state]
  BY <1>5, KindsApart DEF Counterpart
<1> QED
  BY <1>1, <1>2, <1>3, <1>4, <1>5 DEF CounterpartTable

(* The same after a step.                                                     *)
LEMMA CounterpartsNext == CounterpartTable'
  BY Counterparts, PTL

(* The parts of each kind of object.                                          *)
PartTable ==
  /\ \A o \in Pds \cup Mrs \cup Ahs : Parts(o) = {"struct"}
  /\ \A o \in Cqs : Parts(o) = {"struct", "cond", "lock"}
  /\ \A o \in Qps : Parts(o) = {"struct", "cond"} \cup RqParts(fields[o].size)
                                              \cup SqParts(fields[o].size)
  /\ \A o \in Objects : Parts(o) \subseteq PartNames /\ "struct" \in Parts(o)

(* The table says what Parts says, and every object has a struct.             *)
LEMMA PartsByKind == PartTable
<1>1. \A o \in Pds \cup Mrs \cup Ahs : Parts(o) = {"struct"}
  BY KindsApart DEF Parts
<1>2. \A o \in Cqs : Parts(o) = {"struct", "cond", "lock"}
  BY KindsApart DEF Parts
<1>3. \A o \in Qps : Parts(o) = {"struct", "cond"} \cup RqParts(fields[o].size)
                                              \cup SqParts(fields[o].size)
  BY DEF Parts
<1>4. \A size : RqParts(size) \subseteq PartNames /\ SqParts(size) \subseteq PartNames
  BY DEF RqParts, SqParts, PartNames
<1>5. {"struct", "cond", "lock"} \subseteq PartNames
  BY DEF PartNames, ContextParts
<1> QED
  BY <1>1, <1>2, <1>3, <1>4, <1>5, KindsApart DEF PartTable

(* The same after a step.                                                     *)
LEMMA PartsNext == PartTable'
  BY PartsByKind, PTL

(* An object whose struct and whose named objects' structs stay as they are   *)
(* stands for the same in the driver.                                         *)
LEMMA SameCounterpart ==
  ASSUME NamesFit, held \subseteq Objects, NEW o,
         \A y \in Objects : y # o => fields'[y] = fields[y],
         NEW x \in held, x # o,
         x \in Mrs \cup Ahs \cup Qps => fields[x].pd # o,
         x \in Qps => fields[x].scq # o /\ fields[x].rcq # o
  PROVE  Counterpart(x)' = Counterpart(x) /\ Parts(x)' = Parts(x)
<1>1. x \in Objects /\ NamesHeld(x) /\ fields'[x] = fields[x]
  BY DEF NamesFit
<1>2. x \in Mrs \cup Ahs \cup Qps => fields'[fields[x].pd] = fields[fields[x].pd]
  BY <1>1, KindsApart DEF NamesHeld
<1>3. x \in Qps => /\ fields'[fields[x].scq] = fields[fields[x].scq]
                   /\ fields'[fields[x].rcq] = fields[fields[x].rcq]
  BY <1>1, KindsApart DEF NamesHeld
<1>4. Parts(x)' = Parts(x)
  BY <1>1, PartsByKind, PartsNext, KindsApart DEF PartTable
<1>5. CASE x \in Pds \cup Cqs
  BY <1>1, <1>4, <1>5, Counterparts, CounterpartsNext DEF CounterpartTable
<1>6. CASE x \in Mrs \cup Ahs
  BY <1>1, <1>2, <1>4, <1>6, Counterparts, CounterpartsNext DEF CounterpartTable
<1>7. CASE x \in Qps
  BY <1>1, <1>2, <1>3, <1>4, <1>7, Counterparts, CounterpartsNext DEF CounterpartTable
<1> QED
  BY <1>1, <1>5, <1>6, <1>7, KindsApart

----------------------------------------------------------------------------
(* A call that makes an object.                                               *)
Makes(o, d, contents, parts) ==
  /\ Obtains(o, d, contents, parts)
  /\ o \in Objects /\ ~Exists(o) /\ context = "open"
  /\ parts = Parts(o)' /\ d = Counterpart(o)'
  /\ \A e \in driver : e.kind # d.kind \/ e.num # d.num
  /\ NamesHeld(o)' /\ KeepsWord(o)'

(* An object without a struct is neither held nor left over.                  *)
LEMMA MadeIsNew ==
  ASSUME BlocksFit, NEW o \in Objects, ~Exists(o)
  PROVE  o \notin held /\ o \notin leftovers
<1>1. "struct" \in PartNames
  BY DEF PartNames, ContextParts
<1>2. ~HasPart(o, "struct")
  BY <1>1 DEF BlocksFit, Exists
<1> QED
  BY <1>2, PartsByKind DEF HasPart, PartTable

(* A call that makes an object leaves all others as they are.                 *)
LEMMA MadeOthers ==
  ASSUME ControlInv, NEW o, NEW d, NEW contents, NEW parts,
         Makes(o, d, contents, parts)
  PROVE  /\ o \notin held /\ o \notin leftovers /\ o \in Objects
         /\ fields' = [fields EXCEPT ![o] = contents]
         /\ \A y \in Objects : y # o => fields'[y] = fields[y]
         /\ \A x \in held : /\ x \in Objects /\ x # o /\ NamesHeld(x)
                            /\ fields'[x] = fields[x]
                            /\ Counterpart(x)' = Counterpart(x)
                            /\ Parts(x)' = Parts(x)
<1>1. o \in Objects /\ ~Exists(o) /\ fields' = [fields EXCEPT ![o] = contents]
  BY DEF Makes, Obtains
<1>2. o \notin held /\ o \notin leftovers /\ held \subseteq Objects
  BY <1>1, MadeIsNew DEF ControlInv, ObjectsInv, BlocksFit
<1>3. \A y \in Objects : y # o => fields'[y] = fields[y]
  BY <1>1 DEF ControlInv, ObjectsInv, NamesFit
<1>4. ASSUME NEW x \in held
      PROVE  /\ x \in Objects /\ x # o /\ NamesHeld(x)
             /\ fields'[x] = fields[x]
             /\ Counterpart(x)' = Counterpart(x)
             /\ Parts(x)' = Parts(x)
  <2>1. x \in Objects /\ x # o /\ NamesHeld(x) /\ NamesFit
    BY <1>2 DEF ControlInv, ObjectsInv, NamesFit
  <2>2. /\ x \in Mrs \cup Ahs \cup Qps => fields[x].pd # o
        /\ x \in Qps => fields[x].scq # o /\ fields[x].rcq # o
    BY <1>2, <2>1 DEF NamesHeld
  <2> QED
    BY <1>2, <1>3, <2>1, <2>2, SameCounterpart
<1> QED
  BY <1>1, <1>2, <1>3, <1>4

(* After such a call the blocks are again those of the objects.               *)
LEMMA MadeBlocks ==
  ASSUME ControlInv, NEW o, NEW d, NEW contents, NEW parts,
         Makes(o, d, contents, parts)
  PROVE  BlocksFit'
<1>1. /\ blocks' = blocks \cup Part(o, parts) /\ held' = held \cup {o}
      /\ leftovers' = leftovers /\ parts = Parts(o)'
  BY DEF Makes, Obtains
<1>2. /\ o \notin held /\ o \notin leftovers /\ o \in Objects
      /\ \A x \in held : Parts(x)' = Parts(x)
  BY MadeOthers
<1>3. parts \subseteq PartNames /\ "struct" \in parts
  BY <1>1, <1>2, PartsNext DEF PartTable, PartNames, ContextParts
<1>4. /\ held' \subseteq Objects /\ leftovers' \subseteq Cqs \cup Qps
      /\ held' \cap leftovers' = {} /\ IsFiniteSet(held')
  BY <1>1, <1>2, FS_AddElement DEF ControlInv, ObjectsInv, BlocksFit
<1>5. blocks' \subseteq (Objects \cup Outside) \X PartNames
  BY <1>1, <1>2, <1>3 DEF ControlInv, ObjectsInv, BlocksFit, Part
<1>6. ASSUME NEW x \in Objects, NEW part \in PartNames
      PROVE  <<x, part>> \in blocks' <=> HasPart(x, part)'
  <2>1. <<x, part>> \in blocks <=> HasPart(x, part)
    BY DEF ControlInv, ObjectsInv, BlocksFit
  <2>2. CASE x = o
    <3>1. <<x, part>> \in blocks' <=> part \in parts
      BY <1>1, <1>2, <2>1, <2>2 DEF Part, HasPart
    <3> QED
      BY <1>1, <1>2, <2>2, <3>1 DEF HasPart
  <2>3. CASE x # o
    <3>1. <<x, part>> \in blocks' <=> <<x, part>> \in blocks
      BY <1>1, <2>3 DEF Part
    <3> QED
      BY <1>1, <1>2, <2>1, <2>3, <3>1 DEF HasPart
  <2> QED
    BY <2>2, <2>3
<1> QED
  BY <1>4, <1>5, <1>6 DEF BlocksFit

(* The context and its device keep what they have.                            *)
LEMMA MadeContext ==
  ASSUME ControlInv, NEW o, NEW d, NEW contents, NEW parts,
         Makes(o, d, contents, parts)
  PROVE  ContextFits'
<1>1. /\ blocks' = blocks \cup Part(o, parts) /\ context' = context
      /\ context = "open" /\ o \in Objects
  BY DEF Makes, Obtains, contextVars
<1>2. \A x \in Outside, part \in PartNames :
        <<x, part>> \in blocks' <=> <<x, part>> \in blocks
  BY <1>1, OutsideApart DEF Part, Outside
<1>3. /\ Exists("list")' <=> Exists("list")
      /\ Exists("device")' <=> Exists("device")
  BY <1>2 DEF Exists, Outside, PartNames, ContextParts
<1>4. Part("context", ContextParts) \subseteq blocks'
  BY <1>1 DEF ControlInv, ObjectsInv, ContextFits
<1> QED
  BY <1>1, <1>2, <1>3, <1>4 DEF ControlInv, ObjectsInv, ContextFits

(* Objects name held objects, and no answer has changed.                      *)
LEMMA MadeNames ==
  ASSUME ControlInv, NEW o, NEW d, NEW contents, NEW parts,
         Makes(o, d, contents, parts)
  PROVE  NamesFit' /\ AnswersFit'
<1>1. /\ held' = held \cup {o} /\ NamesHeld(o)' /\ KeepsWord(o)'
      /\ context' = context /\ cached' = cached /\ attrs' = attrs /\ told' = told
  BY DEF Makes, Obtains, contextVars
<1>2. /\ fields' = [fields EXCEPT ![o] = contents]
      /\ \A x \in held : NamesHeld(x) /\ fields'[x] = fields[x]
  BY MadeOthers
<1>3. ASSUME NEW x \in held PROVE NamesHeld(x)'
  BY <1>1, <1>2 DEF NamesHeld
<1>4. ASSUME NEW x \in held PROVE KeepsWord(x)'
  BY <1>1, <1>2 DEF KeepsWord, ControlInv, AnswersFit
<1>5. NamesFit'
  BY <1>1, <1>2, <1>3 DEF NamesFit, ControlInv, ObjectsInv
<1>6. AnswersFit'
  BY <1>1, <1>4 DEF AnswersFit, ControlInv
<1> QED
  BY <1>5, <1>6

(* The driver has one object more, under a number of its own.                 *)
LEMMA MadeDriver ==
  ASSUME ControlInv, NEW o, NEW d, NEW contents, NEW parts,
         Makes(o, d, contents, parts)
  PROVE  DriverFits'
<1>1. /\ driver' = driver \cup {d} /\ refused' = refused /\ held' = held \cup {o}
      /\ d = Counterpart(o)'
      /\ \A e \in driver : e.kind # d.kind \/ e.num # d.num
  BY DEF Makes, Obtains
<1>2. o \notin held /\ \A x \in held : Counterpart(x)' = Counterpart(x)
  BY MadeOthers
<1>3. d \notin driver
  BY <1>1
<1>4. DriverFits
  BY DEF ControlInv, ObjectsInv
<1>5. driver' = {Counterpart(x)' : x \in held'} \cup refused'
  BY <1>1, <1>2, <1>4 DEF DriverFits
<1>6. \A x \in held' : Counterpart(x)' \notin refused'
  BY <1>1, <1>2, <1>3, <1>4 DEF DriverFits
<1>7. ASSUME NEW x \in held', NEW y \in held', Counterpart(x)' = Counterpart(y)'
      PROVE  x = y
  <2>1. \A z \in held : Counterpart(z) # d
    BY <1>3, <1>4 DEF DriverFits
  <2> QED
    BY <1>1, <1>2, <1>4, <1>7, <2>1 DEF DriverFits
<1>8. \A e, g \in driver' : e.kind = g.kind /\ e.num = g.num => e = g
  BY <1>1, <1>4 DEF DriverFits
<1> QED
  BY <1>5, <1>6, <1>7, <1>8 DEF DriverFits

----------------------------------------------------------------------------
(* Numbers. The driver has the one it gives next for nothing else of the      *)
(* kind, and each number of a QP has a slot of the table for itself.          *)
LEMMA LeastOf ==
  ASSUME NEW S \in SUBSET Nat, S # {}
  PROVE  \E m \in S : \A k \in S : m <= k
<1> DEFINE R == OpToRel(<, Nat)
<1>1. IsWellFoundedOn(R, Nat)
  BY NatLessThanWellFounded
<1>2. \E m \in S : \A k \in S : ~(<<k, m>> \in R)
  BY <1>1, WFMin
<1>3. \A k, m \in S : ~(<<k, m>> \in R) => m <= k
  BY DEF OpToRel
<1> QED
  BY <1>2, <1>3

(* Powers of two are positive,                                                *)
LEMMA PowersPositive == \A k \in 0 .. W32 : 2 ^ k \in Nat \ {0}
<1> DEFINE bad == {k \in 0 .. W32 : 2 ^ k \notin Nat \ {0}}
<1>1. W32 \in Nat
  BY SizingAssumption
<1>2. ASSUME bad # {} PROVE FALSE
  <2>1. bad \in SUBSET Nat
    BY <1>1
  <2>2. PICK m \in bad : \A k \in bad : m <= k
    BY <1>2, <2>1, LeastOf
  <2>3. m # 0
    <3>1. 2 ^ 0 \in Nat \ {0}
      BY SizingAssumption
    <3> QED
      BY <2>2, <3>1
  <2>4. m - 1 \in 0 .. W32 - 1 /\ m - 1 \in 0 .. W32 /\ (m - 1) + 1 = m
    BY <1>1, <2>3
  <2>5. 2 ^ (m - 1) \in Nat \ {0}
    BY <2>1, <2>2, <2>4
  <2>6. 2 ^ ((m - 1) + 1) = 2 * 2 ^ (m - 1)
    BY <2>4, SizingAssumption
  <2>7. 2 ^ m = 2 * 2 ^ (m - 1)
    BY <2>4, <2>6
  <2> QED
    BY <2>5, <2>7
<1> QED
  BY <1>2

(* a higher one is at least twice as much,                                    *)
LEMMA PowersGrow ==
  ASSUME NEW j \in 0 .. W32
  PROVE  \A k \in j + 1 .. W32 : 2 * 2 ^ j <= 2 ^ k
<1> DEFINE bad == {k \in j + 1 .. W32 : ~(2 * 2 ^ j <= 2 ^ k)}
<1>1. W32 \in Nat /\ 2 ^ j \in Nat \ {0}
  BY SizingAssumption, PowersPositive
<1>2. ASSUME bad # {} PROVE FALSE
  <2>1. bad \in SUBSET Nat
    BY <1>1
  <2>2. PICK m \in bad : \A k \in bad : m <= k
    BY <1>2, <2>1, LeastOf
  <2>3. m - 1 \in 0 .. W32 - 1 /\ m - 1 \in 0 .. W32 /\ (m - 1) + 1 = m
    BY <1>1
  <2>4. 2 ^ ((m - 1) + 1) = 2 * 2 ^ (m - 1)
    BY <2>3, SizingAssumption
  <2>5. 2 ^ m = 2 * 2 ^ (m - 1) /\ 2 ^ (m - 1) \in Nat \ {0}
    BY <2>3, <2>4, PowersPositive
  <2>6. CASE m = j + 1
    <3>1. m - 1 = j
      BY <2>6
    <3>2. 2 ^ m = 2 * 2 ^ j
      BY <2>5, <3>1
    <3> QED
      BY <1>1, <3>2
  <2>7. CASE m # j + 1
    <3>1. m - 1 \in j + 1 .. W32 /\ ~(m <= m - 1)
      BY <1>1, <2>7
    <3>2. 2 * 2 ^ j <= 2 ^ (m - 1)
      BY <2>2, <3>1
    <3> QED
      BY <1>1, <2>5, <3>2
  <2> QED
    BY <2>6, <2>7
<1> QED
  BY <1>2

(* and a multiple.                                                            *)
LEMMA PowersDivide ==
  ASSUME NEW j \in 0 .. W32
  PROVE  \A k \in j .. W32 : \E c \in Nat : 2 ^ k = c * 2 ^ j
<1> DEFINE bad == {k \in j .. W32 : ~\E c \in Nat : 2 ^ k = c * 2 ^ j}
<1>1. W32 \in Nat /\ 2 ^ j \in Nat \ {0}
  BY SizingAssumption, PowersPositive
<1>2. ASSUME bad # {} PROVE FALSE
  <2>1. bad \in SUBSET Nat
    BY <1>1
  <2>2. PICK m \in bad : \A k \in bad : m <= k
    BY <1>2, <2>1, LeastOf
  <2>3. m # j
    <3>1. 2 ^ j = 1 * 2 ^ j
      BY <1>1
    <3> QED
      BY <3>1
  <2>4. m - 1 \in 0 .. W32 - 1 /\ m - 1 \in j .. W32 /\ (m - 1) + 1 = m /\ ~(m <= m - 1)
    BY <1>1, <2>3
  <2>5. 2 ^ ((m - 1) + 1) = 2 * 2 ^ (m - 1)
    BY <2>4, SizingAssumption
  <2>6. 2 ^ m = 2 * 2 ^ (m - 1)
    BY <2>4, <2>5
  <2>7. PICK c \in Nat : 2 ^ (m - 1) = c * 2 ^ j
    BY <2>2, <2>4
  <2>8. 2 ^ m = (2 * c) * 2 ^ j
    <3>1. \A u \in Nat : 2 * (c * u) = (2 * c) * u
      OBVIOUS
    <3> QED
      BY <1>1, <2>6, <2>7, <3>1
  <2>9. 2 * c \in Nat
    OBVIOUS
  <2> QED
    BY <2>8, <2>9
<1> QED
  BY <1>2

(* The range of a word is not empty; 16 bits are fewer than 32.               *)
LEMMA WordsPositive ==
  /\ U16 \in Nat \ {0} /\ U32 \in Nat \ {0}
  /\ U16 \in PowersOfTwo /\ 2 * U16 <= U32
  /\ 2 ^ (W32 - 1) \in PowersOfTwo /\ U32 = 2 * 2 ^ (W32 - 1)
<1>1. W16 \in 0 .. W32 - 1 /\ W16 \in 0 .. W32 /\ W32 \in W16 + 1 .. W32
      /\ W32 \in 0 .. W32 /\ W32 - 1 \in 0 .. W32 - 1 /\ (W32 - 1) + 1 = W32
  BY SizingAssumption
<1>2. 2 ^ ((W32 - 1) + 1) = 2 * 2 ^ (W32 - 1)
  BY <1>1, SizingAssumption
<1>3. U32 = 2 * 2 ^ (W32 - 1)
  BY <1>1, <1>2 DEF U32
<1>4. U16 \in PowersOfTwo /\ 2 ^ (W32 - 1) \in PowersOfTwo
  BY <1>1 DEF U16, PowersOfTwo
<1>5. 2 * U16 <= U32
  BY <1>1, PowersGrow DEF U16, U32
<1>6. U16 \in Nat \ {0} /\ U32 \in Nat \ {0}
  BY <1>1, PowersPositive DEF U16, U32
<1> QED
  BY <1>3, <1>4, <1>5, <1>6

(* The powers a word holds: the lower of two divides the higher.              *)
LEMMA PowersApart ==
  /\ PowersOfTwo \subseteq Nat \ {0}
  /\ \A p \in PowersOfTwo : p < U32
  /\ \A p, s \in PowersOfTwo : p < s => 2 * p <= s
  /\ \A p, s \in PowersOfTwo : p <= s => \E c \in Nat : s = c * p
<1>1. W32 \in Nat /\ W32 \in 0 .. W32 /\ 0 .. W32 - 1 \subseteq 0 .. W32
  BY SizingAssumption
<1>2. PowersOfTwo \subseteq Nat \ {0}
  BY <1>1, PowersPositive DEF PowersOfTwo
<1>3. ASSUME NEW p \in PowersOfTwo PROVE p < U32
  <2>1. PICK j \in 0 .. W32 - 1 : p = 2 ^ j
    BY DEF PowersOfTwo
  <2>2. W32 \in j + 1 .. W32 /\ j \in 0 .. W32
    BY <1>1
  <2>3. 2 * 2 ^ j <= 2 ^ W32
    BY <2>2, PowersGrow
  <2> QED
    BY <1>2, <2>1, <2>3, WordsPositive DEF U32
<1>4. ASSUME NEW p \in PowersOfTwo, NEW s \in PowersOfTwo
      PROVE  /\ p < s => 2 * p <= s
             /\ p <= s => \E c \in Nat : s = c * p
  <2>1. PICK j \in 0 .. W32 - 1 : p = 2 ^ j
    BY DEF PowersOfTwo
  <2>2. PICK k \in 0 .. W32 - 1 : s = 2 ^ k
    BY DEF PowersOfTwo
  <2>3. j \in 0 .. W32 /\ k \in 0 .. W32
    BY <1>1
  <2>4. p \in Nat \ {0} /\ s \in Nat \ {0}
    BY <1>2
  <2>5. CASE k < j
    <3>1. j \in k + 1 .. W32
      BY <1>1, <2>5
    <3>2. 2 * s <= p
      BY <2>1, <2>2, <2>3, <3>1, PowersGrow
    <3> QED
      BY <2>4, <3>2
  <2>6. CASE j < k
    <3>1. k \in j + 1 .. W32 /\ k \in j .. W32
      BY <1>1, <2>6
    <3>2. 2 * p <= s /\ \E c \in Nat : s = c * p
      BY <2>1, <2>2, <2>3, <3>1, PowersGrow, PowersDivide
    <3> QED
      BY <3>2
  <2>7. CASE j = k
    <3>1. p = s /\ s = 1 * p
      BY <2>1, <2>2, <2>4, <2>7
    <3> QED
      BY <2>4, <3>1
  <2> QED
    BY <2>5, <2>6, <2>7
<1> QED
  BY <1>2, <1>3, <1>4

(* Rounding that ends gives the least power of two high enough, but for 1,    *)
(* which gives 2.                                                             *)
LEMMA RoundedUp ==
  ASSUME NEW n \in Nat, LoopEnds(n)
  PROVE  /\ LeastPower(n) \in PowersOfTwo /\ n <= LeastPower(n)
         /\ \A s \in PowersOfTwo : n <= s => LeastPower(n) <= s
         /\ RoundupPowOfTwo(n) \in PowersOfTwo /\ n <= RoundupPowOfTwo(n)
<1> DEFINE high == {p \in PowersOfTwo : n <= p}
<1>1. high \in SUBSET Nat /\ high # {}
  BY PowersApart, WordsPositive DEF LoopEnds
<1>2. \E p \in high : \A s \in high : p <= s
  BY <1>1, LeastOf
<1>3. /\ LeastPower(n) \in PowersOfTwo /\ n <= LeastPower(n)
      /\ \A s \in PowersOfTwo : n <= s => LeastPower(n) <= s
  BY <1>2 DEF LeastPower
<1>4. 2 \in PowersOfTwo
  <2>1. 1 \in 0 .. W32 - 1 /\ 0 \in 0 .. W32 - 1 /\ 0 + 1 = 1
    BY SizingAssumption
  <2>2. 2 ^ (0 + 1) = 2 * 2 ^ 0 /\ 2 ^ 0 = 1
    BY <2>1, SizingAssumption
  <2>3. 2 ^ 1 = 2
    BY <2>1, <2>2
  <2> QED
    BY <2>1, <2>3 DEF PowersOfTwo
<1> QED
  BY <1>3, <1>4 DEF RoundupPowOfTwo

(* The numbers of the driver are a finite set of naturals.                    *)
LEMMA Widths ==
  /\ U16 \in Nat \ {0} /\ UInt16 \subseteq Nat
  /\ Nums \subseteq Nat /\ IsFiniteSet(Nums) /\ Cardinality(Nums) \in Nat
<1>1. U16 \in Nat \ {0}
  BY WordsPositive
<1>2. UInt16 \subseteq Nat /\ IsFiniteSet(UInt16)
  BY <1>1, FS_Interval DEF UInt16
<1>3. IsFiniteSet(Nums)
  BY <1>2, ControlAssumption, FS_Subset
<1> QED
  BY <1>1, <1>2, <1>3, ControlAssumption, FS_CardinalityType

(* The number the driver gives next is not one it has given for an object of  *)
(* the kind.                                                                  *)
LEMMA NumIsNew ==
  ASSUME NEW kind, HasNum(kind)
  PROVE  /\ NewNum(kind) \in Nums
         /\ \A e \in driver : e.kind # kind \/ e.num # NewNum(kind)
<1> DEFINE free == Nums \ NumsOf(kind)
<1>1. free \in SUBSET Nat /\ free # {}
  BY Widths DEF HasNum
<1>2. \E m \in free : \A k \in free : m <= k
  BY <1>1, LeastOf
<1>3. NewNum(kind) \in free
  BY <1>2 DEF NewNum
<1> QED
  BY <1>3 DEF NumsOf

(* Rounding up gives a power of two when there is one that is high enough.    *)
LEMMA TableHasSlots == TableSize \in Nat \ {0}
<1>1. Info.maxQp \in Nat /\ LoopEnds(Info.maxQp)
  BY AttributesAssumption DEF DeviceInfo
<1>2. RoundupPowOfTwo(Info.maxQp) \in PowersOfTwo
  BY <1>1, RoundedUp
<1> QED
  BY <1>2, PowersApart DEF TableSize, QpTableSize

(* Every number of a QP has a slot, which is no other number's.               *)
LEMMA SlotsApart ==
  /\ \A n \in Nums : QpNum(n) % TableSize \in 0 .. TableSize - 1
  /\ \A m, n \in Nums : QpNum(m) % TableSize = QpNum(n) % TableSize => m = n
<1>1. ASSUME NEW n \in Nums PROVE QpNum(n) \in Nat
  <2>1. n \in Nat /\ Cardinality(Nums) \in Nat
    BY Widths
  <2> QED
    BY <2>1 DEF QpNum
<1>2. \A x \in Nat, t \in Nat \ {0} : x % t \in 0 .. t - 1
  OBVIOUS
<1>3. \A n \in Nums : QpNum(n) % TableSize \in 0 .. TableSize - 1
  BY <1>1, <1>2, TableHasSlots
<1> QED
  BY <1>3, ControlAssumption

----------------------------------------------------------------------------
(* What the poll loop looks up.                                               *)
SlotOwners(s) == {q \in held \cap Qps : QpSlot(q) = s}
RefSet(c) == {x \in (held \cap Qps) \X {"scq", "rcq"} : fields[x[1]][x[2]] = c}

TableMatches ==
  \A s \in DOMAIN table :
    SlotOwners(s) = IF table[s] = None THEN {} ELSE {table[s]}
CountsMatch == \A c \in held \cap Cqs : refCnt[c] = Cardinality(RefSet(c))

(* The table and the counts apart.                                            *)
LEMMA LookupParts ==
  LookupsFit <=> /\ DOMAIN table = 0 .. TableSize - 1 /\ DOMAIN refCnt = Cqs
                 /\ TableMatches /\ CountsMatch
  BY DEF LookupsFit, LookupsMatchQps, TableMatches, CountsMatch, SlotOwners, RefSet

(* The same after a step.                                                     *)
LEMMA LookupPartsNext ==
  LookupsFit' <=> /\ DOMAIN table' = 0 .. TableSize - 1 /\ DOMAIN refCnt' = Cqs
                  /\ TableMatches' /\ CountsMatch'
<1> DEFINE D == DOMAIN table = 0 .. TableSize - 1 /\ DOMAIN refCnt = Cqs
<1>1. LookupsFit <=> D /\ TableMatches /\ CountsMatch
  BY LookupParts
<1> HIDE DEF D
<1>2. (LookupsFit <=> D /\ TableMatches /\ CountsMatch)'
  BY LookupParts, PTL DEF D
<1> QED
  BY <1>2 DEF D

(* A step that changes neither the table and the counts nor the QPs.          *)
LEMMA SameLookups ==
  ASSUME ControlInv, UNCHANGED lookupVars, held' \cap Qps = held \cap Qps,
         held' \cap Cqs \subseteq held \cap Cqs,
         \A q \in held \cap Qps : /\ fields'[q].qpNum = fields[q].qpNum
                                  /\ fields'[q]["scq"] = fields[q]["scq"]
                                  /\ fields'[q]["rcq"] = fields[q]["rcq"]
  PROVE  LookupsFit'
<1>1. LookupsFit
  BY DEF ControlInv, ObjectsInv
<1>2. table' = table /\ refCnt' = refCnt
  BY DEF lookupVars
<1>3. ASSUME NEW s PROVE SlotOwners(s)' = SlotOwners(s)
  BY DEF SlotOwners, QpSlot
<1>4. ASSUME NEW c PROVE RefSet(c)' = RefSet(c)
  BY DEF RefSet
<1>5. TableMatches'
  BY <1>1, <1>2, <1>3, LookupParts DEF TableMatches
<1>6. CountsMatch'
  BY <1>1, <1>2, <1>4, LookupParts DEF CountsMatch
<1> QED
  BY <1>1, <1>2, <1>5, <1>6, LookupParts, LookupPartsNext

----------------------------------------------------------------------------
(* Calls that change nothing, or break the process.                           *)
LEMMA SameState ==
  ASSUME ControlInv, UNCHANGED <<contextVars, objectVars, lookupVars>>
  PROVE  /\ BlocksFit' /\ ContextFits' /\ NamesFit' /\ DriverFits' /\ LookupsFit'
         /\ AnswersFit'
<1>1. /\ context' = context /\ cached' = cached /\ attrs' = attrs /\ told' = told
      /\ blocks' = blocks /\ fields' = fields /\ driver' = driver
      /\ refused' = refused /\ leftovers' = leftovers /\ held' = held
      /\ table' = table /\ refCnt' = refCnt
  BY DEF contextVars, objectVars, lookupVars
<1>2. \A o : Parts(o)' = Parts(o)
  BY <1>1 DEF Parts
<1>3. \A o : Counterpart(o)' = Counterpart(o)
  BY <1>1 DEF Counterpart
<1>4. BlocksFit'
  BY <1>1, <1>2 DEF BlocksFit, HasPart, ControlInv, ObjectsInv
<1>5. ContextFits'
  BY <1>1 DEF ContextFits, Exists, ControlInv, ObjectsInv
<1>6. NamesFit'
  BY <1>1 DEF NamesFit, NamesHeld, ControlInv, ObjectsInv
<1>7. DriverFits'
  BY <1>1, <1>3 DEF DriverFits, ControlInv, ObjectsInv
<1>8. LookupsFit'
  BY <1>1, SameLookups DEF lookupVars
<1>9. AnswersFit'
  BY <1>1 DEF AnswersFit, KeepsWord, ControlInv
<1> QED
  BY <1>4, <1>5, <1>6, <1>7, <1>8, <1>9

(* A call that fails and changes nothing keeps the invariant.                 *)
LEMMA NothingDone ==
  ASSUME ControlInv, UNCHANGED controlVars
  PROVE  ControlInv'
<1>1. UNCHANGED <<contextVars, objectVars, lookupVars>>
  BY DEF controlVars
<1> QED
  BY <1>1, SameState DEF ControlInv, ObjectsInv

(* So does a call that breaks the process: nothing happens after it.          *)
LEMMA Broken ==
  ASSUME ControlInv, NEW call, Breaks(call)
  PROVE  ControlInv'
<1>1. UNCHANGED <<contextVars, objectVars, lookupVars>>
  BY DEF Breaks
<1> QED
  BY <1>1, SameState DEF ControlInv, ObjectsInv

----------------------------------------------------------------------------
(* Calls that make an object.                                                 *)
LEMMA MadeInv ==
  ASSUME ControlInv, NEW o, NEW d, NEW contents, NEW parts,
         Makes(o, d, contents, parts), LookupsFit'
  PROVE  ControlInv'
  BY MadeBlocks, MadeContext, MadeNames, MadeDriver DEF ControlInv, ObjectsInv

(* The poll loop looks for QPs and CQs only.                                  *)
LEMMA MadeNoLookup ==
  ASSUME ControlInv, NEW o \in Pds \cup Mrs \cup Ahs, NEW d, NEW contents, NEW parts,
         Makes(o, d, contents, parts), UNCHANGED lookupVars
  PROVE  ControlInv'
<1>1. held' = held \cup {o}
  BY DEF Makes, Obtains
<1>2. \A x \in held : fields'[x] = fields[x]
  BY MadeOthers
<1>3. held' \cap Qps = held \cap Qps /\ held' \cap Cqs = held \cap Cqs
  BY <1>1, KindsApart
<1>4. LookupsFit'
  BY <1>2, <1>3, SameLookups
<1> QED
  BY <1>4, MadeInv

(* ibv_alloc_pd.                                                              *)
LEMMA AllocPdKeeps ==
  ASSUME ControlInv, NEW p \in Pds, NEW f, AllocPd(p, f)
  PROVE  ControlInv'
<1>1. CASE f = "none" /\ HasNum("pd")
  <2> DEFINE n == NewNum("pd")
  <2>1. /\ Obtains(p, DriverPd(n), PdFields(n), {"struct"}) /\ UNCHANGED lookupVars
        /\ context = "open" /\ ~Exists(p)
    BY <1>1 DEF AllocPd
  <2>2. fields'[p] = PdFields(n)
    BY <2>1, KindsApart DEF Obtains, ControlInv, ObjectsInv, NamesFit
  <2>3. Counterpart(p)' = DriverPd(n)
    BY <2>2, CounterpartsNext DEF CounterpartTable, PdFields, DriverPd
  <2>4. Parts(p)' = {"struct"}
    BY PartsNext DEF PartTable
  <2>5. \A e \in driver : e.kind # "pd" \/ e.num # n
    BY <1>1, NumIsNew
  <2>6. NamesHeld(p)' /\ KeepsWord(p)'
    BY KindsApart DEF NamesHeld, KeepsWord
  <2>7. Makes(p, DriverPd(n), PdFields(n), {"struct"})
    BY <2>1, <2>3, <2>4, <2>5, <2>6, KindsApart DEF Makes, DriverPd
  <2> QED
    BY <2>1, <2>7, MadeNoLookup
<1>2. CASE ~(f = "none" /\ HasNum("pd"))
  BY <1>2, NothingDone DEF AllocPd, Fails
<1> QED
  BY <1>1, <1>2

(* ibv_reg_mr and ibv_reg_mr_iova2.                                           *)
LEMMA RegMrKeeps ==
  ASSUME ControlInv, NEW m \in Mrs, NEW p \in Pds, NEW f, RegMr(m, p, f)
  PROVE  ControlInv'
<1>1. CASE f = "none" /\ HasNum("mr")
  <2> DEFINE n == NewNum("mr")
  <2>1. /\ Obtains(m, DriverMr(p, n), MrFields(p, n), {"struct"})
        /\ UNCHANGED lookupVars
        /\ context = "open" /\ p \in held /\ ~Exists(m)
    BY <1>1 DEF RegMr, Given
  <2>2. /\ fields'[m] = MrFields(p, n) /\ fields'[p] = fields[p]
        /\ held' = held \cup {m}
    BY <2>1, KindsApart DEF Obtains, ControlInv, ObjectsInv, NamesFit
  <2>3. Counterpart(m)' = DriverMr(p, n)
    BY <2>2, CounterpartsNext DEF CounterpartTable, MrFields, DriverMr
  <2>4. Parts(m)' = {"struct"}
    BY PartsNext DEF PartTable
  <2>5. \A e \in driver : e.kind # "mr" \/ e.num # n
    BY <1>1, NumIsNew
  <2>6. NamesHeld(m)' /\ KeepsWord(m)'
    BY <2>1, <2>2, KindsApart DEF NamesHeld, KeepsWord, MrFields
  <2>7. Makes(m, DriverMr(p, n), MrFields(p, n), {"struct"})
    BY <2>1, <2>3, <2>4, <2>5, <2>6, KindsApart DEF Makes, DriverMr
  <2> QED
    BY <2>1, <2>7, MadeNoLookup
<1>2. CASE ~(f = "none" /\ HasNum("mr"))
  BY <1>2, NothingDone DEF RegMr, Fails
<1> QED
  BY <1>1, <1>2

(* ibv_create_ah.                                                             *)
LEMMA CreateAhKeeps ==
  ASSUME ControlInv, NEW a \in Ahs, NEW p \in Pds, NEW f, CreateAh(a, p, f)
  PROVE  ControlInv'
<1>1. CASE f = "none" /\ HasNum("ah")
  <2> DEFINE n == NewNum("ah")
  <2>1. /\ Obtains(a, DriverAh(p, n), AhFields(p, n), {"struct"})
        /\ UNCHANGED lookupVars
        /\ context = "open" /\ p \in held /\ ~Exists(a)
    BY <1>1 DEF CreateAh, Given
  <2>2. /\ fields'[a] = AhFields(p, n) /\ fields'[p] = fields[p]
        /\ held' = held \cup {a}
    BY <2>1, KindsApart DEF Obtains, ControlInv, ObjectsInv, NamesFit
  <2>3. Counterpart(a)' = DriverAh(p, n)
    BY <2>2, CounterpartsNext DEF CounterpartTable, AhFields, DriverAh
  <2>4. Parts(a)' = {"struct"}
    BY PartsNext DEF PartTable
  <2>5. \A e \in driver : e.kind # "ah" \/ e.num # n
    BY <1>1, NumIsNew
  <2>6. NamesHeld(a)' /\ KeepsWord(a)'
    BY <2>1, <2>2, KindsApart DEF NamesHeld, KeepsWord, AhFields
  <2>7. Makes(a, DriverAh(p, n), AhFields(p, n), {"struct"})
    BY <2>1, <2>3, <2>4, <2>5, <2>6, KindsApart DEF Makes, DriverAh
  <2> QED
    BY <2>1, <2>7, MadeNoLookup
<1>2. CASE ~(f = "none" /\ HasNum("ah")) /\ f = "calloc"
  BY <1>2, NothingDone DEF CreateAh, Fails
<1>3. CASE ~(f = "none" /\ HasNum("ah")) /\ f # "calloc"
  BY <1>3, Broken DEF CreateAh
<1> QED
  BY <1>1, <1>2, <1>3

(* ibv_create_cq and ibv_create_cq_ex: nothing counts a QP on a CQ that is    *)
(* new.                                                                       *)
LEMMA CreateCqKeeps ==
  ASSUME ControlInv, NEW c \in Cqs, NEW cqe, NEW f, CreateCq(c, cqe, f)
  PROVE  ControlInv'
<1>1. CASE ~(f # "calloc" /\ ~LoopEnds(cqe)) /\ f = "none" /\ CqDepthOk(cqe) /\ HasNum("cq")
  <2> DEFINE n == NewNum("cq")
             all == {"struct", "cond", "lock"}
  <2>1. /\ Obtains(c, DriverCq(n, cqe), CqFields(n, cqe), all)
        /\ refCnt' = [refCnt EXCEPT ![c] = 0] /\ table' = table
        /\ context = "open" /\ ~Exists(c)
    BY <1>1 DEF CreateCq
  <2>2. fields'[c] = CqFields(n, cqe) /\ held' = held \cup {c}
    BY <2>1, KindsApart DEF Obtains, ControlInv, ObjectsInv, NamesFit
  <2>3. Counterpart(c)' = DriverCq(n, cqe)
    BY <2>2, CounterpartsNext DEF CounterpartTable, CqFields, DriverCq
  <2>4. Parts(c)' = all
    BY PartsNext DEF PartTable
  <2>5. \A e \in driver : e.kind # "cq" \/ e.num # n
    BY <1>1, NumIsNew
  <2>6. NamesHeld(c)' /\ KeepsWord(c)'
    BY KindsApart DEF NamesHeld, KeepsWord
  <2>7. Makes(c, DriverCq(n, cqe), CqFields(n, cqe), all)
    BY <2>1, <2>3, <2>4, <2>5, <2>6, KindsApart DEF Makes, DriverCq
  <2> HIDE DEF n, all
  <2>8. /\ c \notin held
        /\ \A x \in held : fields'[x] = fields[x] /\ NamesHeld(x)
    BY <2>7, MadeOthers
  <2>9. held' \cap Qps = held \cap Qps
    BY <2>2, KindsApart
  <2>10. ASSUME NEW s PROVE SlotOwners(s)' = SlotOwners(s)
    BY <2>8, <2>9 DEF SlotOwners, QpSlot
  <2>11. ASSUME NEW k PROVE RefSet(k)' = RefSet(k)
    BY <2>8, <2>9 DEF RefSet
  <2>12. RefSet(c) = {}
    BY <2>8 DEF RefSet, NamesHeld
  <2>13. LookupsFit
    BY DEF ControlInv, ObjectsInv
  <2>14. TableMatches'
    BY <2>1, <2>10, <2>13, LookupParts DEF TableMatches
  <2>15. CountsMatch'
    <3>1. ASSUME NEW k \in held' \cap Cqs PROVE refCnt'[k] = Cardinality(RefSet(k)')
      <4>1. CASE k = c
        BY <2>1, <2>11, <2>12, <2>13, <4>1, LookupParts, FS_EmptySet
      <4>2. CASE k # c
        BY <2>1, <2>2, <2>11, <2>13, <3>1, <4>2, LookupParts DEF CountsMatch
      <4> QED
        BY <4>1, <4>2
    <3> QED
      BY <3>1 DEF CountsMatch
  <2>16. DOMAIN table' = 0 .. TableSize - 1 /\ DOMAIN refCnt' = Cqs
    BY <2>1, <2>13, LookupParts
  <2> QED
    BY <2>7, <2>14, <2>15, <2>16, LookupPartsNext, MadeInv
<1>2. CASE f # "calloc" /\ ~LoopEnds(cqe)
  BY <1>2, Broken DEF CreateCq
<1>3. CASE /\ ~(f # "calloc" /\ ~LoopEnds(cqe))
           /\ ~(f = "none" /\ CqDepthOk(cqe) /\ HasNum("cq"))
  BY <1>3, Broken DEF CreateCq
<1> QED
  BY <1>1, <1>2, <1>3

----------------------------------------------------------------------------
(* The driver's object that a call names is the one the object stands for.    *)
LEMMA NamedIs ==
  ASSUME ControlInv, NEW o \in held
  PROVE  Named(Counterpart(o).kind, Counterpart(o).num) = {Counterpart(o)}
  BY DEF Named, ControlInv, ObjectsInv, DriverFits

(* So the destroy calls name exactly the object they are given.               *)
LEMMA NamedOfKind ==
  ASSUME ControlInv
  PROVE  /\ \A p \in held \cap Pds : NamedPd(p) = {Counterpart(p)}
         /\ \A m \in held \cap Mrs : NamedMr(m) = {Counterpart(m)}
         /\ \A a \in held \cap Ahs : NamedAh(a) = {Counterpart(a)}
         /\ \A c \in held \cap Cqs : NamedCq(c) = {Counterpart(c)}
         /\ \A q \in held \cap Qps : NamedQp(q) = {Counterpart(q)}
<1>1. ASSUME NEW p \in held \cap Pds PROVE NamedPd(p) = {Counterpart(p)}
  <2>1. Counterpart(p).kind = "pd" /\ Counterpart(p).num = fields[p].handle
    BY Counterparts DEF CounterpartTable
  <2> QED
    BY <2>1, NamedIs DEF NamedPd
<1>2. ASSUME NEW m \in held \cap Mrs PROVE NamedMr(m) = {Counterpart(m)}
  <2>1. Counterpart(m).kind = "mr" /\ Counterpart(m).num = fields[m].lkey
    BY Counterparts DEF CounterpartTable
  <2> QED
    BY <2>1, NamedIs DEF NamedMr
<1>3. ASSUME NEW a \in held \cap Ahs PROVE NamedAh(a) = {Counterpart(a)}
  <2>1. /\ Counterpart(a).kind = "ah" /\ Counterpart(a).num = fields[a].handle
        /\ Counterpart(a).pd = fields[fields[a].pd].handle
    BY Counterparts DEF CounterpartTable
  <2>2. Named("ah", fields[a].handle) = {Counterpart(a)}
    BY <2>1, NamedIs
  <2> QED
    BY <2>1, <2>2 DEF NamedAh
<1>4. ASSUME NEW c \in held \cap Cqs PROVE NamedCq(c) = {Counterpart(c)}
  <2>1. Counterpart(c).kind = "cq" /\ Counterpart(c).num = fields[c].handle
    BY Counterparts DEF CounterpartTable
  <2> QED
    BY <2>1, NamedIs DEF NamedCq
<1>5. ASSUME NEW q \in held \cap Qps PROVE NamedQp(q) = {Counterpart(q)}
  <2>1. Counterpart(q).kind = "qp" /\ Counterpart(q).num = fields[q].handle
    BY Counterparts DEF CounterpartTable
  <2> QED
    BY <2>1, NamedIs DEF NamedQp
<1> QED
  BY <1>1, <1>2, <1>3, <1>4, <1>5

(* What is held has its struct: no call reads one that is gone.               *)
LEMMA HeldExists ==
  ASSUME ControlInv, NEW o \in held
  PROVE  o \in Objects /\ Exists(o)
<1>1. o \in Objects /\ "struct" \in PartNames
  BY DEF ControlInv, ObjectsInv, BlocksFit, PartNames, ContextParts
<1>2. HasPart(o, "struct")
  BY <1>1, PartsByKind DEF HasPart, PartTable
<1> QED
  BY <1>1, <1>2 DEF Exists, ControlInv, ObjectsInv, BlocksFit

----------------------------------------------------------------------------
(* A call that takes an object from the application, and with it all there is *)
(* of it, or leaves a struct and what the driver did not destroy.             *)
Takes(o) ==
  /\ o \in held /\ held' = held \ {o}
  /\ UNCHANGED <<contextVars, fault>>
  /\ DOMAIN fields' = DOMAIN fields
  /\ \A y \in Objects : y # o => fields'[y] = fields[y]
  /\ \A x \in held : /\ x \in Mrs \cup Ahs \cup Qps => fields[x].pd # o
                     /\ x \in Qps => fields[x].scq # o /\ fields[x].rcq # o
  /\ \/ /\ driver' = driver \ {Counterpart(o)} /\ refused' = refused
        /\ leftovers' = leftovers /\ blocks' = blocks \ Part(o, Parts(o))
     \/ /\ driver' = driver /\ refused' = refused \cup {Counterpart(o)}
        /\ leftovers' = leftovers \cup {o} /\ o \in Cqs \cup Qps
        /\ blocks' = blocks \ Part(o, Parts(o) \ {"struct"})

(* A call that takes an object leaves all others as they are.                 *)
LEMMA TakenOthers ==
  ASSUME ControlInv, NEW o, Takes(o)
  PROVE  /\ o \in Objects /\ o \notin leftovers
         /\ \A x \in held' : /\ x \in held /\ x \in Objects /\ x # o
                             /\ NamesHeld(x)
                             /\ fields'[x] = fields[x]
                             /\ Counterpart(x)' = Counterpart(x)
                             /\ Parts(x)' = Parts(x)
<1>1. /\ o \in held /\ held' = held \ {o} /\ held \subseteq Objects /\ NamesFit
      /\ o \notin leftovers
  BY DEF Takes, ControlInv, ObjectsInv, BlocksFit
<1>2. ASSUME NEW x \in held'
      PROVE  /\ x \in held /\ x \in Objects /\ x # o /\ NamesHeld(x)
             /\ fields'[x] = fields[x]
             /\ Counterpart(x)' = Counterpart(x) /\ Parts(x)' = Parts(x)
  <2>1. x \in held /\ x \in Objects /\ x # o /\ NamesHeld(x)
    BY <1>1 DEF NamesFit
  <2>2. /\ x \in Mrs \cup Ahs \cup Qps => fields[x].pd # o
        /\ x \in Qps => fields[x].scq # o /\ fields[x].rcq # o
        /\ \A y \in Objects : y # o => fields'[y] = fields[y]
    BY <2>1 DEF Takes
  <2> QED
    BY <1>1, <2>1, <2>2, SameCounterpart
<1> QED
  BY <1>1, <1>2

(* After such a call the blocks are those of the other objects, and a struct  *)
(* that is left over.                                                         *)
LEMMA TakenBlocks ==
  ASSUME ControlInv, NEW o, Takes(o)
  PROVE  BlocksFit'
<1>1. /\ o \in held /\ o \in Objects /\ o \notin leftovers /\ held' = held \ {o}
      /\ \A x \in held' : Parts(x)' = Parts(x)
      /\ blocks' \subseteq blocks /\ "struct" \in Parts(o)
  BY TakenOthers, PartsByKind DEF Takes, PartTable
<1>2. /\ held' \subseteq Objects /\ leftovers' \subseteq Cqs \cup Qps
      /\ held' \cap leftovers' = {} /\ IsFiniteSet(held')
      /\ blocks' \subseteq (Objects \cup Outside) \X PartNames
  <2>1. IsFiniteSet(held')
    BY <1>1, FS_RemoveElement DEF ControlInv, ObjectsInv, BlocksFit
  <2> QED
    BY <1>1, <2>1 DEF Takes, ControlInv, ObjectsInv, BlocksFit
<1>3. ASSUME NEW x \in Objects, NEW part \in PartNames
      PROVE  <<x, part>> \in blocks' <=> HasPart(x, part)'
  <2>1. <<x, part>> \in blocks <=> HasPart(x, part)
    BY DEF ControlInv, ObjectsInv, BlocksFit
  <2>2. CASE x = o
    <3>1. <<x, part>> \in blocks <=> part \in Parts(o)
      BY <1>1, <2>1, <2>2 DEF HasPart
    <3>2. x \notin held'
      BY <1>1, <2>2
    <3>3. CASE leftovers' = leftovers /\ blocks' = blocks \ Part(o, Parts(o))
      <4>1. <<x, part>> \notin blocks'
        BY <2>2, <3>1, <3>3 DEF Part
      <4> QED
        BY <1>1, <2>2, <3>2, <3>3, <4>1 DEF HasPart
    <3>4. CASE /\ leftovers' = leftovers \cup {o}
               /\ blocks' = blocks \ Part(o, Parts(o) \ {"struct"})
      <4>1. <<x, part>> \in blocks' <=> part = "struct"
        BY <1>1, <2>2, <3>1, <3>4 DEF Part
      <4> QED
        BY <2>2, <3>2, <3>4, <4>1 DEF HasPart
    <3> QED
      BY <3>3, <3>4 DEF Takes
  <2>3. CASE x # o
    <3>1. <<x, part>> \in blocks' <=> <<x, part>> \in blocks
      BY <2>3 DEF Takes, Part
    <3>2. x \in held' <=> x \in held
      BY <1>1, <2>3
    <3>3. x \in leftovers' <=> x \in leftovers
      BY <2>3 DEF Takes
    <3> QED
      BY <1>1, <2>1, <3>1, <3>2, <3>3 DEF HasPart
  <2> QED
    BY <2>2, <2>3
<1> QED
  BY <1>2, <1>3 DEF BlocksFit

(* The context and its device keep what they have.                            *)
LEMMA TakenContext ==
  ASSUME ControlInv, NEW o, Takes(o)
  PROVE  ContextFits'
<1>1. /\ context' = context /\ held' \subseteq held /\ blocks' \subseteq blocks
      /\ o \in Objects
  BY TakenOthers DEF Takes, contextVars
<1>2. \A x \in Outside, part \in PartNames :
        <<x, part>> \in blocks => <<x, part>> \in blocks'
  BY <1>1, ControlAssumption DEF Takes, Part
<1>3. /\ "struct" \in PartNames /\ "table" \in PartNames /\ "table_lock" \in PartNames
      /\ {"list", "device", "context"} \subseteq Outside
  BY DEF PartNames, ContextParts, Outside
<1>4. Exists("device") => Exists("device")'
  BY <1>2, <1>3 DEF Exists
<1>5. Part("context", ContextParts) \subseteq blocks =>
        Part("context", ContextParts) \subseteq blocks'
  BY <1>2, <1>3 DEF Part, ContextParts
<1>6. Exists("list")' => Exists("list")
  BY <1>1 DEF Exists
<1> QED
  BY <1>1, <1>4, <1>5, <1>6 DEF ControlInv, ObjectsInv, ContextFits

(* The driver has the object no more, or has refused to destroy it.           *)
LEMMA TakenDriver ==
  ASSUME ControlInv, NEW o, Takes(o)
  PROVE  DriverFits'
<1>1. /\ o \in held /\ held' = held \ {o}
      /\ \A x \in held' : /\ x \in held /\ x # o
                          /\ Counterpart(x)' = Counterpart(x)
  BY TakenOthers DEF Takes
<1>2. DriverFits
  BY DEF ControlInv, ObjectsInv
<1>3. \A x \in held' : Counterpart(x)' # Counterpart(o)
  BY <1>1, <1>2 DEF DriverFits
<1>4. CASE driver' = driver \ {Counterpart(o)} /\ refused' = refused
  <2>1. Counterpart(o) \notin refused
    BY <1>1, <1>2 DEF DriverFits
  <2>2. driver' = {Counterpart(x)' : x \in held'} \cup refused'
    BY <1>1, <1>2, <1>3, <1>4, <2>1 DEF DriverFits
  <2> QED
    BY <1>1, <1>2, <1>4, <2>2 DEF DriverFits
<1>5. CASE driver' = driver /\ refused' = refused \cup {Counterpart(o)}
  <2>1. driver' = {Counterpart(x)' : x \in held'} \cup refused'
    BY <1>1, <1>2, <1>5 DEF DriverFits
  <2> QED
    BY <1>1, <1>2, <1>3, <1>5, <2>1 DEF DriverFits
<1> QED
  BY <1>4, <1>5 DEF Takes

(* A call that takes an object, and keeps the lookups, keeps the invariant.   *)
LEMMA TakenInv ==
  ASSUME ControlInv, NEW o, Takes(o), LookupsFit'
  PROVE  ControlInv'
<1>1. /\ o \in held /\ held' = held \ {o} /\ DOMAIN fields' = DOMAIN fields
      /\ context' = context /\ cached' = cached /\ attrs' = attrs /\ told' = told
      /\ fault' = fault
  BY DEF Takes, contextVars
<1>2. \A x \in held' : x \in held /\ NamesHeld(x) /\ fields'[x] = fields[x]
  BY TakenOthers
<1>3. ASSUME NEW x \in held' PROVE NamesHeld(x)'
  <2>1. x \in held /\ NamesHeld(x) /\ fields'[x] = fields[x]
    BY <1>2
  <2>2. /\ x \in Mrs \cup Ahs \cup Qps => fields[x].pd # o
        /\ x \in Qps => fields[x].scq # o /\ fields[x].rcq # o
    BY <2>1 DEF Takes
  <2> QED
    BY <1>1, <2>1, <2>2 DEF NamesHeld
<1>4. ASSUME NEW x \in held' PROVE KeepsWord(x)'
  BY <1>1, <1>2 DEF KeepsWord, ControlInv, AnswersFit
<1>5. NamesFit'
  BY <1>1, <1>3 DEF NamesFit, ControlInv, ObjectsInv
<1>6. AnswersFit'
  BY <1>1, <1>4 DEF AnswersFit, ControlInv
<1> QED
  BY <1>5, <1>6, TakenBlocks, TakenContext, TakenDriver DEF ControlInv, ObjectsInv

----------------------------------------------------------------------------
(* The calls that release an object or give it up.                            *)
LEMMA ReleaseTakes ==
  ASSUME ControlInv, NEW o \in held, NEW f, Releases(o, {Counterpart(o)}, f),
         f = "none", Parts(o) = {"struct"},
         \A x \in held : /\ x \in Mrs \cup Ahs \cup Qps => fields[x].pd # o
                         /\ x \in Qps => fields[x].scq # o /\ fields[x].rcq # o
  PROVE  Takes(o) /\ UNCHANGED lookupVars
<1>1. DOMAIN fields = Objects
  BY DEF ControlInv, ObjectsInv, NamesFit
<1> QED
  BY <1>1 DEF Takes, Releases

(* No lookup changes when an object that is not a QP goes.                    *)
LEMMA TakenNoLookup ==
  ASSUME ControlInv, NEW o, Takes(o), UNCHANGED lookupVars, o \notin Qps
  PROVE  ControlInv'
<1>1. held' = held \ {o}
  BY DEF Takes
<1>2. \A x \in held' : fields'[x] = fields[x]
  BY TakenOthers
<1>3. held' \cap Qps = held \cap Qps /\ held' \cap Cqs \subseteq held \cap Cqs
  BY <1>1
<1>4. LookupsFit'
  BY <1>2, <1>3, SameLookups
<1> QED
  BY <1>4, TakenInv

(* What nothing names can be released.                                        *)
LEMMA ReleasesKeeps ==
  ASSUME ControlInv, NEW o \in held, o \in Pds \cup Mrs \cup Ahs, NEW f,
         Releases(o, {Counterpart(o)}, f),
         \A x \in held : x \in Mrs \cup Ahs \cup Qps => fields[x].pd # o
  PROVE  ControlInv'
<1>1. CASE f = "none"
  <2>1. Parts(o) = {"struct"} /\ o \notin Qps /\ o \notin Cqs
    BY PartsByKind, KindsApart DEF PartTable
  <2>2. \A x \in held : x \in Qps => fields[x].scq # o /\ fields[x].rcq # o
    BY <2>1 DEF ControlInv, ObjectsInv, NamesFit, NamesHeld
  <2>3. Takes(o) /\ UNCHANGED lookupVars
    BY <1>1, <2>1, <2>2, ReleaseTakes
  <2> QED
    BY <2>1, <2>3, TakenNoLookup
<1>2. CASE f # "none"
  BY <1>2, NothingDone DEF Releases, Fails
<1> QED
  BY <1>1, <1>2

(* ibv_dealloc_pd, of a PD without children.                                  *)
LEMMA DeallocPdKeeps ==
  ASSUME ControlInv, NEW p \in Pds, NEW f, DeallocPd(p, f)
  PROVE  ControlInv'
<1>1. p \in held /\ Children(p) = {} /\ Exists(p)
  BY HeldExists DEF DeallocPd, Given
<1>2. Releases(p, {Counterpart(p)}, f)
  BY <1>1, NamedOfKind DEF DeallocPd, Reads
<1>3. \A x \in held : x \in Mrs \cup Ahs \cup Qps => fields[x].pd # p
  BY <1>1 DEF Children
<1> QED
  BY <1>1, <1>2, <1>3, ReleasesKeeps

(* No object names a memory region or an address handle.                      *)
LEMMA LeavesUnnamed ==
  ASSUME ControlInv, NEW o, o \notin Pds, NEW x \in held
  PROVE  x \in Mrs \cup Ahs \cup Qps => fields[x].pd # o
  BY DEF ControlInv, ObjectsInv, NamesFit, NamesHeld

(* ibv_dereg_mr.                                                              *)
LEMMA DeregMrKeeps ==
  ASSUME ControlInv, NEW m \in Mrs, NEW f, DeregMr(m, f)
  PROVE  ControlInv'
<1>1. m \in held /\ Exists(m) /\ m \notin Pds
  BY HeldExists, KindsApart DEF DeregMr, Given
<1>2. Releases(m, {Counterpart(m)}, f)
  BY <1>1, NamedOfKind DEF DeregMr, Reads
<1>3. \A x \in held : x \in Mrs \cup Ahs \cup Qps => fields[x].pd # m
  BY <1>1, LeavesUnnamed
<1> QED
  BY <1>1, <1>2, <1>3, ReleasesKeeps

(* ibv_destroy_ah.                                                            *)
LEMMA DestroyAhKeeps ==
  ASSUME ControlInv, NEW a \in Ahs, NEW f, DestroyAh(a, f)
  PROVE  ControlInv'
<1>1. a \in held /\ Exists(a) /\ a \notin Pds
  BY HeldExists, KindsApart DEF DestroyAh, Given
<1>2. Releases(a, {Counterpart(a)}, f)
  BY <1>1, NamedOfKind DEF DestroyAh, Reads
<1>3. \A x \in held : x \in Mrs \cup Ahs \cup Qps => fields[x].pd # a
  BY <1>1, LeavesUnnamed
<1> QED
  BY <1>1, <1>2, <1>3, ReleasesKeeps

(* A CQ or QP that nothing names is given up, whatever the driver answers.    *)
LEMMA GivenUpTakes ==
  ASSUME ControlInv, NEW o \in held, o \in Cqs \cup Qps, NEW f,
         GivesUp(o, {Counterpart(o)}, f),
         blocks' = blocks \ Part(o, (Parts(o) \ {"struct"}) \cup
                                    (IF f = "none" THEN {"struct"} ELSE {})),
         UNCHANGED <<contextVars, fault>>,
         \A x \in held : x \in Qps => fields[x].scq # o /\ fields[x].rcq # o
  PROVE  Takes(o)
<1>1. DOMAIN fields = Objects /\ o \in Objects /\ o \notin Pds
  BY KindsApart DEF ControlInv, ObjectsInv, NamesFit
<1>2. \A x \in held : x \in Mrs \cup Ahs \cup Qps => fields[x].pd # o
  BY <1>1, LeavesUnnamed
<1>3. "struct" \in Parts(o)
  BY <1>1, PartsByKind DEF PartTable
<1>4. CASE f = "none"
  <2>1. blocks' = blocks \ Part(o, Parts(o))
    BY <1>3, <1>4 DEF Part
  <2> QED
    BY <1>1, <1>2, <1>4, <2>1 DEF Takes, GivesUp
<1>5. CASE f # "none"
  <2>1. blocks' = blocks \ Part(o, Parts(o) \ {"struct"})
    BY <1>5
  <2> QED
    BY <1>1, <1>2, <1>5, <2>1 DEF Takes, GivesUp
<1> QED
  BY <1>4, <1>5

(* ibv_destroy_cq, of a CQ that no QP uses.                                   *)
LEMMA DestroyCqKeeps ==
  ASSUME ControlInv, NEW c \in Cqs, NEW f, DestroyCq(c, f)
  PROVE  ControlInv'
<1>1. c \in held /\ GivesUp(c, {Counterpart(c)}, f) /\ UNCHANGED lookupVars
  BY NamedOfKind DEF DestroyCq, Given
<1>2. \A x \in held : x \in Qps => fields[x].scq # c /\ fields[x].rcq # c
  BY DEF DestroyCq
<1>3. CqFreed(c, f) = (Parts(c) \ {"struct"}) \cup
                        (IF f = "none" THEN {"struct"} ELSE {})
  BY PartsByKind DEF CqFreed, PartTable
<1>4. Takes(c)
  BY <1>1, <1>2, <1>3, GivenUpTakes DEF DestroyCq
<1> QED
  BY <1>1, <1>4, KindsApart, TakenNoLookup

----------------------------------------------------------------------------
(* The counts of a CQ: a QP adds one for each side it uses the CQ on.         *)
LEMMA CountSides ==
  ASSUME NEW S, IsFiniteSet(S), NEW q, NEW R \in SUBSET {"scq", "rcq"},
         \A r \in {"scq", "rcq"} : <<q, r>> \notin S
  PROVE  /\ Cardinality(S \cup ({q} \X R)) = Cardinality(S) + Cardinality(R)
         /\ Cardinality(R) = (IF "scq" \in R THEN 1 ELSE 0)
                             + (IF "rcq" \in R THEN 1 ELSE 0)
         /\ Cardinality(S) \in Nat /\ Cardinality(R) \in Nat
<1>1. Cardinality(S) \in Nat
  BY FS_CardinalityType
<1>2. CASE R = {}
  <2>1. Cardinality(R) = 0 /\ S \cup ({q} \X R) = S
    BY <1>2, FS_EmptySet
  <2> QED
    BY <1>1, <1>2, <2>1
<1>3. ASSUME NEW r \in {"scq", "rcq"}, R = {r}
      PROVE  /\ Cardinality(R) = 1
             /\ Cardinality(S \cup ({q} \X R)) = Cardinality(S) + 1
  <2>1. Cardinality(R) = 1
    BY <1>3, FS_Singleton
  <2>2. S \cup ({q} \X R) = S \cup {<<q, r>>}
    BY <1>3
  <2> QED
    BY <2>1, <2>2, FS_AddElement
<1>4. CASE R = {"scq", "rcq"}
  <2> DEFINE one == S \cup {<<q, "scq">>}
  <2>1. IsFiniteSet(one) /\ Cardinality(one) = Cardinality(S) + 1
    BY FS_AddElement
  <2>2. <<q, "rcq">> \notin one
    OBVIOUS
  <2> DEFINE two == one \cup {<<q, "rcq">>}
  <2>3. S \cup ({q} \X R) = two
    BY <1>4
  <2> HIDE DEF one
  <2>4. Cardinality(two) = Cardinality(one) + 1
    BY <2>1, <2>2, FS_AddElement
  <2> HIDE DEF two
  <2>8. Cardinality(S \cup ({q} \X R)) = Cardinality(S) + 2
    <3>1. Cardinality(S \cup ({q} \X R)) = Cardinality(two)
      BY <2>3, Zenon
    <3> QED
      BY <1>1, <2>1, <2>4, <3>1
  <2>5. Cardinality({"scq"}) = 1 /\ IsFiniteSet({"scq"})
    BY FS_Singleton
  <2>6. R = {"scq"} \cup {"rcq"} /\ "rcq" \notin {"scq"}
    BY <1>4
  <2>7. Cardinality(R) = 2
    BY <2>5, <2>6, FS_AddElement
  <2> QED
    BY <1>1, <1>4, <2>7, <2>8
<1>5. R = {} \/ R = {"scq"} \/ R = {"rcq"} \/ R = {"scq", "rcq"}
  OBVIOUS
<1> QED
  BY <1>1, <1>2, <1>3, <1>4, <1>5

(* There is a finite number of uses of a CQ.                                  *)
LEMMA RefSetFinite ==
  ASSUME IsFiniteSet(held), NEW c PROVE IsFiniteSet(RefSet(c))
<1>1. IsFiniteSet(held \cap Qps)
  BY FS_Subset
<1>2. IsFiniteSet({"scq", "rcq"})
  <2>1. IsFiniteSet({"scq"})
    BY FS_Singleton
  <2>2. IsFiniteSet({"scq"} \cup {"rcq"})
    BY <2>1, FS_AddElement
  <2>3. {"scq", "rcq"} = {"scq"} \cup {"rcq"}
    OBVIOUS
  <2> QED
    BY <2>2, <2>3
<1>3. IsFiniteSet((held \cap Qps) \X {"scq", "rcq"})
  BY <1>1, <1>2, FS_Product
<1>4. RefSet(c) \subseteq (held \cap Qps) \X {"scq", "rcq"}
  BY DEF RefSet
<1> QED
  BY <1>3, <1>4, FS_Subset

(* ibv_destroy_qp: the slot of the QP is emptied and its uses are counted     *)
(* down.                                                                      *)
LEMMA DestroyQpKeeps ==
  ASSUME ControlInv, NEW q \in Qps, NEW f, DestroyQp(q, f)
  PROVE  ControlInv'
<1> DEFINE R(c) == {r \in {"scq", "rcq"} : fields[q][r] = c}
<1>1. /\ q \in held /\ GivesUp(q, {Counterpart(q)}, f) /\ LookupsFit
      /\ table' = [table EXCEPT ![QpSlot(q)] = None]
      /\ refCnt' = [c \in Cqs |-> refCnt[c] - RefsOf(q, c)]
  BY NamedOfKind DEF DestroyQp, Given, ControlInv, ObjectsInv
<1>2. \A x \in held : x \in Qps => fields[x].scq # q /\ fields[x].rcq # q
  BY KindsApart DEF ControlInv, ObjectsInv, NamesFit, NamesHeld
<1>3. Takes(q)
  BY <1>1, <1>2, GivenUpTakes DEF DestroyQp
<1>4. /\ held' = held \ {q}
      /\ \A x \in held' : x \in held /\ fields'[x] = fields[x]
  BY <1>3, TakenOthers DEF Takes
<1>5. ASSUME NEW s PROVE SlotOwners(s)' = SlotOwners(s) \ {q}
  BY <1>4 DEF SlotOwners, QpSlot
<1>6. TableMatches'
  <2>1. ASSUME NEW s \in DOMAIN table
        PROVE  SlotOwners(s)' = IF table'[s] = None THEN {} ELSE {table'[s]}
    <3>1. SlotOwners(s) = IF table[s] = None THEN {} ELSE {table[s]}
      BY <1>1, LookupParts DEF TableMatches
    <3>2. CASE s = QpSlot(q)
      <4>1. q \in SlotOwners(s)
        BY <1>1, <3>2 DEF SlotOwners
      <4> QED
        BY <1>1, <1>5, <3>1, <3>2, <4>1
    <3>3. CASE s # QpSlot(q)
      <4>1. q \notin SlotOwners(s)
        BY <3>3 DEF SlotOwners
      <4> QED
        BY <1>1, <1>5, <3>1, <3>3, <4>1
    <3> QED
      BY <3>2, <3>3
  <2>2. DOMAIN table' = DOMAIN table
    BY <1>1
  <2> QED
    BY <2>1, <2>2 DEF TableMatches
<1>7. CountsMatch'
  <2>1. ASSUME NEW c \in held' \cap Cqs PROVE refCnt'[c] = Cardinality(RefSet(c)')
    <3>1. RefSet(c) = RefSet(c)' \cup ({q} \X R(c))
      BY <1>1, <1>4 DEF RefSet
    <3>2. \A r \in {"scq", "rcq"} : <<q, r>> \notin RefSet(c)'
      BY <1>4 DEF RefSet
    <3>3. RefSet(c)' \subseteq RefSet(c) /\ IsFiniteSet(RefSet(c))
      BY <3>1, RefSetFinite DEF ControlInv, ObjectsInv, BlocksFit
    <3>4. IsFiniteSet(RefSet(c)')
      BY <3>3, FS_Subset
    <3>5. /\ Cardinality(RefSet(c)' \cup ({q} \X R(c)))
               = Cardinality(RefSet(c)') + Cardinality(R(c))
          /\ Cardinality(RefSet(c)') \in Nat /\ Cardinality(R(c)) \in Nat
      BY <3>2, <3>4, CountSides
    <3>6. refCnt[c] = Cardinality(RefSet(c))
      BY <1>1, <1>4, <2>1, LookupParts DEF CountsMatch
    <3>7. refCnt'[c] = refCnt[c] - Cardinality(R(c))
      BY <1>1 DEF RefsOf
    <3> QED
      BY <3>1, <3>5, <3>6, <3>7
  <2> QED
    BY <2>1 DEF CountsMatch
<1>8. DOMAIN table' = 0 .. TableSize - 1 /\ DOMAIN refCnt' = Cqs
  BY <1>1, LookupParts
<1> QED
  BY <1>3, <1>6, <1>7, <1>8, LookupPartsNext, TakenInv

----------------------------------------------------------------------------
(* create_qp. What its error labels leave of a QP that was not made: nothing. *)
LEMMA AllUndone ==
  ASSUME NEW size, NEW f, f \in SqSteps \/ (f \in RqSteps /\ size.rqCnt # 0)
  PROVE  Got(size, f) \ Undone(size, f) = {}
<1> DEFINE at == CHOOSE i \in DOMAIN AllocationOrder : AllocationOrder[i] = f
           rq == {"rq.wrid", "rq.pool", "rq.lock"}
<1>1. Got(size, f) = {AllocationOrder[i] : i \in 1 .. at - 1}
                       \ (IF size.rqCnt = 0 THEN rq ELSE {})
  BY DEF Got
<1>2. DOMAIN AllocationOrder = 1 .. 9
  BY DEF AllocationOrder
<1>3. ASSUME NEW k \in 1 .. 9, AllocationOrder[k] = f,
             \A i \in 1 .. 9 : AllocationOrder[i] = f => i = k
      PROVE  at = k
  BY <1>2, <1>3
<1> HIDE DEF at
<1>4. CASE f = "rq.wrid"
  <2>1. at = 3
    BY <1>3, <1>4 DEF AllocationOrder
  <2>2. {AllocationOrder[i] : i \in 1 .. at - 1} \subseteq {"struct", "cond"}
    BY <2>1 DEF AllocationOrder
  <2> QED
    BY <1>1, <2>2 DEF Undone
<1>5. CASE f = "rq.pool"
  <2>1. at = 4
    BY <1>3, <1>5 DEF AllocationOrder
  <2>2. {AllocationOrder[i] : i \in 1 .. at - 1} \subseteq {"struct", "cond", "rq.wrid"}
    BY <2>1 DEF AllocationOrder
  <2> QED
    BY <1>1, <1>5, <2>2 DEF Undone, UndoneInQueue
<1>6. CASE f = "sq.wrid"
  <2>1. at = 6
    BY <1>3, <1>6 DEF AllocationOrder
  <2>2. {AllocationOrder[i] : i \in 1 .. at - 1} \subseteq {"struct", "cond"} \cup rq
    BY <2>1 DEF AllocationOrder
  <2> QED
    BY <1>1, <1>6, <2>2 DEF Undone, UndoneInQueue, RqParts, SqSteps
<1>7. CASE f = "sq.pool"
  <2>1. at = 7
    BY <1>3, <1>7 DEF AllocationOrder
  <2>2. {AllocationOrder[i] : i \in 1 .. at - 1}
          \subseteq {"struct", "cond", "sq.wrid"} \cup rq
    BY <2>1 DEF AllocationOrder
  <2> QED
    BY <1>1, <1>7, <2>2 DEF Undone, UndoneInQueue, RqParts, SqSteps
<1>8. CASE f = "local_queue"
  <2>1. at = 9
    BY <1>3, <1>8 DEF AllocationOrder
  <2>2. {AllocationOrder[i] : i \in 1 .. at - 1}
          \subseteq {"struct", "cond", "sq.wrid", "sq.pool", "sq.lock"} \cup rq
    BY <2>1 DEF AllocationOrder
  <2> QED
    BY <1>1, <1>8, <2>2 DEF Undone, UndoneInQueue, RqParts, SqSteps
<1> QED
  BY <1>4, <1>5, <1>6, <1>7, <1>8 DEF RqSteps, SqSteps

(* What the driver refuses to destroy when create_qp fails is remembered as   *)
(* that.                                                                      *)
LEMMA UndoKeeps ==
  ASSUME ControlInv, NEW d,
         \A e \in driver : e.kind # d.kind \/ e.num # d.num,
         driver' = driver \cup {d}, refused' = refused \cup {d}, blocks' = blocks,
         UNCHANGED <<contextVars, fields, leftovers, held, lookupVars, fault>>
  PROVE  ControlInv'
<1>1. /\ context' = context /\ cached' = cached /\ attrs' = attrs /\ told' = told
      /\ blocks' = blocks /\ fields' = fields /\ leftovers' = leftovers
      /\ held' = held /\ fault' = fault
  BY DEF contextVars
<1>2. \A o : Parts(o)' = Parts(o)
  BY <1>1 DEF Parts
<1>3. \A o : Counterpart(o)' = Counterpart(o)
  BY <1>1 DEF Counterpart
<1>4. DriverFits /\ d \notin driver
  BY DEF ControlInv, ObjectsInv
<1>5. DriverFits'
  <2>1. driver' = {Counterpart(o)' : o \in held'} \cup refused'
    BY <1>1, <1>3, <1>4 DEF DriverFits
  <2>2. \A o \in held' : Counterpart(o)' \notin refused'
    BY <1>1, <1>3, <1>4 DEF DriverFits
  <2>3. \A o, x \in held' : Counterpart(o)' = Counterpart(x)' => o = x
    BY <1>1, <1>3, <1>4 DEF DriverFits
  <2>4. \A e, g \in driver' : e.kind = g.kind /\ e.num = g.num => e = g
    BY <1>4 DEF DriverFits
  <2> QED
    BY <2>1, <2>2, <2>3, <2>4 DEF DriverFits
<1>6. BlocksFit'
  BY <1>1, <1>2 DEF BlocksFit, HasPart, ControlInv, ObjectsInv
<1>7. ContextFits'
  BY <1>1 DEF ContextFits, Exists, ControlInv, ObjectsInv
<1>8. NamesFit'
  BY <1>1 DEF NamesFit, NamesHeld, ControlInv, ObjectsInv
<1>9. LookupsFit'
  BY <1>1, SameLookups
<1>10. AnswersFit'
  BY <1>1 DEF AnswersFit, KeepsWord, ControlInv
<1> QED
  BY <1>5, <1>6, <1>7, <1>8, <1>9, <1>10 DEF ControlInv, ObjectsInv

(* Before ibv_query_device no request passes the limits that create_qp could  *)
(* divide by the receive buffers of.                                          *)
LEMMA LimitsToMakeQp ==
  ASSUME NEW cap \in QpCap,
         NEW a \in {GetContext(Info), QueriedAttrs(Info)},
         CheckQpLimits(cap, a.limits), Divides(cap)
  PROVE  a = QueriedAttrs(Info)
<1>1. U32 \in Nat
  BY WordsPositive
<1>2. cap.recvSge \in Nat /\ cap.recvSge # 0
  BY <1>1 DEF QpCap, UInt32, Divides
<1>3. CASE a = GetContext(Info)
  <2>1. a.limits.recvSge = 0
    BY <1>3 DEF GetContext, NoAttrs, NoLimits
  <2> QED
    BY <1>2, <2>1 DEF CheckQpLimits
<1> QED
  BY <1>3

(* Requests name PDs and CQs.                                                 *)
LEMMA RequestNames ==
  \A r \in Requests : r.pd \in Pds /\ r.scq \in Cqs /\ r.rcq \in Cqs /\ r.cap \in QpCap
  BY ControlAssumption DEF QpInitAttr

(* The limits of a device are naturals.                                       *)
LEMMA DeviceHasNaturals ==
  /\ Info.sendSge \in Nat /\ Info.recvSge \in Nat
  /\ Info.sendWr \in Nat /\ Info.recvWr \in Nat
<1>1. U32 \in Nat \ {0}
  BY WordsPositive
<1>2. U32 \div 2 \in Nat
  BY <1>1
<1>3. 0 .. U32 \div 2 - 1 \subseteq Nat
  BY <1>2
<1>4. /\ Info.sendSge \in UInt16 /\ Info.recvSge \in UInt16
      /\ Info.sendWr \in 0 .. U32 \div 2 - 1 /\ Info.recvWr \in 0 .. U32 \div 2 - 1
  BY AttributesAssumption DEF DeviceInfo
<1> QED
  BY <1>3, <1>4, Widths

(* What passes the limits in the context, filled in or not, passes those of   *)
(* the device.                                                                *)
LEMMA LimitsOfDevice ==
  ASSUME NEW cap \in QpCap,
         NEW a \in {GetContext(Info), QueriedAttrs(Info)},
         CheckQpLimits(cap, a.limits)
  PROVE  CheckQpLimits(cap, LimitsIn(Info))
<1>1. CASE a = QueriedAttrs(Info)
  BY <1>1 DEF QueriedAttrs
<1>2. CASE a = GetContext(Info)
  <2>1. a.limits = NoLimits
    BY <1>2 DEF GetContext, NoAttrs
  <2>2. UInt32 \subseteq Nat
    <3>1. U32 \in Nat
      BY WordsPositive
    <3> QED
      BY <3>1 DEF UInt32
  <2>3. /\ cap.sendSge \in Nat /\ cap.recvSge \in Nat
        /\ cap.sendWr \in Nat /\ cap.recvWr \in Nat
    BY <2>2 DEF QpCap
  <2>4. /\ cap.sendSge = 0 /\ cap.recvSge = 0 /\ cap.sendWr = 0 /\ cap.recvWr = 0
    BY <2>1, <2>3 DEF CheckQpLimits, NoLimits
  <2> QED
    BY <2>4, DeviceHasNaturals DEF CheckQpLimits, LimitsIn
<1> QED
  BY <1>1, <1>2

(* The slot of a number that the driver has just given is nobody's.           *)
LEMMA SlotIsFree ==
  ASSUME ControlInv, NEW h \in Nums,
         \A e \in driver : e.kind # "qp" \/ e.num # h
  PROVE  SlotOwners(QpNum(h) % TableSize) = {}
<1>1. ASSUME NEW x \in held \cap Qps, QpSlot(x) = QpNum(h) % TableSize PROVE FALSE
  <2>1. fields[x].handle \in Nums /\ fields[x].qpNum = QpNum(fields[x].handle)
    BY DEF ControlInv, ObjectsInv, NamesFit, NamesHeld
  <2>2. fields[x].handle = h
    BY <1>1, <2>1, SlotsApart DEF QpSlot
  <2>3. /\ Counterpart(x) \in driver
        /\ Counterpart(x).kind = "qp" /\ Counterpart(x).num = h
    BY <2>2, Counterparts DEF CounterpartTable, ControlInv, ObjectsInv, DriverFits
  <2> QED
    BY <2>3
<1> QED
  BY <1>1 DEF SlotOwners

(* A QP that is made is in its slot and counted once for each use of a CQ.    *)
LEMMA QpMadeLookups ==
  ASSUME ControlInv, NEW q \in Qps, NEW h \in Nums, NEW r \in Requests,
         NEW size, CreateQpDone(q, h, r, size),
         \A e \in driver : e.kind # "qp" \/ e.num # h,
         q \notin held, fields'[q] = QpFields(h, r, size),
         \A x \in held : fields'[x] = fields[x]
  PROVE  LookupsFit'
<1> DEFINE slot == QpNum(h) % TableSize
           R(c) == {s \in {"scq", "rcq"} : fields'[q][s] = c}
<1>1. /\ held' = held \cup {q} /\ LookupsFit
      /\ table' = [table EXCEPT ![slot] = q]
      /\ refCnt' = [c \in Cqs |-> refCnt[c] + (IF r.scq = c THEN 1 ELSE 0)
                                            + (IF r.rcq = c THEN 1 ELSE 0)]
  BY DEF CreateQpDone, Obtains, ControlInv, ObjectsInv
<1>2. /\ fields'[q].qpNum = QpNum(h)
      /\ fields'[q]["scq"] = r.scq /\ fields'[q]["rcq"] = r.rcq
  BY DEF QpFields
<1>3. slot \in DOMAIN table /\ SlotOwners(slot) = {} /\ q # None
  BY <1>1, SlotsApart, SlotIsFree, LookupParts, KindsApart, OutsideApart
<1> HIDE DEF slot
<1>4. QpSlot(q)' = slot
  BY <1>2 DEF QpSlot, slot
<1>5. TableMatches'
  <2>1. ASSUME NEW s \in DOMAIN table
        PROVE  SlotOwners(s)' = IF table'[s] = None THEN {} ELSE {table'[s]}
    <3>1. SlotOwners(s)' = SlotOwners(s) \cup (IF s = slot THEN {q} ELSE {})
      BY <1>1, <1>4 DEF SlotOwners, QpSlot
    <3>2. SlotOwners(s) = IF table[s] = None THEN {} ELSE {table[s]}
      BY <1>1, LookupParts DEF TableMatches
    <3>3. CASE s = slot
      BY <1>1, <1>3, <3>1, <3>3
    <3>4. CASE s # slot
      BY <1>1, <3>1, <3>2, <3>4
    <3> QED
      BY <3>3, <3>4
  <2>2. DOMAIN table' = DOMAIN table
    BY <1>1
  <2> QED
    BY <2>1, <2>2 DEF TableMatches
<1>6. CountsMatch'
  <2>1. ASSUME NEW c \in held' \cap Cqs PROVE refCnt'[c] = Cardinality(RefSet(c)')
    <3>1. c \in held
      BY <1>1, <2>1, KindsApart
    <3>2. RefSet(c)' = RefSet(c) \cup ({q} \X R(c))
      BY <1>1 DEF RefSet
    <3>3. \A s \in {"scq", "rcq"} : <<q, s>> \notin RefSet(c)
      BY DEF RefSet
    <3>4. IsFiniteSet(RefSet(c)) /\ R(c) \subseteq {"scq", "rcq"}
      BY RefSetFinite DEF ControlInv, ObjectsInv, BlocksFit
    <3>5. /\ Cardinality(RefSet(c) \cup ({q} \X R(c)))
               = Cardinality(RefSet(c)) + Cardinality(R(c))
          /\ Cardinality(R(c)) = (IF "scq" \in R(c) THEN 1 ELSE 0)
                                 + (IF "rcq" \in R(c) THEN 1 ELSE 0)
          /\ Cardinality(RefSet(c)) \in Nat
      BY <3>3, <3>4, CountSides
    <3>6. refCnt[c] = Cardinality(RefSet(c))
      BY <1>1, <2>1, <3>1, LookupParts DEF CountsMatch
    <3>7. /\ "scq" \in R(c) <=> r.scq = c
          /\ "rcq" \in R(c) <=> r.rcq = c
      BY <1>2
    <3>8. refCnt'[c] = refCnt[c] + (IF r.scq = c THEN 1 ELSE 0)
                                 + (IF r.rcq = c THEN 1 ELSE 0)
      BY <1>1, <2>1
    <3> HIDE DEF R
    <3>9. refCnt'[c] = Cardinality(RefSet(c) \cup ({q} \X R(c)))
      BY <3>5, <3>6, <3>7, <3>8
    <3> QED
      BY <3>2, <3>9
  <2> QED
    BY <2>1 DEF CountsMatch
<1>7. DOMAIN table' = 0 .. TableSize - 1 /\ DOMAIN refCnt' = Cqs
  BY <1>1, LookupParts
<1> QED
  BY <1>5, <1>6, <1>7, LookupPartsNext

(* ibv_create_qp and efadv_create_qp_ex, however they end.                    *)
LEMMA CreateQpKeeps ==
  ASSUME ControlInv, NEW q \in Qps, NEW r \in Requests, NEW f, NEW destroyed,
         CreateQp(q, r, f, destroyed)
  PROVE  ControlInv'
<1> DEFINE size == SetupQp(r.cap, 0)
           h == NewNum("qp")
           parts == {"struct", "cond"} \cup RqParts(size) \cup SqParts(size)
           fails == f \in SqSteps \/ (f \in RqSteps /\ size.rqCnt # 0)
<1>1. /\ context = "open" /\ r.pd \in held /\ r.scq \in held /\ r.rcq \in held
      /\ ~Exists(q)
  BY DEF CreateQp, Given
<1>2. r.pd \in Pds /\ r.scq \in Cqs /\ r.rcq \in Cqs /\ r.cap \in QpCap
  BY RequestNames
<1>3. CASE ~QpAccepted(r) \/ f = "calloc"
  BY <1>3, NothingDone DEF CreateQp, Fails
<1> DEFINE goes == ~(~QpAccepted(r) \/ f = "calloc") /\ QpRounds(r.cap, 0)
<1>4. CASE goes /\ ~Divides(r.cap)
  BY <1>4, Broken DEF CreateQp
<1>5. CASE /\ goes /\ Divides(r.cap)
           /\ (f = "driver" \/ ~HasNum("qp"))
  BY <1>5, NothingDone DEF CreateQp, Fails
<1>6. CASE /\ goes /\ Divides(r.cap)
           /\ ~(f = "driver" \/ ~HasNum("qp")) /\ fails
  <2>1. CreateQpUndo(q, DriverQp(h, r, size), size, f, destroyed)
    BY <1>6 DEF CreateQp
  <2> DEFINE d == DriverQp(h, r, size)
  <2>2. \A e \in driver : e.kind # d.kind \/ e.num # d.num
    BY <1>6, NumIsNew DEF DriverQp
  <2>3. Got(size, f) \ Undone(size, f) = {}
    BY <1>6, AllUndone
  <2> HIDE DEF d, size, h
  <2>4. blocks' = blocks
    BY <2>1, <2>3 DEF CreateQpUndo, Part
  <2>5. CASE destroyed
    <3>1. UNCHANGED controlVars
      BY <2>1, <2>4, <2>5 DEF CreateQpUndo, controlVars, contextVars, objectVars
    <3> QED
      BY <3>1, NothingDone
  <2>6. CASE ~destroyed
    <3>1. driver' = driver \cup {d} /\ refused' = refused \cup {d}
      BY <2>1, <2>6 DEF CreateQpUndo, d
    <3>2. UNCHANGED <<contextVars, fields, leftovers, held, lookupVars, fault>>
      BY <2>1 DEF CreateQpUndo
    <3> QED
      BY <2>2, <2>4, <3>1, <3>2, UndoKeeps
  <2> QED
    BY <2>5, <2>6
<1>7. CASE /\ goes /\ Divides(r.cap)
           /\ ~(f = "driver" \/ ~HasNum("qp")) /\ ~fails
  <2>1. /\ CreateQpDone(q, h, r, size) /\ HasNum("qp")
        /\ CheckQpLimits(r.cap, attrs.limits)
    BY <1>7 DEF CreateQp, QpAccepted
  <2>2. h \in Nums /\ \A e \in driver : e.kind # "qp" \/ e.num # h
    BY <2>1, NumIsNew
  <2> HIDE DEF h, size
  <2>3. Obtains(q, DriverQp(h, r, size), QpFields(h, r, size), parts)
    BY <2>1 DEF CreateQpDone
  <2>4. /\ fields'[q] = QpFields(h, r, size) /\ held' = held \cup {q}
        /\ \A y \in Objects : y # q => fields'[y] = fields[y]
    BY <2>3, KindsApart DEF Obtains, ControlInv, ObjectsInv, NamesFit
  <2>5. /\ fields'[r.pd] = fields[r.pd] /\ fields'[r.scq] = fields[r.scq]
        /\ fields'[r.rcq] = fields[r.rcq]
    BY <1>2, <2>4, KindsApart
  <2>6. Counterpart(q)' = DriverQp(h, r, size)
    BY <2>4, <2>5, CounterpartsNext DEF CounterpartTable, QpFields, DriverQp
  <2>7. Parts(q)' = parts
    BY <2>4, PartsNext DEF PartTable, QpFields
  <2>8. NamesHeld(q)'
    <3>1. DOMAIN QpFields(h, r, size) = QpFieldNames
      BY DEF QpFields, QpFieldNames
    <3> QED
      BY <1>1, <1>2, <2>2, <2>4, <3>1, KindsApart DEF NamesHeld, QpFields
  <2>9. KeepsWord(q)'
    <3>1. attrs \in {GetContext(Info), QueriedAttrs(Info)}
      BY <1>1 DEF ControlInv, AnswersFit
    <3>2. CheckQpLimits(r.cap, LimitsIn(Info))
      BY <1>2, <2>1, <3>1, LimitsOfDevice
    <3>3. fields'[q].asked = r.cap /\ attrs' = attrs
      BY <2>3, <2>4 DEF QpFields, Obtains, contextVars
    <3>4. attrs = QueriedAttrs(Info)
      BY <1>2, <1>7, <2>1, <3>1, LimitsToMakeQp
    <3> QED
      BY <3>2, <3>3, <3>4, KindsApart DEF KeepsWord
  <2>10. Makes(q, DriverQp(h, r, size), QpFields(h, r, size), parts)
    BY <1>1, <2>2, <2>3, <2>6, <2>7, <2>8, <2>9, KindsApart DEF Makes, DriverQp
  <2>11. q \notin held /\ \A x \in held : fields'[x] = fields[x]
    BY <2>10, MadeOthers
  <2>12. LookupsFit'
    BY <2>1, <2>2, <2>4, <2>11, QpMadeLookups
  <2> QED
    BY <2>10, <2>12, MadeInv
<1>8. CASE ~(~QpAccepted(r) \/ f = "calloc") /\ ~QpRounds(r.cap, 0)
  BY <1>8, Broken DEF CreateQp
<1> QED
  BY <1>3, <1>4, <1>5, <1>6, <1>7, <1>8

----------------------------------------------------------------------------
(* ibv_modify_qp: the QP and what the driver has for it change alike.         *)
LEMMA ModifyQpKeeps ==
  ASSUME ControlInv, NEW q \in Qps, NEW state, NEW f, ModifyQp(q, state, f)
  PROVE  ControlInv'
<1> DEFINE old == Counterpart(q)
           new == [Counterpart(q) EXCEPT !.state = state]
<1>1. /\ q \in held /\ ModifyState(q, state, f) /\ q \in Objects
      /\ UNCHANGED <<contextVars, blocks, refused, leftovers, held, lookupVars, fault>>
  BY KindsApart DEF ModifyQp, Given
<1>2. CASE f # "none"
  <2>1. UNCHANGED controlVars
    BY <1>1, <1>2 DEF ModifyState, controlVars, contextVars, objectVars
  <2> QED
    BY <2>1, NothingDone
<1>3. CASE f = "none"
  <2>1. /\ fields' = [fields EXCEPT ![q].state = state]
        /\ driver' =
             {IF d \in NamedQp(q) THEN [d EXCEPT !.state = state] ELSE d : d \in driver}
    BY <1>1, <1>3 DEF ModifyState
  <2>2. NamesFit /\ DriverFits /\ BlocksFit /\ NamesHeld(q)
    BY <1>1 DEF ControlInv, ObjectsInv, NamesFit
  <2>3. /\ fields'[q] = [fields[q] EXCEPT !.state = state]
        /\ DOMAIN fields[q] = QpFieldNames /\ DOMAIN fields' = Objects
        /\ \A y \in Objects : y # q => fields'[y] = fields[y]
    BY <1>1, <2>1, <2>2 DEF NamesFit, NamesHeld
  <2>4. /\ fields'[q].handle = fields[q].handle /\ fields'[q].qpNum = fields[q].qpNum
        /\ fields'[q].pd = fields[q].pd /\ fields'[q].scq = fields[q].scq
        /\ fields'[q].rcq = fields[q].rcq /\ fields'[q].type = fields[q].type
        /\ fields'[q].size = fields[q].size /\ fields'[q].asked = fields[q].asked
        /\ fields'[q].state = state /\ DOMAIN fields'[q] = QpFieldNames
    BY <2>3 DEF QpFieldNames
  <2>5. /\ fields[q].pd \in Pds /\ fields[q].scq \in Cqs /\ fields[q].rcq \in Cqs
    BY <2>2 DEF NamesHeld
  <2>6. /\ fields'[fields[q].pd] = fields[fields[q].pd]
        /\ fields'[fields[q].scq] = fields[fields[q].scq]
        /\ fields'[fields[q].rcq] = fields[fields[q].rcq]
    BY <2>3, <2>5, KindsApart
  <2>7. Counterpart(q)' = new
    BY <2>4, <2>6, Counterparts, CounterpartsNext DEF CounterpartTable
  <2>8. Parts(q)' = Parts(q)
    BY <2>4, PartsByKind, PartsNext DEF PartTable
  <2>9. ASSUME NEW x \in held, x # q
        PROVE  /\ Counterpart(x)' = Counterpart(x) /\ Parts(x)' = Parts(x)
               /\ fields'[x] = fields[x] /\ x \in Objects /\ NamesHeld(x)
    <3>1. x \in Objects /\ NamesHeld(x)
      BY <2>2 DEF NamesFit, BlocksFit
    <3>2. /\ x \in Mrs \cup Ahs \cup Qps => fields[x].pd # q
          /\ x \in Qps => fields[x].scq # q /\ fields[x].rcq # q
      BY <3>1, KindsApart DEF NamesHeld
    <3> QED
      BY <2>2, <2>3, <2>9, <3>1, <3>2, SameCounterpart DEF BlocksFit
  <2>10. BlocksFit'
    <3>1. \A x \in held : Parts(x)' = Parts(x)
      BY <2>8, <2>9
    <3> QED
      BY <1>1, <2>2, <3>1 DEF BlocksFit, HasPart
  <2>11. ContextFits'
    BY <1>1 DEF ContextFits, Exists, ControlInv, ObjectsInv, contextVars
  <2>12. NamesFit'
    <3>1. ASSUME NEW x \in held' PROVE NamesHeld(x)'
      <4>1. CASE x = q
        BY <1>1, <2>2, <2>4, <4>1 DEF NamesHeld
      <4>2. CASE x # q
        BY <1>1, <2>9, <4>2 DEF NamesHeld
      <4> QED
        BY <4>1, <4>2
    <3> QED
      BY <2>3, <3>1 DEF NamesFit
  <2>13. DriverFits'
    <3>1. old \in driver /\ old \notin refused /\ NamedQp(q) = {old}
      BY <1>1, <2>2, NamedOfKind DEF DriverFits
    <3>2. /\ new.kind = old.kind /\ new.num = old.num
          /\ old.kind = "qp" /\ old.num = fields[q].handle
      BY Counterparts DEF CounterpartTable
    <3> HIDE DEF old
    <3>3. driver' = (driver \ {old}) \cup {new}
      BY <2>1, <3>1 DEF old
    <3> HIDE DEF new
    <3>4. \A d \in driver : d # old => ~(d.kind = new.kind /\ d.num = new.num)
      BY <2>2, <3>1, <3>2 DEF DriverFits
    <3>5. new \notin driver \/ new = old
      BY <3>4
    <3>6. \A x \in held : x # q => Counterpart(x) # old
      BY <1>1, <2>2 DEF DriverFits, old
    <3>7. \A x \in held' : Counterpart(x)' = IF x = q THEN new ELSE Counterpart(x)
      BY <1>1, <2>7, <2>9
    <3>8. driver' = {Counterpart(x)' : x \in held'} \cup refused'
      <4>1. driver \ {old} = {Counterpart(x) : x \in held \ {q}} \cup refused
        BY <1>1, <2>2, <3>1, <3>6 DEF DriverFits, old
      <4> QED
        BY <1>1, <3>3, <3>7, <4>1
    <3>9. \A x \in held' : Counterpart(x)' \notin refused'
      BY <1>1, <2>2, <3>1, <3>5, <3>7 DEF DriverFits
    <3>10. ASSUME NEW x \in held', NEW y \in held', Counterpart(x)' = Counterpart(y)'
           PROVE  x = y
      <4>1. \A z \in held : z # q => Counterpart(z) # new
        BY <2>2, <3>5, <3>6 DEF DriverFits
      <4> QED
        BY <1>1, <2>2, <3>7, <3>10, <4>1 DEF DriverFits
    <3>11. \A d, e \in driver' : d.kind = e.kind /\ d.num = e.num => d = e
      BY <2>2, <3>3, <3>4 DEF DriverFits
    <3> QED
      BY <3>8, <3>9, <3>10, <3>11 DEF DriverFits
  <2>14. LookupsFit'
    BY <1>1, <2>4, <2>9, SameLookups
  <2>15. AnswersFit'
    <3>1. ASSUME NEW x \in held PROVE KeepsWord(x)'
      <4>1. KeepsWord(x) /\ attrs' = attrs
        BY <1>1 DEF ControlInv, AnswersFit, contextVars
      <4>2. CASE x = q
        BY <2>4, <4>1, <4>2, KindsApart DEF KeepsWord
      <4>3. CASE x # q
        BY <2>9, <4>1, <4>3 DEF KeepsWord
      <4> QED
        BY <4>2, <4>3
    <3> QED
      BY <1>1, <3>1 DEF AnswersFit, ControlInv, contextVars
  <2> QED
    BY <2>10, <2>11, <2>12, <2>13, <2>14, <2>15 DEF ControlInv, ObjectsInv
<1> QED
  BY <1>2, <1>3

----------------------------------------------------------------------------
(* Calls on devices and contexts, which no object is changed in.              *)
LEMMA OuterKeeps ==
  ASSUME ControlInv,
         UNCHANGED <<fields, driver, refused, leftovers, held, lookupVars, fault>>,
         blocks' \subseteq (Objects \cup Outside) \X PartNames,
         \A o \in Objects, part \in PartNames :
           <<o, part>> \in blocks' <=> <<o, part>> \in blocks,
         ContextFits', AnswersFit'
  PROVE  ControlInv'
<1>1. \A o : Parts(o)' = Parts(o)
  BY DEF Parts
<1>2. \A o : Counterpart(o)' = Counterpart(o)
  BY DEF Counterpart
<1>3. BlocksFit'
  BY <1>1 DEF BlocksFit, HasPart, ControlInv, ObjectsInv
<1>4. NamesFit'
  BY DEF NamesFit, NamesHeld, ControlInv, ObjectsInv
<1>5. DriverFits'
  BY <1>2 DEF DriverFits, ControlInv, ObjectsInv
<1>6. LookupsFit'
  BY SameLookups
<1> QED
  BY <1>3, <1>4, <1>5, <1>6 DEF ControlInv, ObjectsInv

(* The parts outside the objects.                                             *)
LEMMA OutsideParts ==
  /\ {"list", "device", "context"} = Outside
  /\ ContextParts \subseteq PartNames /\ "struct" \in PartNames /\ "mutex" \in PartNames
  /\ \A o \in Objects : o \notin Outside
  BY ControlAssumption DEF Outside, PartNames, ContextParts

(* What has been said of the context goes on to hold when only the blocks     *)
(* change.                                                                    *)
LEMMA SameAnswers ==
  ASSUME ControlInv, UNCHANGED <<contextVars, fields, held>> PROVE AnswersFit'
<1>1. /\ context' = context /\ cached' = cached /\ attrs' = attrs /\ told' = told
      /\ fields' = fields /\ held' = held
  BY DEF contextVars
<1> QED
  BY <1>1 DEF AnswersFit, KeepsWord, ControlInv

(* ibv_get_device_list.                                                       *)
LEMMA GetDeviceListKeeps ==
  ASSUME ControlInv, NEW f, GetDeviceList(f)
  PROVE  ControlInv'
<1>1. /\ context = "none" /\ context' = context /\ told' = told /\ held' = held
      /\ UNCHANGED <<fields, driver, refused, leftovers, held, lookupVars, fault>>
  BY DEF GetDeviceList
<1>2. blocks' = blocks \/
      blocks' = blocks \cup {<<"list", "struct">>, <<"device", "struct">>}
  BY DEF GetDeviceList
<1>3. blocks' \subseteq (Objects \cup Outside) \X PartNames
  BY <1>2, OutsideParts DEF ControlInv, ObjectsInv, BlocksFit
<1>4. \A o \in Objects, part \in PartNames :
        <<o, part>> \in blocks' <=> <<o, part>> \in blocks
  BY <1>2, OutsideApart
<1>5. ContextFits'
  <2>1. Exists("list")' => Exists("device")'
    BY <1>2 DEF Exists, ControlInv, ObjectsInv, ContextFits
  <2>2. \A o, part : <<o, part>> \in blocks' =>
          <<o, part>> \in blocks \/ <<o, part>> \in Outer
    BY <1>2 DEF Outer
  <2> QED
    BY <1>1, <2>1, <2>2 DEF ContextFits, ControlInv, ObjectsInv
<1>6. AnswersFit'
  BY <1>1 DEF AnswersFit, ControlInv, ObjectsInv, ContextFits
<1> QED
  BY <1>1, <1>3, <1>4, <1>5, <1>6, OuterKeeps

(* ibv_free_device_list: the device stays.                                    *)
LEMMA FreeDeviceListKeeps ==
  ASSUME ControlInv, FreeDeviceList
  PROVE  ControlInv'
<1>1. /\ blocks' = blocks \ {<<"list", "struct">>}
      /\ UNCHANGED <<contextVars, held>> /\ context' = context
      /\ UNCHANGED <<fields, driver, refused, leftovers, held, lookupVars, fault>>
  BY DEF FreeDeviceList, FreeList, contextVars
<1>2. blocks' \subseteq (Objects \cup Outside) \X PartNames
  BY <1>1 DEF ControlInv, ObjectsInv, BlocksFit
<1>3. \A o \in Objects, part \in PartNames :
        <<o, part>> \in blocks' <=> <<o, part>> \in blocks
  BY <1>1, OutsideApart
<1>4. ContextFits'
  <2>1. Exists("device")' <=> Exists("device")
    BY <1>1 DEF Exists
  <2>2. Part("context", ContextParts) \subseteq blocks =>
          Part("context", ContextParts) \subseteq blocks'
    BY <1>1 DEF Part
  <2>3. ~Exists("list")'
    BY <1>1 DEF Exists
  <2> QED
    BY <1>1, <2>1, <2>2, <2>3 DEF ContextFits, ControlInv, ObjectsInv
<1>5. AnswersFit'
  BY <1>1, SameAnswers
<1> QED
  BY <1>1, <1>2, <1>3, <1>4, <1>5, OuterKeeps

(* ibv_open_device leaves nothing of a context that it did not finish.        *)
LEMMA OpenDeviceKeeps ==
  ASSUME ControlInv, NEW f \in OpenSteps \cup {"none"}, OpenDevice(f)
  PROVE  ControlInv'
<1>1. /\ context = "none" /\ Exists("list") /\ told' = told
      /\ context' = IF f = "none" THEN "open" ELSE "null member"
      /\ UNCHANGED <<fields, driver, refused, leftovers, held, lookupVars, fault>>
  BY DEF OpenDevice
<1>2. held = {} /\ told = None /\ Exists("device")
  BY <1>1 DEF ControlInv, ObjectsInv, ContextFits, AnswersFit
<1>3. CASE f = "none"
  <2>1. blocks' = blocks \cup Part("context", ContextParts \cup {"mutex"})
    BY <1>3 DEF OpenDevice, AllocContext
  <2>2. cached' = Info /\ attrs' = GetContext(Info)
    BY <1>3 DEF OpenDevice, GetDeviceInfo
  <2>3. blocks' \subseteq (Objects \cup Outside) \X PartNames
    BY <2>1, OutsideParts DEF ControlInv, ObjectsInv, BlocksFit, Part
  <2>4. \A o \in Objects, part \in PartNames :
          <<o, part>> \in blocks' <=> <<o, part>> \in blocks
    BY <2>1, OutsideApart DEF Part
  <2>5. ContextFits'
    <3>1. Exists("device")' /\ Part("context", ContextParts) \subseteq blocks'
      BY <1>2, <2>1 DEF Exists, Part
    <3>2. \A o, part : <<o, part>> \in blocks' =>
            \/ <<o, part>> \in blocks
            \/ o = "context" /\ (part \in ContextParts \/ part = "mutex")
      BY <2>1 DEF Part
    <3>3. \A o \in Outside, part \in PartNames :
            <<o, part>> \in blocks => <<o, part>> \in Outer
      BY <1>1 DEF ControlInv, ObjectsInv, ContextFits
    <3> QED
      BY <1>1, <1>2, <1>3, <3>1, <3>2, <3>3 DEF ContextFits, Outer
  <2>6. AnswersFit'
    BY <1>1, <1>2, <1>3, <2>2 DEF AnswersFit
  <2> QED
    BY <1>1, <2>3, <2>4, <2>5, <2>6, OuterKeeps
<1>4. CASE f # "none"
  <2>1. AllocContext(f) = {}
    BY <1>4 DEF AllocContext, ContextParts, OpenSteps
  <2>2. blocks' = blocks
    BY <1>4, <2>1 DEF OpenDevice, Part
  <2>3. ContextFits'
    BY <1>1, <1>2, <1>4, <2>2 DEF ContextFits, Exists, ControlInv, ObjectsInv
  <2>4. AnswersFit'
    BY <1>1, <1>2, <1>4 DEF AnswersFit
  <2> QED
    BY <1>1, <2>2, <2>3, <2>4, OuterKeeps DEF ControlInv, ObjectsInv, BlocksFit
<1> QED
  BY <1>3, <1>4

(* A version that is cut stays as it is, and what is told of a device does    *)
(* not depend on it.                                                          *)
LEMMA CutOnce ==
  ASSUME NEW info \in {Info, CutVersion(Info)}
  PROVE  /\ CutVersion(info) = CutVersion(Info)
         /\ QueriedAttrs(info) = QueriedAttrs(Info)
         /\ DeviceAnswer(info) = DeviceAnswer(Info)
<1> DEFINE cut == [Info EXCEPT !.version.low = 0]
<1>1. Info \in DeviceInfo
  BY AttributesAssumption
<1>2. CutVersion(cut) = cut
  BY <1>1 DEF CutVersion, DeviceInfo
<1>3. /\ cut.sendSge = Info.sendSge /\ cut.recvSge = Info.recvSge
      /\ cut.sendWr = Info.sendWr /\ cut.recvWr = Info.recvWr
      /\ cut.features = Info.features /\ cut.inline = Info.inline
  BY <1>1 DEF DeviceInfo
<1>4. QueriedAttrs(cut) = QueriedAttrs(Info)
  BY <1>3 DEF QueriedAttrs, LimitsIn
<1>5. CutVersion(info) = CutVersion(Info)
  BY <1>2 DEF CutVersion
<1>6. QueriedAttrs(info) = QueriedAttrs(Info)
  BY <1>4 DEF CutVersion
<1> QED
  BY <1>5, <1>6 DEF DeviceAnswer

(* ibv_query_device, the first time and any other time.                       *)
LEMMA QueryDeviceKeeps ==
  ASSUME ControlInv, QueryDevice
  PROVE  ControlInv'
<1>1. /\ context = "open" /\ context' = context /\ blocks' = blocks
      /\ told' = DeviceAnswer(cached) /\ cached' = CutVersion(cached)
      /\ attrs' = QueriedAttrs(cached) /\ fields' = fields /\ held' = held
      /\ UNCHANGED <<fields, driver, refused, leftovers, held, lookupVars, fault>>
  BY DEF QueryDevice, objectVars
<1>2. cached \in {Info, CutVersion(Info)}
  BY <1>1 DEF ControlInv, AnswersFit
<1>3. /\ told' = DeviceAnswer(Info) /\ cached' = CutVersion(Info)
      /\ attrs' = QueriedAttrs(Info)
  BY <1>1, <1>2, CutOnce
<1>4. AnswersFit'
  BY <1>1, <1>3 DEF AnswersFit, KeepsWord, ControlInv
<1>5. ContextFits'
  BY <1>1 DEF ContextFits, Exists, ControlInv, ObjectsInv
<1> QED
  BY <1>1, <1>4, <1>5, OuterKeeps DEF ControlInv, ObjectsInv, BlocksFit

(* ibv_close_device: the context goes, with everything the driver has for it. *)
LEMMA CloseDeviceKeeps ==
  ASSUME ControlInv, CloseDevice
  PROVE  ControlInv'
<1>1. /\ held = {} /\ held' = {} /\ context' = "none" /\ told' = None
      /\ driver' = {} /\ refused' = {} /\ leftovers' = leftovers
      /\ fields' = fields /\ refCnt' = refCnt /\ fault' = fault
      /\ table' = [s \in DOMAIN table |-> None]
      /\ blocks' = blocks \ Part("context", ContextParts)
  BY DEF CloseDevice
<1>2. \A o \in Objects, part \in PartNames :
        <<o, part>> \in blocks' <=> <<o, part>> \in blocks
  BY <1>1, OutsideApart DEF Part
<1>3. BlocksFit'
  BY <1>1, <1>2 DEF BlocksFit, HasPart, ControlInv, ObjectsInv
<1>4. ContextFits'
  <2>1. Exists("list")' => Exists("device")'
    BY <1>1 DEF Exists, Part, ControlInv, ObjectsInv, ContextFits
  <2>2. \A o \in Outside, part \in PartNames :
          <<o, part>> \in blocks' => <<o, part>> \in Outer
    BY <1>1 DEF Part, ControlInv, ObjectsInv, ContextFits
  <2> QED
    BY <1>1, <2>1, <2>2 DEF ContextFits
<1>5. NamesFit' /\ DriverFits' /\ AnswersFit'
  BY <1>1 DEF NamesFit, DriverFits, AnswersFit, ControlInv, ObjectsInv
<1>6. LookupsFit'
  <2>1. DOMAIN table' = 0 .. TableSize - 1 /\ DOMAIN refCnt' = Cqs
    BY <1>1 DEF ControlInv, ObjectsInv, LookupsFit
  <2>2. TableMatches' /\ CountsMatch'
    BY <1>1 DEF TableMatches, CountsMatch, SlotOwners
  <2> QED
    BY <2>1, <2>2, LookupPartsNext
<1> QED
  BY <1>3, <1>4, <1>5, <1>6 DEF ControlInv, ObjectsInv

----------------------------------------------------------------------------
(* The invariant, call by call.                                               *)
LEMMA StartsInControl ==
  ASSUME EfawinInit PROVE ControlInv
<1>1. /\ context = "none" /\ told = None /\ blocks = {} /\ driver = {}
      /\ refused = {} /\ leftovers = {} /\ held = {} /\ fault = None
      /\ fields = [o \in Objects |-> None]
      /\ table = [s \in 0 .. TableSize - 1 |-> None]
      /\ refCnt = [c \in Cqs |-> 0]
  BY DEF EfawinInit, Init
<1>2. BlocksFit
  BY <1>1, FS_EmptySet DEF BlocksFit, HasPart
<1>3. ContextFits /\ NamesFit /\ DriverFits /\ AnswersFit
  BY <1>1 DEF ContextFits, Exists, NamesFit, DriverFits, AnswersFit
<1>4. LookupsFit
  BY <1>1, LookupParts DEF TableMatches, CountsMatch, SlotOwners
<1> QED
  BY <1>2, <1>3, <1>4 DEF ControlInv, ObjectsInv

(* Calls on devices and contexts keep it.                                     *)
LEMMA DeviceCallsKeep ==
  ASSUME ControlInv, DeviceCalls PROVE ControlInv'
<1>1. ASSUME NEW f \in {"none", "list", "device"},
             Calls("ibv_get_device_list", GetDeviceList(f))
      PROVE  ControlInv'
  BY <1>1, GetDeviceListKeeps DEF Calls
<1>2. CASE Calls("ibv_free_device_list", FreeDeviceList)
  BY <1>2, FreeDeviceListKeeps DEF Calls
<1>3. ASSUME NEW f \in OpenSteps \cup {"none"}, Calls("ibv_open_device", OpenDevice(f))
      PROVE  ControlInv'
  BY <1>3, OpenDeviceKeeps DEF Calls
<1>4. ASSUME NEW e, Calls(e, UseNullMember) PROVE ControlInv'
  BY <1>4, Broken DEF Calls, UseNullMember
<1>5. CASE Calls("ibv_query_device", QueryDevice)
  BY <1>5, QueryDeviceKeeps DEF Calls
<1>6. CASE Calls("ibv_close_device", CloseDevice)
  BY <1>6, CloseDeviceKeeps DEF Calls
<1> QED
  BY <1>1, <1>2, <1>3, <1>4, <1>5, <1>6 DEF DeviceCalls

(* Calls on PDs, MRs and AHs keep it.                                         *)
LEMMA ProtectionCallsKeep ==
  ASSUME ControlInv, ProtectionCalls PROVE ControlInv'
<1>1. ASSUME NEW p \in Pds, NEW f, Calls("ibv_alloc_pd", AllocPd(p, f))
      PROVE  ControlInv'
  BY <1>1, AllocPdKeeps DEF Calls
<1>2. ASSUME NEW p \in Pds, NEW f, Calls("ibv_dealloc_pd", DeallocPd(p, f))
      PROVE  ControlInv'
  BY <1>2, DeallocPdKeeps DEF Calls
<1>3. ASSUME NEW e, NEW m \in Mrs, NEW p \in Pds, NEW f, Calls(e, RegMr(m, p, f))
      PROVE  ControlInv'
  BY <1>3, RegMrKeeps DEF Calls
<1>4. ASSUME NEW m \in Mrs, NEW f, Calls("ibv_dereg_mr", DeregMr(m, f))
      PROVE  ControlInv'
  BY <1>4, DeregMrKeeps DEF Calls
<1>5. ASSUME NEW a \in Ahs, NEW p \in Pds, NEW f,
             Calls("ibv_create_ah", CreateAh(a, p, f))
      PROVE  ControlInv'
  BY <1>5, CreateAhKeeps DEF Calls
<1>6. ASSUME NEW a \in Ahs, NEW f, Calls("ibv_destroy_ah", DestroyAh(a, f))
      PROVE  ControlInv'
  BY <1>6, DestroyAhKeeps DEF Calls
<1> QED
  BY <1>1, <1>2, <1>3, <1>4, <1>5, <1>6 DEF ProtectionCalls

(* Calls on CQs and QPs keep it.                                              *)
LEMMA QueueCallsKeep ==
  ASSUME ControlInv, QueueCalls PROVE ControlInv'
<1>1. ASSUME NEW e, NEW c \in Cqs, NEW n, NEW f, Calls(e, CreateCq(c, n, f))
      PROVE  ControlInv'
  BY <1>1, CreateCqKeeps DEF Calls
<1>2. ASSUME NEW c \in Cqs, NEW f, Calls("ibv_destroy_cq", DestroyCq(c, f))
      PROVE  ControlInv'
  BY <1>2, DestroyCqKeeps DEF Calls
<1>3. ASSUME NEW q \in Qps, NEW r \in Requests, NEW f, NEW destroyed,
             Calls(r.call, CreateQp(q, r, f, destroyed))
      PROVE  ControlInv'
  BY <1>3, CreateQpKeeps DEF Calls
<1>4. ASSUME NEW q \in Qps, NEW state, NEW f,
             Calls("ibv_modify_qp", ModifyQp(q, state, f))
      PROVE  ControlInv'
  BY <1>4, ModifyQpKeeps DEF Calls
<1>5. ASSUME NEW q \in Qps, NEW f, Calls("ibv_destroy_qp", DestroyQp(q, f))
      PROVE  ControlInv'
  BY <1>5, DestroyQpKeeps DEF Calls
<1>6. ASSUME NEW e, NEW o, Calls(e, RetryDestroy(o)) PROVE ControlInv'
  BY <1>6, Broken DEF Calls, RetryDestroy
<1> QED
  BY <1>1, <1>2, <1>3, <1>4, <1>5, <1>6 DEF QueueCalls

(* Every step keeps it.                                                       *)
LEMMA StepsKeepControl ==
  ASSUME ControlInv, [Next]_vars PROVE ControlInv'
<1>1. CASE LoadLib \/ FreeLib
  BY <1>1, NothingDone DEF LoadLib, FreeLib
<1>2. CASE CallDummy \/ Ended \/ UNCHANGED vars
  <2>1. UNCHANGED controlVars
    BY <1>2 DEF CallDummy, Ended, vars
  <2> QED
    BY <2>1, NothingDone
<1>3. CASE CallNowhere
  BY <1>3, Broken DEF CallNowhere
<1> QED
  BY <1>1, <1>2, <1>3, DeviceCallsKeep, ProtectionCallsKeep, QueueCallsKeep DEF Next

(* The invariant holds of every behaviour: for any device, any requests and   *)
(* any number of objects, with any call failing at any step.                  *)
THEOREM ControlKept == Spec => []ControlInv
  BY StartsInControl, StepsKeepControl, PTL DEF Spec

----------------------------------------------------------------------------
(* What the runs check.                                                       *)
THEOREM ObjectsWork == Spec => []HeldObjectsWork
<1>1. ASSUME ControlInv PROVE HeldObjectsWork
  <2>1. BlocksFit /\ ContextFits /\ NamesFit /\ DriverFits /\ LookupsMatchQps
    BY <1>1 DEF ControlInv, ObjectsInv, LookupsFit
  <2>2. ASSUME NEW o \in held
        PROVE  /\ context = "open" /\ Exists("device")
               /\ Part("context", ContextParts) \subseteq blocks
               /\ Part(o, Parts(o)) \subseteq blocks
               /\ o \in Mrs \cup Ahs \cup Qps => fields[o].pd \in held
               /\ o \in Qps => {fields[o].scq, fields[o].rcq} \subseteq held
               /\ Counterpart(o) \in driver \ refused
               /\ \A other \in held \ {o} : Counterpart(other) # Counterpart(o)
    <3>1. /\ context = "open" /\ Exists("device")
          /\ Part("context", ContextParts) \subseteq blocks
      BY <2>1 DEF ContextFits
    <3>2. Part(o, Parts(o)) \subseteq blocks
      <4>1. o \in Objects /\ Parts(o) \subseteq PartNames
        BY <2>1, PartsByKind DEF BlocksFit, PartTable
      <4> QED
        BY <2>1, <4>1 DEF BlocksFit, HasPart, Part
    <3>3. NamesHeld(o)
      BY <2>1 DEF NamesFit
    <3>4. /\ Counterpart(o) \in driver \ refused
          /\ \A other \in held \ {o} : Counterpart(other) # Counterpart(o)
      BY <2>1 DEF DriverFits
    <3> QED
      BY <3>1, <3>2, <3>3, <3>4 DEF NamesHeld
  <2> QED
    BY <2>1, <2>2 DEF HeldObjectsWork
<1> QED
  BY <1>1, ControlKept, PTL

(* No memory, lock or object of the driver is forgotten by a call that        *)
(* failed, but for what a failed destroy call leaves.                         *)
THEOREM NothingLost == Spec => []NothingForgotten
<1>1. ASSUME ControlInv PROVE NothingForgotten
  <2>1. BlocksFit /\ ContextFits /\ DriverFits
    BY <1>1 DEF ControlInv, ObjectsInv
  <2>2. ASSUME NEW b \in blocks, b[1] \in Objects
        PROVE  \/ \E o \in held : b \in Part(o, Parts(o))
               \/ b \in Structs(leftovers)
    <3>1. PICK o \in Objects, part \in PartNames : b = <<o, part>>
      BY <2>1, <2>2 DEF BlocksFit
    <3>2. HasPart(o, part)
      BY <2>1, <2>2, <3>1 DEF BlocksFit
    <3> QED
      BY <3>1, <3>2 DEF HasPart, Part, Structs
  <2>3. ASSUME NEW o \in held
        PROVE  Part(o, Parts(o)) \subseteq {b \in blocks : b[1] \in Objects}
    <3>1. o \in Objects /\ Parts(o) \subseteq PartNames
      BY <2>1, PartsByKind DEF BlocksFit, PartTable
    <3> QED
      BY <2>1, <3>1 DEF BlocksFit, HasPart, Part
  <2>4. Structs(leftovers) \subseteq {b \in blocks : b[1] \in Objects}
    BY <2>1, OutsideParts, KindsApart DEF BlocksFit, HasPart, Structs
  <2>5. context # "open" => blocks \subseteq
          Structs(leftovers) \cup {<<"list", "struct">>, <<"device", "struct">>,
                                   <<"context", "mutex">>}
    <3>1. SUFFICES ASSUME context # "open", NEW b \in blocks
                   PROVE  b \in Structs(leftovers) \cup Outer
      BY DEF Outer
    <3>2. held = {}
      BY <2>1, <3>1 DEF ContextFits
    <3>3. PICK o \in Objects \cup Outside, part \in PartNames : b = <<o, part>>
      BY <2>1 DEF BlocksFit
    <3>4. CASE o \in Objects
      BY <2>1, <3>2, <3>3, <3>4 DEF BlocksFit, HasPart, Structs
    <3>5. CASE o \in Outside
      BY <2>1, <3>1, <3>3, <3>5 DEF ContextFits
    <3> QED
      BY <3>4, <3>5
  <2>6. leftovers \subseteq Cqs \cup Qps /\ leftovers \cap held = {}
    BY <2>1 DEF BlocksFit
  <2> DEFINE mine == {b \in blocks : b[1] \in Objects}
             parts == UNION {Part(o, Parts(o)) : o \in held}
  <2>7. mine \subseteq parts \cup Structs(leftovers)
    <3>1. ASSUME NEW b \in mine PROVE b \in parts \cup Structs(leftovers)
      <4>1. CASE b \in Structs(leftovers)
        BY <4>1
      <4>2. CASE \E o \in held : b \in Part(o, Parts(o))
        <5>1. PICK o \in held : b \in Part(o, Parts(o))
          BY <4>2
        <5> QED
          BY <5>1
      <4> QED
        BY <2>2, <3>1, <4>1, <4>2
    <3> QED
      BY <3>1
  <2>8. parts \subseteq mine
    <3>1. ASSUME NEW b \in parts PROVE b \in mine
      <4>1. PICK o \in held : b \in Part(o, Parts(o))
        OBVIOUS
      <4> QED
        BY <2>3, <4>1
    <3> QED
      BY <3>1
  <2>9. mine = parts \cup Structs(leftovers)
    <3> HIDE DEF mine, parts
    <3>1. Structs(leftovers) \subseteq mine
      BY <2>4 DEF mine
    <3> QED
      BY <2>7, <2>8, <3>1
  <2>10. driver = {Counterpart(o) : o \in held} \cup refused
    BY <2>1 DEF DriverFits
  <2> QED
    BY <2>5, <2>6, <2>9, <2>10, ZenonT(30) DEF NothingForgotten
<1> QED
  BY <1>1, ControlKept, PTL

(* What the application was told goes on to hold while the context is open.   *)
(* The context keeps the size of the inline buffer in 16 bits, the device has *)
(* 32 for it: the answer is the device's when it fits.                        *)
THEOREM AnswersKept ==
  ASSUME Info.inline \in UInt16 PROVE Spec => []AnswersHold
<1>1. ASSUME ControlInv, context = "open"
      PROVE  LET adv == AdvAnswer(attrs, TRUE)
             IN  /\ adv.inline = Info.inline
                 /\ PortAnswer(cached).maxMsgSz = Info.mtu
                 /\ GidAnswer(cached) = Info.addr
                 /\ adv.limits = attrs.limits /\ adv.features = attrs.features
  <2>1. /\ cached \in {Info, CutVersion(Info)}
        /\ attrs \in {GetContext(Info), QueriedAttrs(Info)}
    BY <1>1 DEF ControlInv, AnswersFit
  <2>2. cached.mtu = Info.mtu /\ cached.addr = Info.addr
    <3>1. CutVersion(Info).mtu = Info.mtu /\ CutVersion(Info).addr = Info.addr
      BY AttributesAssumption DEF CutVersion, DeviceInfo
    <3> QED
      BY <2>1, <3>1
  <2>3. attrs.inline = Info.inline % U16
    BY <2>1 DEF GetContext, QueriedAttrs, NoAttrs
  <2>4. Info.inline % U16 = Info.inline
    BY Widths DEF UInt16
  <2> QED
    BY <2>2, <2>3, <2>4 DEF AdvAnswer, PortAnswer, GidAnswer
<1>2. ASSUME ControlInv, context = "open", told # None
      PROVE  /\ told = DeviceAnswer(cached) /\ told.hwVer.high = Info.version.high
             /\ attrs.limits = LimitsIn(Info) /\ attrs.features = Info.features
             /\ \A r \in Requests :
                  WithinAnswer(r.cap, told) => CheckQpLimits(r.cap, attrs.limits)
  <2>1. /\ cached = CutVersion(Info) /\ attrs = QueriedAttrs(Info)
        /\ told = DeviceAnswer(Info)
    BY <1>2 DEF ControlInv, AnswersFit
  <2>2. told = DeviceAnswer(cached)
    BY <2>1, CutOnce
  <2>3. told.hwVer.high = Info.version.high
    BY <2>1, AttributesAssumption
    DEF DeviceAnswer, DeviceAttr, CutVersion, DeviceInfo
  <2>4. attrs.limits = LimitsIn(Info) /\ attrs.features = Info.features
    BY <2>1 DEF QueriedAttrs
  <2>5. /\ told.maxQpWr = Lesser(Info.sendWr, Info.recvWr)
        /\ told.maxSge = Lesser(Info.sendSge, Info.recvSge)
    BY <2>1, AttributesAssumption
    DEF DeviceAnswer, DeviceAttr, CutVersion, DeviceInfo
  <2>6. ASSUME NEW r \in Requests, WithinAnswer(r.cap, told)
        PROVE  CheckQpLimits(r.cap, LimitsIn(Info))
    <3>1. r.cap \in QpCap
      BY RequestNames
    <3>2. /\ r.cap.sendWr \in Int /\ r.cap.recvWr \in Int
          /\ r.cap.sendSge \in Int /\ r.cap.recvSge \in Int
      BY <3>1 DEF QpCap, UInt32
    <3> QED
      BY <2>5, <2>6, <3>2, DeviceHasNaturals
      DEF WithinAnswer, CheckQpLimits, LimitsIn, Lesser
  <2> QED
    BY <2>2, <2>3, <2>4, <2>6
<1>3. ASSUME ControlInv
      PROVE  /\ \A a \in held \cap Ahs : Named("ah", AhAnswer(a)) = NamedAh(a)
             /\ \A q \in held \cap Qps :
                  /\ attrs.limits = LimitsIn(Info)
                  /\ CheckQpLimits(fields[q].asked, LimitsIn(Info))
  <2>1. ASSUME NEW a \in held \cap Ahs
        PROVE  Named("ah", AhAnswer(a)) = NamedAh(a)
    <3>1. AhAnswer(a) = fields[a].handle
      BY <1>3 DEF AhAnswer, KeepsWord, ControlInv, AnswersFit
    <3>2. Counterpart(a).kind = "ah" /\ Counterpart(a).num = fields[a].handle
      BY Counterparts DEF CounterpartTable
    <3>3. Named("ah", fields[a].handle) = {Counterpart(a)}
      BY <1>3, <3>2, NamedIs
    <3> QED
      BY <1>3, <3>1, <3>3, NamedOfKind
  <2>2. \A q \in held \cap Qps : /\ attrs.limits = LimitsIn(Info)
                               /\ CheckQpLimits(fields[q].asked, LimitsIn(Info))
    BY <1>3 DEF KeepsWord, ControlInv, AnswersFit, QueriedAttrs
  <2> QED
    BY <2>1, <2>2
<1>4. ASSUME ControlInv PROVE AnswersHold
  BY <1>1, <1>2, <1>3, <1>4 DEF AnswersHold
<1> QED
  BY <1>4, ControlKept, PTL

----------------------------------------------------------------------------
(* The sizes of the queues. A multiple leaves nothing,                        *)
LEMMA MultipleOf ==
  ASSUME NEW c \in Nat, NEW u \in Nat \ {0}
  PROVE  (c * u) % u = 0
<1>1. \A x \in Nat : x % u \in 0 .. u - 1 /\ x = u * (x \div u) + (x % u) /\ x \div u \in Nat
  OBVIOUS
<1>2. c * u \in Nat
  OBVIOUS
<1> DEFINE d == (c * u) \div u
           m == (c * u) % u
<1>3. m \in 0 .. u - 1 /\ c * u = u * d + m /\ d \in Nat
  BY <1>1, <1>2
<1> HIDE DEF d, m
<1>4. m = u * (c - d)
  BY <1>3
<1>5. c - d \in Int /\ (c - d = 0 \/ c - d >= 1 \/ c - d <= -1)
  BY <1>3
<1>6. ASSUME NEW k \in Int, k >= 1 PROVE u * k >= u
  BY <1>6
<1>7. ASSUME NEW k \in Int, k <= -1 PROVE u * k <= -u
  BY <1>7
<1>8. c - d = 0
  BY <1>3, <1>4, <1>5, <1>6, <1>7
<1>9. m = 0
  BY <1>3, <1>4, <1>8
<1> QED
  BY <1>9 DEF m

(* and of a power of two 16 bits leave all or nothing.                        *)
LEMMA SmallPowers ==
  /\ U16 >= 4 /\ U16 = 2 * (U16 \div 2) /\ U16 \div 2 \in PowersOfTwo
  /\ \A n \in 0 .. U16 - 1 : n % U16 = n
  /\ \A p \in PowersOfTwo : p >= U16 => p % U16 = 0
  /\ 2 \in PowersOfTwo
<1>1. /\ W16 - 1 \in 0 .. W32 - 1 /\ W16 - 1 \in 0 .. W32 /\ (W16 - 1) + 1 = W16
      /\ W16 \in 0 .. W32
      /\ 0 \in 0 .. W32 - 1 /\ 1 \in 0 .. W32 - 1 /\ 1 \in 0 .. W32 /\ 0 + 1 = 1
      /\ W16 \in 2 .. W32 /\ 1 + 1 = 2
  BY SizingAssumption
<1>2. 2 ^ 1 = 2 /\ 2 \in PowersOfTwo
  <2>1. 2 ^ (0 + 1) = 2 * 2 ^ 0 /\ 2 ^ 0 = 1
    BY <1>1, SizingAssumption
  <2>2. 2 ^ 1 = 2
    BY <1>1, <2>1
  <2> QED
    BY <1>1, <2>2 DEF PowersOfTwo
<1>3. U16 = 2 * 2 ^ (W16 - 1)
  <2>1. 2 ^ ((W16 - 1) + 1) = 2 * 2 ^ (W16 - 1)
    BY <1>1, SizingAssumption
  <2> QED
    BY <1>1, <2>1 DEF U16
<1>4. 2 ^ (W16 - 1) \in Nat /\ 2 ^ (W16 - 1) \in PowersOfTwo
  BY <1>1, PowersPositive DEF PowersOfTwo
<1>5. U16 \div 2 = 2 ^ (W16 - 1)
  <2>1. \A h \in Nat : (2 * h) \div 2 = h
    OBVIOUS
  <2> QED
    BY <1>3, <1>4, <2>1
<1>6. U16 >= 4
  <2>1. W16 \in 1 + 1 .. W32
    BY <1>1
  <2>2. 2 * 2 ^ 1 <= 2 ^ W16
    BY <1>1, <2>1, PowersGrow
  <2> QED
    BY <1>2, <2>2 DEF U16
<1>7. ASSUME NEW p \in PowersOfTwo, p >= U16 PROVE p % U16 = 0
  <2>1. PICK c \in Nat : p = c * U16
    BY <1>7, PowersApart, WordsPositive
  <2> QED
    BY <2>1, MultipleOf, WordsPositive
<1>8. \A n \in 0 .. U16 - 1 : n % U16 = n
  BY WordsPositive
<1> QED
  BY <1>2, <1>3, <1>5, <1>4, <1>6, <1>7, <1>8

(* Rounding, seen from the 16 bits of a ring.                                 *)
LEMMA Rounded ==
  ASSUME NEW n \in Nat, LoopEnds(n)
  PROVE  /\ RoundupPowOfTwo(n) \in PowersOfTwo /\ RoundupPowOfTwo(n) \in Nat \ {0}
         /\ n <= RoundupPowOfTwo(n)
         /\ n <= U16 => RoundupPowOfTwo(n) <= U16
         /\ n <= U16 \div 2 => RoundupPowOfTwo(n) < U16
<1>1. RoundupPowOfTwo(n) \in PowersOfTwo /\ n <= RoundupPowOfTwo(n)
  BY RoundedUp
<1>2. RoundupPowOfTwo(n) \in Nat \ {0} /\ LeastPower(n) \in Nat
  BY <1>1, RoundedUp, PowersApart
<1>3. U16 \in PowersOfTwo /\ U16 \in Nat /\ U16 >= 4 /\ U16 \div 2 \in PowersOfTwo
      /\ U16 = 2 * (U16 \div 2) /\ U16 \div 2 \in Nat \ {0}
  BY WordsPositive, SmallPowers, PowersApart
<1>4. ASSUME n <= U16 PROVE RoundupPowOfTwo(n) <= U16
  BY <1>2, <1>3, <1>4, RoundedUp DEF RoundupPowOfTwo
<1>5. ASSUME n <= U16 \div 2 PROVE RoundupPowOfTwo(n) < U16
  <2>1. LeastPower(n) <= U16 \div 2
    BY <1>3, <1>5, RoundedUp
  <2> QED
    BY <1>2, <1>3, <2>1 DEF RoundupPowOfTwo
<1> QED
  BY <1>1, <1>2, <1>4, <1>5

----------------------------------------------------------------------------
(* The rings. A device whose numbers of requests and of receive buffers fit   *)
(* the widths they are computed in.                                           *)
LimitsFit == Info.sendWr <= U16 /\ Info.recvSge * Info.recvWr < U32

(* What a QP can ask for.                                                     *)
LEMMA CapHasNaturals ==
  ASSUME NEW cap \in QpCap
  PROVE  /\ cap.sendWr \in Nat /\ cap.recvWr \in Nat
         /\ cap.sendSge \in Nat /\ cap.recvSge \in Nat
         /\ cap.sendSge \in UInt32 /\ cap.recvSge \in UInt32 /\ cap.inline \in UInt32
         /\ cap.inline \in Nat
         /\ SqWants(cap, 0) = cap.sendWr /\ RqWants(cap) \in 0 .. U32 - 1
         /\ cap.recvSge * cap.recvWr \in Nat
<1>1. UInt32 \subseteq Nat
  BY WordsPositive DEF UInt32
<1>2. /\ cap.sendWr \in UInt32 /\ cap.recvWr \in UInt32
      /\ cap.sendSge \in UInt32 /\ cap.recvSge \in UInt32 /\ cap.inline \in UInt32
  BY DEF QpCap
<1>3. cap.recvSge * cap.recvWr \in Nat
  <2>1. \A x, y \in Nat : x * y \in Nat
    OBVIOUS
  <2> QED
    BY <1>1, <1>2, <2>1
<1>4. RqWants(cap) \in 0 .. U32 - 1
  <2>1. \A x \in Nat : x % U32 \in 0 .. U32 - 1
    BY WordsPositive
  <2> QED
    BY <1>3, <2>1 DEF RqWants
<1>5. SqWants(cap, 0) = cap.sendWr
  <2>1. cap.sendWr \in Nat
    BY <1>1, <1>2
  <2>2. ~(cap.sendWr < 0)
    BY <2>1
  <2> QED
    BY <2>2 DEF SqWants
<1> QED
  BY <1>1, <1>2, <1>3, <1>4, <1>5

(* The send queue fits its ring.                                              *)
LEMMA SendQueueFits ==
  ASSUME NEW cap \in QpCap, cap.sendWr <= U16, LoopEnds(cap.sendWr)
  PROVE  LET s == SetupQp(cap, 0)
         IN  /\ s.sqCnt <= RingEntries(s.sqMask) /\ IsPower(RingEntries(s.sqMask))
             /\ s.sqCnt >= cap.sendWr
<1> DEFINE p == RoundupPowOfTwo(cap.sendWr)
<1>1. /\ p \in PowersOfTwo /\ p \in Nat \ {0} /\ cap.sendWr <= p /\ p <= U16
      /\ cap.sendWr \in Nat
  BY CapHasNaturals, Rounded
<1>2. SetupQp(cap, 0).sqCnt = p /\ SetupQp(cap, 0).sqMask = (p - 1) % U16
  BY CapHasNaturals DEF SetupQp
<1> HIDE DEF p
<1>3. (p - 1) % U16 = p - 1
  BY <1>1, SmallPowers, WordsPositive
<1>4. RingEntries(SetupQp(cap, 0).sqMask) = p
  BY <1>1, <1>2, <1>3 DEF RingEntries
<1> QED
  BY <1>1, <1>2, <1>4 DEF IsPower

(* Buffers of so many requests.                                               *)
LEMMA BuffersFit ==
  ASSUME NEW p \in Nat, NEW k \in Nat \ {0}
  PROVE  /\ p \div k \in Nat /\ (p \div k) * k <= p
         /\ \A n \in Nat : k * n <= p => n <= p \div k
<1>1. p \div k \in Nat /\ p = k * (p \div k) + (p % k) /\ p % k \in 0 .. k - 1
  OBVIOUS
<1> DEFINE d == p \div k
           m == p % k
<1>2. d \in Nat /\ m \in 0 .. k - 1 /\ p = k * d + m
  BY <1>1
<1> HIDE DEF d, m
<1>3. ASSUME NEW n \in Nat, k * n <= p PROVE n <= d
  <2>1. SUFFICES ASSUME n >= d + 1 PROVE FALSE
    BY <1>2
  <2>2. PICK e \in Nat : n = d + 1 + e
    <3>1. n - d - 1 \in Nat /\ n = d + 1 + (n - d - 1)
      BY <1>2, <2>1
    <3> QED
      BY <3>1
  <2>3. k * n = k * d + k + k * e /\ k * e >= 0
    BY <1>2, <2>2
  <2> QED
    BY <1>2, <1>3, <2>3
<1>4. d * k <= p
  BY <1>2
<1> QED
  BY <1>2, <1>3, <1>4 DEF d

(* The receive buffers fit their ring, and take what was asked unless 16 bits *)
(* leave nothing of their number.                                             *)
LEMMA RecvQueueFits ==
  ASSUME NEW cap \in QpCap, cap.recvSge # 0, LoopEnds(RqWants(cap)),
         cap.recvSge * cap.recvWr < U32
  PROVE  LET s == SetupQp(cap, 0)
         IN  /\ s.rqCnt * s.rqSge <= RingEntries(s.rqMask)
             /\ IsPower(RingEntries(s.rqMask))
             /\ \/ s.rqCnt >= cap.recvWr
                \/ s.rqCnt = 0 /\ cap.recvSge * cap.recvWr > U16 \div 2
<1> DEFINE n == cap.recvSge * cap.recvWr
           p == RoundupPowOfTwo(n)
           d == RqDescCnt(cap)
<1>1. cap.recvSge \in Nat \ {0} /\ cap.recvWr \in Nat /\ n \in Nat
  BY CapHasNaturals
<1>2. RqWants(cap) = n
  BY <1>1, WordsPositive DEF RqWants
<1>3. /\ p \in PowersOfTwo /\ p \in Nat \ {0} /\ n <= p
      /\ n <= U16 \div 2 => p < U16
  BY <1>1, <1>2, Rounded
<1>4. d = p % U16
  BY <1>2 DEF RqDescCnt
<1>5. /\ SetupQp(cap, 0).rqCnt = d \div cap.recvSge
      /\ SetupQp(cap, 0).rqSge = cap.recvSge
      /\ SetupQp(cap, 0).rqMask = (d - 1) % U16
  BY DEF SetupQp
<1>6. U16 \in Nat /\ U16 >= 4 /\ U16 \in PowersOfTwo /\ U16 \div 2 \in Nat
  BY WordsPositive, SmallPowers, PowersApart
<1> HIDE DEF p, d
<1>7. CASE p < U16
  <2>1. d = p /\ (p - 1) % U16 = p - 1
    BY <1>3, <1>4, <1>6, <1>7, SmallPowers
  <2>2. RingEntries(SetupQp(cap, 0).rqMask) = p
    BY <1>3, <1>5, <2>1 DEF RingEntries
  <2>3. /\ (p \div cap.recvSge) * cap.recvSge <= p
        /\ p \div cap.recvSge \in Nat /\ cap.recvWr <= p \div cap.recvSge
    BY <1>1, <1>3, BuffersFit
  <2> QED
    BY <1>1, <1>3, <1>5, <2>1, <2>2, <2>3 DEF IsPower
<1>8. CASE p >= U16
  <2>1. d = 0
    BY <1>3, <1>4, <1>8, SmallPowers
  <2>2. 0 \div cap.recvSge = 0 /\ (0 - 1) % U16 = U16 - 1
    <3>1. \A k \in Nat \ {0} : 0 \div k = 0
      OBVIOUS
    <3>2. \A u \in Nat \ {0} : (0 - 1) % u = u - 1
      OBVIOUS
    <3> QED
      BY <1>1, <1>6, <3>1, <3>2
  <2>3. RingEntries(SetupQp(cap, 0).rqMask) = U16
    BY <1>5, <1>6, <2>1, <2>2 DEF RingEntries
  <2>4. n > U16 \div 2
    BY <1>1, <1>3, <1>6, <1>8
  <2>5. SetupQp(cap, 0).rqCnt = 0 /\ SetupQp(cap, 0).rqCnt * SetupQp(cap, 0).rqSge = 0
    BY <1>1, <1>5, <2>1, <2>2
  <2> QED
    BY <1>6, <2>3, <2>4, <2>5 DEF IsPower
<1> QED
  BY <1>3, <1>6, <1>7, <1>8

----------------------------------------------------------------------------
(* Each QP keeps, from create_qp on, the sizes computed for a request that    *)
(* passed its tests, and the operations of that request.                      *)
QpOps == {"send", "send_imm"} \cup (Info.features \cap {"rdma_read"})

SizedFor(w, r) ==
  /\ w.asked = r.cap /\ w.size = SetupQp(r.cap, 0)
  /\ w.ops = WrOps(r) /\ w.ops \subseteq QpOps
  /\ \E batch \in {0, 1} : w.maxBatchWr = MaxBatchWr(batch, 0, w.size.sqCnt)
  /\ CheckQpLimits(r.cap, LimitsIn(Info)) /\ QpRounds(r.cap, 0) /\ Divides(r.cap)
SizesInv == \A q \in held \cap Qps : \E r \in Requests : SizedFor(fields[q], r)

(* A step that makes no QP and changes none.                                  *)
QpsStay == \A q \in held' \cap Qps : q \in held /\ fields'[q] = fields[q]

(* Such a step keeps the sizes.                                               *)
LEMMA SizesStay ==
  ASSUME SizesInv, QpsStay PROVE SizesInv'
  BY DEF SizesInv, QpsStay

(* The calls for other objects are such steps, as are those that fail, break  *)
(* or take an object.                                                         *)
LEMMA OthersLeaveQps ==
  ASSUME ControlInv
  PROVE  /\ \A o \in Pds \cup Mrs \cup Ahs \cup Cqs : \A d, contents, parts :
              Obtains(o, d, contents, parts) => QpsStay
         /\ \A o \in held : \A d, f : Releases(o, d, f) => QpsStay
         /\ \A o \in held : \A d, f : GivesUp(o, d, f) => QpsStay
         /\ \A call : Breaks(call) => QpsStay
         /\ Fails => QpsStay
<1>1. DOMAIN fields = Objects /\ held \subseteq Objects
  BY DEF ControlInv, ObjectsInv, NamesFit, BlocksFit
<1>2. ASSUME NEW o \in Pds \cup Mrs \cup Ahs \cup Cqs, NEW d, NEW contents, NEW parts,
             Obtains(o, d, contents, parts)
      PROVE  QpsStay
  BY <1>1, <1>2, KindsApart DEF Obtains, QpsStay
<1>3. ASSUME UNCHANGED <<fields, held>> PROVE QpsStay
  BY <1>3 DEF QpsStay
<1>4. ASSUME NEW o \in held, held' = held \ {o}, fields' = [fields EXCEPT ![o] = None]
      PROVE  QpsStay
  BY <1>1, <1>4 DEF QpsStay
<1>5. ASSUME Fails PROVE QpsStay
  BY <1>3, <1>5 DEF Fails, controlVars, objectVars
<1>6. ASSUME NEW call, Breaks(call) PROVE QpsStay
  BY <1>3, <1>6 DEF Breaks, objectVars
<1>7. ASSUME NEW o \in held, NEW d, NEW f, Releases(o, d, f) PROVE QpsStay
  BY <1>4, <1>5, <1>7 DEF Releases
<1>8. ASSUME NEW o \in held, NEW d, NEW f, GivesUp(o, d, f) PROVE QpsStay
  <2>1. CASE f = "none"
    BY <1>4, <1>8, <2>1 DEF GivesUp
  <2>2. CASE f # "none"
    BY <1>8, <2>2 DEF GivesUp, QpsStay
  <2> QED
    BY <2>1, <2>2
<1> QED
  BY <1>2, <1>5, <1>6, <1>7, <1>8

(* create_qp sizes the QP it makes for its request.                           *)
LEMMA CreateQpSizes ==
  ASSUME ControlInv, SizesInv, NEW q \in Qps, NEW r \in Requests, NEW f, NEW destroyed,
         CreateQp(q, r, f, destroyed)
  PROVE  SizesInv'
<1> DEFINE size == SetupQp(r.cap, 0)
           h == NewNum("qp")
<1>1. CASE QpsStay
  BY <1>1, SizesStay
<1>2. CASE Fails \/ \E call : Breaks(call)
  BY <1>1, <1>2, OthersLeaveQps
<1>3. CASE CreateQpUndo(q, DriverQp(h, r, size), size, f, destroyed)
  <2>1. held' = held /\ fields' = fields
    BY <1>3 DEF CreateQpUndo
  <2> QED
    BY <1>1, <2>1 DEF QpsStay
<1>4. CASE /\ CreateQpDone(q, h, r, size)
           /\ QpAccepted(r) /\ QpRounds(r.cap, 0) /\ Divides(r.cap)
  <2>1. /\ held' = held \cup {q} /\ fields'[q] = QpFields(h, r, size)
        /\ \A y \in Objects : y # q => fields'[y] = fields[y]
    BY <1>4, KindsApart DEF CreateQpDone, Obtains, ControlInv, ObjectsInv, NamesFit
  <2>2. attrs \in {GetContext(Info), QueriedAttrs(Info)}
    BY DEF CreateQp, Given, ControlInv, AnswersFit
  <2>3. attrs.maxTxBatch \in {0, 1} /\ attrs.features \subseteq Info.features
    BY <2>2 DEF GetContext, QueriedAttrs, NoAttrs
  <2>4. CheckQpLimits(r.cap, LimitsIn(Info))
    BY <1>4, <2>2, RequestNames, LimitsOfDevice DEF QpAccepted
  <2>5. WrOps(r) \subseteq QpOps
    <3>1. CheckQpAttr(r, "rdma_read" \in attrs.features)
      BY <1>4 DEF QpAccepted
    <3>2. SupportedOps(r, "rdma_read" \in attrs.features) \subseteq QpOps
      <4>1. CASE r.type = "UD"
        BY <4>1 DEF SupportedOps, QpOps
      <4>2. CASE r.type = "DRIVER"
        BY <2>3, <4>2 DEF SupportedOps, QpOps
      <4>3. CASE r.type # "UD" /\ r.type # "DRIVER"
        BY <4>3 DEF SupportedOps
      <4> QED
        BY <4>1, <4>2, <4>3
    <3> QED
      BY <3>1, <3>2 DEF CheckQpAttr, WrOps
  <2> HIDE DEF h, size
  <2>6. /\ fields'[q].asked = r.cap /\ fields'[q].size = size
        /\ fields'[q].ops = WrOps(r)
        /\ fields'[q].maxBatchWr = MaxBatchWr(attrs.maxTxBatch, 0, size.sqCnt)
    BY <2>1 DEF QpFields
  <2>7. SizedFor(fields'[q], r)
    BY <1>4, <2>3, <2>4, <2>5, <2>6 DEF SizedFor, size
  <2>8. ASSUME NEW x \in held' \cap Qps PROVE \E y \in Requests : SizedFor(fields'[x], y)
    <3>1. CASE x = q
      BY <2>7, <3>1
    <3>2. CASE x # q
      BY <2>1, <3>2, KindsApart DEF SizesInv
    <3> QED
      BY <3>1, <3>2
  <2> QED
    BY <2>8 DEF SizesInv
<1> QED
  BY <1>2, <1>3, <1>4 DEF CreateQp

(* ibv_modify_qp changes the state only.                                      *)
LEMMA ModifyQpSizes ==
  ASSUME ControlInv, SizesInv, NEW q \in Qps, NEW state, NEW f, ModifyQp(q, state, f)
  PROVE  SizesInv'
<1>1. q \in held /\ held' = held /\ ModifyState(q, state, f)
  BY DEF ModifyQp, Given
<1>2. CASE f # "none"
  BY <1>1, <1>2, SizesStay DEF ModifyState, QpsStay
<1>3. CASE f = "none"
  <2>1. fields' = [fields EXCEPT ![q].state = state]
    BY <1>1, <1>3 DEF ModifyState
  <2>2. DOMAIN fields = Objects /\ q \in Objects /\ DOMAIN fields[q] = QpFieldNames
    BY <1>1, KindsApart DEF ControlInv, ObjectsInv, NamesFit, NamesHeld
  <2>3. /\ fields'[q] = [fields[q] EXCEPT !.state = state]
        /\ \A y \in Objects : y # q => fields'[y] = fields[y]
    BY <2>1, <2>2
  <2>4. /\ fields'[q].asked = fields[q].asked /\ fields'[q].size = fields[q].size
        /\ fields'[q].ops = fields[q].ops
        /\ fields'[q].maxBatchWr = fields[q].maxBatchWr
    BY <2>2, <2>3 DEF QpFieldNames
  <2>5. ASSUME NEW x \in held' \cap Qps PROVE \E r \in Requests : SizedFor(fields'[x], r)
    <3>1. PICK r \in Requests : SizedFor(fields[x], r)
      BY <1>1 DEF SizesInv
    <3>2. CASE x = q
      BY <2>4, <3>1, <3>2 DEF SizedFor
    <3>3. CASE x # q
      BY <2>3, <3>1, <3>3, KindsApart
    <3> QED
      BY <3>2, <3>3
  <2> QED
    BY <2>5 DEF SizesInv
<1> QED
  BY <1>2, <1>3

(* Every step keeps the sizes.                                                *)
LEMMA StepsKeepSizes ==
  ASSUME ControlInv, SizesInv, [Next]_vars PROVE SizesInv'
<1>1. CASE LoadLib \/ FreeLib \/ CallDummy \/ Ended \/ UNCHANGED vars
  <2>1. UNCHANGED controlVars
    BY <1>1 DEF LoadLib, FreeLib, CallDummy, Ended, vars
  <2> QED
    BY <2>1, SizesStay DEF controlVars, objectVars, QpsStay
<1>2. CASE CallNowhere
  BY <1>2, OthersLeaveQps, SizesStay DEF CallNowhere
<1>3. CASE DeviceCalls
  <2>1. ASSUME NEW e, Calls(e, UseNullMember) PROVE SizesInv'
    BY <2>1, OthersLeaveQps, SizesStay DEF Calls, UseNullMember
  <2>2. CASE UNCHANGED <<fields, held>>
    BY <2>2, SizesStay DEF QpsStay
  <2> QED
    BY <1>3, <2>1, <2>2 DEF DeviceCalls, Calls, GetDeviceList, FreeDeviceList, OpenDevice,
       QueryDevice, CloseDevice, objectVars
<1>4. CASE ProtectionCalls
  <2>1. ASSUME NEW p \in Pds, NEW f, AllocPd(p, f) PROVE QpsStay
    BY <2>1, OthersLeaveQps DEF AllocPd
  <2>2. ASSUME NEW p \in Pds, NEW f, DeallocPd(p, f) PROVE QpsStay
    BY <2>2, OthersLeaveQps DEF DeallocPd, Reads, Given
  <2>3. ASSUME NEW m \in Mrs, NEW p \in Pds, NEW f, RegMr(m, p, f) PROVE QpsStay
    BY <2>3, OthersLeaveQps DEF RegMr
  <2>4. ASSUME NEW m \in Mrs, NEW f, DeregMr(m, f) PROVE QpsStay
    BY <2>4, OthersLeaveQps DEF DeregMr, Reads, Given
  <2>5. ASSUME NEW a \in Ahs, NEW p \in Pds, NEW f, CreateAh(a, p, f) PROVE QpsStay
    BY <2>5, OthersLeaveQps DEF CreateAh
  <2>6. ASSUME NEW a \in Ahs, NEW f, DestroyAh(a, f) PROVE QpsStay
    BY <2>6, OthersLeaveQps DEF DestroyAh, Reads, Given
  <2> QED
    BY <1>4, <2>1, <2>2, <2>3, <2>4, <2>5, <2>6, SizesStay DEF ProtectionCalls, Calls
<1>5. CASE QueueCalls
  <2>1. ASSUME NEW c \in Cqs, NEW n, NEW f, CreateCq(c, n, f) PROVE QpsStay
    BY <2>1, OthersLeaveQps DEF CreateCq
  <2>2. ASSUME NEW c \in Cqs, NEW f, DestroyCq(c, f) PROVE QpsStay
    BY <2>2, OthersLeaveQps DEF DestroyCq, Given
  <2>3. ASSUME NEW q \in Qps, NEW f, DestroyQp(q, f) PROVE QpsStay
    BY <2>3, OthersLeaveQps DEF DestroyQp, Given
  <2>4. ASSUME NEW o, RetryDestroy(o) PROVE QpsStay
    BY <2>4, OthersLeaveQps DEF RetryDestroy
  <2> QED
    BY <1>5, <2>1, <2>2, <2>3, <2>4, SizesStay, CreateQpSizes, ModifyQpSizes
    DEF QueueCalls, Calls
<1> QED
  BY <1>1, <1>2, <1>3, <1>4, <1>5 DEF Next

(* Every QP is sized, from its creation to its end, for a request that passed *)
(* the tests of create_qp on a device as the driver described it, with those  *)
(* of the request's operations that the device has.                           *)
THEOREM SizesKept == Spec => []SizesInv
<1>1. EfawinInit => SizesInv
  BY DEF EfawinInit, Init, SizesInv
<1> QED
  BY <1>1, ControlKept, StepsKeepSizes, PTL DEF Spec

(* A batch has room for a request.                                            *)
LEMMA BatchNotEmpty ==
  ASSUME NEW batch \in {0, 1}, NEW n
  PROVE  MaxBatchWr(batch, 0, n) \in 1 .. U16 - 1
<1>1. U16 \in Nat /\ U16 >= 4
  BY WordsPositive, SmallPowers
<1>2. CASE batch = 0
  <2>1. MaxBatchWr(batch, 0, n) = U16 - 1
    BY <1>2 DEF MaxBatchWr
  <2> QED
    BY <1>1, <2>1
<1>3. CASE batch = 1
  <2>1. 1 * BatchBytes = BatchBytes
    BY SizingAssumption
  <2>2. BatchBytes \div WqeBytes \in 1 .. U16 - 1
    BY SizingAssumption
  <2>3. (BatchBytes \div WqeBytes) % U16 = BatchBytes \div WqeBytes
    BY <1>1, <2>2, SmallPowers
  <2>4. MaxBatchWr(batch, 0, n) = BatchBytes \div WqeBytes
    BY <1>3, <2>1, <2>3 DEF MaxBatchWr
  <2> QED
    BY <2>2, <2>4
<1> QED
  BY <1>2, <1>3

(* The queues of a QP fit the rings the driver was told of and take what was  *)
(* asked, for every request that passes the tests of create_qp, on a device   *)
(* whose limits fit the widths they are computed in.                          *)
THEOREM RingsRoomy ==
  ASSUME LimitsFit PROVE Spec => []RingsFit
<1>1. ASSUME SizesInv, NEW q \in held \cap Qps
      PROVE  LET s == fields[q].size  a == fields[q].asked
             IN  /\ s.sqCnt <= RingEntries(s.sqMask) /\ IsPower(RingEntries(s.sqMask))
                 /\ s.rqCnt * s.rqSge <= RingEntries(s.rqMask)
                 /\ IsPower(RingEntries(s.rqMask))
                 /\ s.sqCnt >= a.sendWr
                 /\ \/ s.rqCnt >= a.recvWr
                    \/ s.rqCnt = 0 /\ a.recvSge * a.recvWr > U16 \div 2
                 /\ fields[q].maxBatchWr >= 1
                 /\ fields[q].ops \subseteq QpOps
  <2>1. PICK r \in Requests : SizedFor(fields[q], r)
    BY <1>1 DEF SizesInv
  <2> DEFINE cap == r.cap
  <2>2. /\ cap \in QpCap /\ cap.sendWr \in Nat /\ cap.recvWr \in Nat /\ cap.recvSge \in Nat
        /\ SqWants(cap, 0) = cap.sendWr
    BY RequestNames, CapHasNaturals
  <2>3. /\ fields[q].asked = cap /\ fields[q].size = SetupQp(cap, 0)
        /\ fields[q].ops \subseteq QpOps
        /\ \E batch \in {0, 1} :
             fields[q].maxBatchWr = MaxBatchWr(batch, 0, fields[q].size.sqCnt)
        /\ CheckQpLimits(cap, LimitsIn(Info)) /\ QpRounds(cap, 0) /\ Divides(cap)
    BY <2>1 DEF SizedFor
  <2> HIDE DEF cap
  <2>4. /\ cap.sendWr <= Info.sendWr /\ cap.recvSge <= Info.recvSge
        /\ cap.recvWr <= Info.recvWr
    BY <2>3 DEF CheckQpLimits, LimitsIn
  <2>5. cap.sendWr <= U16 /\ cap.recvSge * cap.recvWr < U32
    <3>1. /\ Info.sendWr \in Nat /\ Info.recvSge \in Nat /\ Info.recvWr \in Nat
          /\ U16 \in Nat /\ U32 \in Nat
      BY DeviceHasNaturals, WordsPositive
    <3>2. ASSUME NEW a \in Nat, NEW b \in Nat, NEW x \in Nat, NEW y \in Nat,
                 a <= x, b <= y
          PROVE  a * b <= x * y
      <4>1. x - a \in Nat /\ y - b \in Nat
        BY <3>2
      <4>2. x * y = a * b + a * (y - b) + (x - a) * y
        OBVIOUS
      <4>3. \A u, v \in Nat : u * v \in Nat
        OBVIOUS
      <4>4. a * (y - b) \in Nat /\ (x - a) * y \in Nat /\ a * b \in Nat
        BY <4>1, <4>3
      <4> QED
        BY <4>2, <4>4
    <3>3. cap.recvSge * cap.recvWr <= Info.recvSge * Info.recvWr
      BY <2>2, <2>4, <3>1, <3>2
    <3>4. \A u, v \in Nat : u * v \in Nat
      OBVIOUS
    <3>5. cap.recvSge * cap.recvWr \in Nat /\ Info.recvSge * Info.recvWr \in Nat
      BY <2>2, <3>1, <3>4
    <3>6. Info.sendWr <= U16 /\ Info.recvSge * Info.recvWr < U32
      BY DEF LimitsFit
    <3>7. cap.sendWr <= U16
      BY <2>2, <2>4, <3>1, <3>6
    <3>8. cap.recvSge * cap.recvWr < U32
      BY <3>1, <3>3, <3>5, <3>6
    <3> QED
      BY <3>7, <3>8
  <2>6. LoopEnds(cap.sendWr) /\ LoopEnds(RqWants(cap)) /\ cap.recvSge # 0
    BY <2>2, <2>3 DEF QpRounds, Divides
  <2>7. fields[q].maxBatchWr >= 1
    <3>1. fields[q].maxBatchWr \in 1 .. U16 - 1
      BY <2>3, BatchNotEmpty
    <3> QED
      BY <3>1, WordsPositive
  <2>8. LET s == SetupQp(cap, 0)
        IN  /\ s.sqCnt <= RingEntries(s.sqMask) /\ IsPower(RingEntries(s.sqMask))
            /\ s.sqCnt >= cap.sendWr
    BY <2>2, <2>5, <2>6, SendQueueFits
  <2>9. LET s == SetupQp(cap, 0)
        IN  /\ s.rqCnt * s.rqSge <= RingEntries(s.rqMask)
            /\ IsPower(RingEntries(s.rqMask))
            /\ \/ s.rqCnt >= cap.recvWr
               \/ s.rqCnt = 0 /\ cap.recvSge * cap.recvWr > U16 \div 2
    BY <2>2, <2>5, <2>6, RecvQueueFits
  <2> QED
    BY <2>3, <2>7, <2>8, <2>9
<1>2. ASSUME SizesInv PROVE RingsFit
  BY <1>1, <1>2 DEF RingsFit, QpOps
<1> QED
  BY <1>2, SizesKept, PTL

----------------------------------------------------------------------------
(* The types of what the calls change. A CQ that is not held counts no QPs.   *)
Caches == {NoInfo, Info, CutVersion(Info)}

TypesInv ==
  /\ cached \in Caches /\ driver \subseteq DriverObjects
  /\ table \in [0 .. TableSize - 1 -> Qps \cup {None}]
  /\ refCnt \in [Cqs -> Int] /\ \A c \in Cqs \ held : refCnt[c] = 0

(* A step that leaves the lookups as they are.                                *)
LEMMA TypesStay ==
  ASSUME TypesInv, UNCHANGED lookupVars, cached' \in Caches,
         driver' \subseteq DriverObjects, \A c \in Cqs \ held' : refCnt[c] = 0
  PROVE  TypesInv'
<1>1. table' = table /\ refCnt' = refCnt /\ TableSize' = TableSize
  BY DEF lookupVars
<1>2. TypesInv' <=> /\ cached' \in Caches /\ driver' \subseteq DriverObjects
                    /\ table' \in [0 .. TableSize - 1 -> Qps \cup {None}]
                    /\ refCnt' \in [Cqs -> Int]
                    /\ \A c \in Cqs \ held' : refCnt'[c] = 0
  BY DEF TypesInv, Caches
<1> QED
  BY <1>1, <1>2 DEF TypesInv

(* A step that changes nothing, or breaks the process.                        *)
LEMMA TypesIdle ==
  ASSUME TypesInv PROVE /\ UNCHANGED controlVars => TypesInv'
                        /\ \A call : Breaks(call) => TypesInv'
<1>1. ASSUME UNCHANGED <<contextVars, objectVars, lookupVars>> PROVE TypesInv'
  BY <1>1, TypesStay DEF contextVars, objectVars, TypesInv
<1>2. UNCHANGED controlVars => TypesInv'
  BY <1>1 DEF controlVars
<1> QED
  BY <1>1, <1>2 DEF Breaks

(* The widths: what 16 bits hold 32 bits hold, and every power of two there.  *)
LEMMA NumsFit ==
  /\ Nums \subseteq UInt16 /\ UInt16 \subseteq UInt32 /\ U16 \in UInt32
  /\ PowersOfTwo \subseteq UInt32 /\ UInt16 \subseteq Nat
<1>1. U16 \in Nat \ {0} /\ U32 \in Nat /\ 2 * U16 <= U32
  BY WordsPositive
<1>2. UInt16 \subseteq UInt32 /\ U16 \in UInt32 /\ UInt16 \subseteq Nat
  BY <1>1 DEF UInt16, UInt32
<1>3. PowersOfTwo \subseteq UInt32
  BY <1>1, PowersApart DEF UInt32
<1> QED
  BY <1>2, <1>3, ControlAssumption

(* The handles of what is held.                                               *)
LEMMA HandlesFit ==
  ASSUME ControlInv, TypesInv
  PROVE  /\ \A p \in held \cap Pds : fields[p].handle \in UInt16
         /\ \A c \in held \cap Cqs : fields[c].handle \in UInt16
<1>1. ASSUME NEW o \in held PROVE Counterpart(o) \in DriverObjects
  BY DEF ControlInv, ObjectsInv, DriverFits, TypesInv
<1>2. ASSUME NEW p \in held \cap Pds PROVE fields[p].handle \in UInt16
  <2>1. Counterpart(p) \in DriverObjects /\ Counterpart(p).kind = "pd"
        /\ Counterpart(p).num = fields[p].handle
    BY <1>1, Counterparts DEF CounterpartTable
  <2>2. Counterpart(p) \in DriverPds
    BY <2>1 DEF DriverObjects, DriverMrs, DriverAhs, DriverCqs, DriverQps
  <2> QED
    BY <2>1, <2>2 DEF DriverPds
<1>3. ASSUME NEW c \in held \cap Cqs PROVE fields[c].handle \in UInt16
  <2>1. Counterpart(c) \in DriverObjects /\ Counterpart(c).kind = "cq"
        /\ Counterpart(c).num = fields[c].handle
    BY <1>1, Counterparts DEF CounterpartTable
  <2>2. Counterpart(c) \in DriverCqs
    BY <2>1 DEF DriverObjects, DriverMrs, DriverAhs, DriverPds, DriverQps
  <2> QED
    BY <2>1, <2>2 DEF DriverCqs
<1> QED
  BY <1>2, <1>3

(* A call that makes a PD, an MR or an AH, of the driver's type.              *)
LEMMA TypesMade ==
  ASSUME ControlInv, TypesInv, NEW o, NEW d \in DriverObjects, NEW contents, NEW parts,
         Obtains(o, d, contents, parts), UNCHANGED lookupVars
  PROVE  TypesInv'
<1>1. driver' = driver \cup {d} /\ held' = held \cup {o} /\ cached' = cached
  BY DEF Obtains, contextVars
<1> QED
  BY <1>1, TypesStay DEF TypesInv

(* A call that takes one of them.                                             *)
LEMMA TypesReleased ==
  ASSUME ControlInv, TypesInv, NEW o, o \notin Cqs, NEW d, NEW f, Releases(o, d, f)
  PROVE  TypesInv'
<1>1. CASE f = "none"
  <2>1. /\ driver' = driver \ d /\ held' = held \ {o} /\ cached' = cached
        /\ UNCHANGED lookupVars
    BY <1>1 DEF Releases, contextVars
  <2> QED
    BY <2>1, TypesStay DEF TypesInv
<1>2. CASE f # "none"
  BY <1>2, TypesIdle DEF Releases, Fails
<1> QED
  BY <1>1, <1>2

(* Calls on devices and contexts.                                             *)
LEMMA DeviceCallsTypes ==
  ASSUME ControlInv, TypesInv, DeviceCalls PROVE TypesInv'
<1>1. ASSUME NEW f, GetDeviceList(f) PROVE TypesInv'
  <2>1. /\ UNCHANGED lookupVars /\ held' = held /\ driver' = driver
        /\ cached' \in {cached, NoInfo}
    BY <1>1 DEF GetDeviceList
  <2> QED
    BY <2>1, TypesStay DEF TypesInv, Caches
<1>2. ASSUME FreeDeviceList PROVE TypesInv'
  <2>1. UNCHANGED lookupVars /\ held' = held /\ driver' = driver /\ cached' = cached
    BY <1>2 DEF FreeDeviceList, contextVars
  <2> QED
    BY <2>1, TypesStay DEF TypesInv
<1>3. ASSUME NEW f, OpenDevice(f) PROVE TypesInv'
  <2>1. /\ UNCHANGED lookupVars /\ held' = held /\ driver' = driver
        /\ cached' \in {cached, Info}
    BY <1>3 DEF OpenDevice, GetDeviceInfo
  <2> QED
    BY <2>1, TypesStay DEF TypesInv, Caches
<1>4. ASSUME UseNullMember PROVE TypesInv'
  BY <1>4, TypesIdle DEF UseNullMember
<1>5. ASSUME QueryDevice PROVE TypesInv'
  <2>1. /\ UNCHANGED lookupVars /\ held' = held /\ driver' = driver
        /\ cached' = CutVersion(cached) /\ context = "open"
    BY <1>5 DEF QueryDevice, objectVars
  <2>2. cached' = CutVersion(Info)
    BY <2>1, CutOnce DEF ControlInv, AnswersFit
  <2> QED
    BY <2>1, <2>2, TypesStay DEF TypesInv, Caches
<1>6. ASSUME CloseDevice PROVE TypesInv'
  <2>1. /\ driver' = {} /\ cached' = cached /\ refCnt' = refCnt /\ held' = held
        /\ table' = [s \in DOMAIN table |-> None]
    BY <1>6 DEF CloseDevice
  <2>2. table' \in [0 .. TableSize - 1 -> Qps \cup {None}]
    BY <2>1 DEF TypesInv
  <2> QED
    BY <2>1, <2>2 DEF TypesInv, Caches
<1> QED
  BY <1>1, <1>2, <1>3, <1>4, <1>5, <1>6 DEF DeviceCalls, Calls

(* Calls on PDs, MRs and AHs.                                                 *)
LEMMA ProtectionCallsTypes ==
  ASSUME ControlInv, TypesInv, ProtectionCalls PROVE TypesInv'
<1>1. ASSUME NEW p \in Pds, NEW f, AllocPd(p, f) PROVE TypesInv'
  <2>1. CASE f = "none" /\ HasNum("pd")
    <3> DEFINE n == NewNum("pd")
    <3>1. Obtains(p, DriverPd(n), PdFields(n), {"struct"}) /\ UNCHANGED lookupVars
      BY <1>1, <2>1 DEF AllocPd
    <3>2. n \in UInt16
      BY <2>1, NumIsNew, NumsFit
    <3> HIDE DEF n
    <3>3. DriverPd(n) \in DriverObjects
      BY <3>2 DEF DriverPd, DriverPds, DriverObjects
    <3> QED
      BY <3>1, <3>3, TypesMade
  <2>2. CASE ~(f = "none" /\ HasNum("pd"))
    BY <1>1, <2>2, TypesIdle DEF AllocPd, Fails
  <2> QED
    BY <2>1, <2>2
<1>2. ASSUME NEW m \in Mrs, NEW p \in Pds, NEW f, RegMr(m, p, f) PROVE TypesInv'
  <2>1. CASE f = "none" /\ HasNum("mr")
    <3> DEFINE n == NewNum("mr")
    <3>1. Obtains(m, DriverMr(p, n), MrFields(p, n), {"struct"}) /\ UNCHANGED lookupVars
      BY <1>2, <2>1 DEF RegMr
    <3>2. n \in UInt32 /\ fields[p].handle \in UInt16
      BY <1>2, <2>1, NumIsNew, NumsFit, HandlesFit DEF RegMr, Given
    <3> HIDE DEF n
    <3>3. DriverMr(p, n) \in DriverObjects
      BY <3>2 DEF DriverMr, DriverMrs, DriverObjects
    <3> QED
      BY <3>1, <3>3, TypesMade
  <2>2. CASE ~(f = "none" /\ HasNum("mr"))
    BY <1>2, <2>2, TypesIdle DEF RegMr, Fails
  <2> QED
    BY <2>1, <2>2
<1>3. ASSUME NEW a \in Ahs, NEW p \in Pds, NEW f, CreateAh(a, p, f) PROVE TypesInv'
  <2>1. CASE f = "none" /\ HasNum("ah")
    <3> DEFINE n == NewNum("ah")
    <3>1. Obtains(a, DriverAh(p, n), AhFields(p, n), {"struct"}) /\ UNCHANGED lookupVars
      BY <1>3, <2>1 DEF CreateAh
    <3>2. n \in UInt16 /\ fields[p].handle \in UInt16
      BY <1>3, <2>1, NumIsNew, NumsFit, HandlesFit DEF CreateAh, Given
    <3> HIDE DEF n
    <3>3. DriverAh(p, n) \in DriverObjects
      BY <3>2 DEF DriverAh, DriverAhs, DriverObjects
    <3> QED
      BY <3>1, <3>3, TypesMade
  <2>2. CASE ~(f = "none" /\ HasNum("ah"))
    BY <1>3, <2>2, TypesIdle DEF CreateAh, Fails
  <2> QED
    BY <2>1, <2>2
<1>4. ASSUME NEW p \in Pds, NEW f, DeallocPd(p, f) PROVE TypesInv'
  BY <1>4, TypesReleased, TypesIdle, KindsApart DEF DeallocPd, Reads
<1>5. ASSUME NEW m \in Mrs, NEW f, DeregMr(m, f) PROVE TypesInv'
  BY <1>5, TypesReleased, TypesIdle, KindsApart DEF DeregMr, Reads
<1>6. ASSUME NEW a \in Ahs, NEW f, DestroyAh(a, f) PROVE TypesInv'
  BY <1>6, TypesReleased, TypesIdle, KindsApart DEF DestroyAh, Reads
<1> QED
  BY <1>1, <1>2, <1>3, <1>4, <1>5, <1>6 DEF ProtectionCalls, Calls

(* The depth of a CQ that is made fits the 16 bits it is told in.             *)
LEMMA CqDepthFits ==
  ASSUME NEW cqe \in Nat, LoopEnds(cqe), CqDepthOk(cqe)
  PROVE  CqDepth(cqe) \in UInt16
<1> DEFINE p == RoundupPowOfTwo(cqe)
<1>1. p \in PowersOfTwo
  BY RoundedUp
<1> HIDE DEF p
<1>2. p \in Nat /\ LoopEnds(p)
  <2>1. p \in Nat /\ p < U32 /\ 2 ^ (W32 - 1) \in PowersOfTwo /\ 2 ^ (W32 - 1) \in Nat
        /\ U32 = 2 * 2 ^ (W32 - 1)
    BY <1>1, PowersApart, WordsPositive
  <2>2. 2 ^ (W32 - 1) < p => 2 * 2 ^ (W32 - 1) <= p
    BY <1>1, <2>1, PowersApart
  <2> QED
    BY <2>1, <2>2 DEF LoopEnds
<1>3. RoundupPowOfTwo(p) \in Nat
  BY <1>2, RoundedUp, PowersApart
<1>4. CqDepth(cqe) = RoundupPowOfTwo(p)
  BY DEF CqDepth, p
<1> QED
  BY <1>3, <1>4, WordsPositive DEF CqDepthOk, UInt16

(* ibv_create_cq and ibv_create_cq_ex.                                        *)
LEMMA CreateCqTypes ==
  ASSUME ControlInv, TypesInv, NEW c \in Cqs, NEW cqe \in Cqes, NEW f, CreateCq(c, cqe, f)
  PROVE  TypesInv'
<1>1. CASE ~(f # "calloc" /\ ~LoopEnds(cqe)) /\ f = "none" /\ CqDepthOk(cqe) /\ HasNum("cq")
  <2> DEFINE n == NewNum("cq")
  <2>1. /\ Obtains(c, DriverCq(n, cqe), CqFields(n, cqe), {"struct", "cond", "lock"})
        /\ refCnt' = [refCnt EXCEPT ![c] = 0] /\ table' = table
    BY <1>1 DEF CreateCq
  <2>2. n \in UInt16 /\ CqDepth(cqe) \in UInt16
    <3>1. cqe \in Nat
      BY ControlAssumption, WordsPositive DEF UInt32
    <3> QED
      BY <1>1, <3>1, NumIsNew, NumsFit, CqDepthFits
  <2> HIDE DEF n
  <2>3. DriverCq(n, cqe) \in DriverObjects
    BY <2>2 DEF DriverCq, DriverCqs, DriverObjects
  <2>4. /\ driver' = driver \cup {DriverCq(n, cqe)} /\ held' = held \cup {c}
        /\ cached' = cached
    BY <2>1 DEF Obtains, contextVars
  <2>5. refCnt' \in [Cqs -> Int] /\ \A k \in Cqs \ held' : refCnt'[k] = 0
    BY <2>1, <2>4 DEF TypesInv
  <2> QED
    BY <2>1, <2>3, <2>4, <2>5 DEF TypesInv, Caches
<1>2. CASE \E call : Breaks(call)
  BY <1>2, TypesIdle
<1> QED
  BY <1>1, <1>2 DEF CreateCq

(* ibv_destroy_cq: a CQ that no QP uses counts none.                          *)
LEMMA DestroyCqTypes ==
  ASSUME ControlInv, TypesInv, NEW c \in Cqs, NEW f, DestroyCq(c, f)
  PROVE  TypesInv'
<1>1. /\ c \in held /\ held' = held \ {c} /\ cached' = cached /\ driver' \subseteq driver
      /\ UNCHANGED lookupVars
      /\ ~\E q \in held \cap Qps : c \in {fields[q].scq, fields[q].rcq}
  BY DEF DestroyCq, Given, GivesUp, contextVars
<1>2. RefSet(c) = {}
  BY <1>1 DEF RefSet
<1>3. refCnt[c] = Cardinality(RefSet(c))
  BY <1>1, LookupParts DEF CountsMatch, ControlInv, ObjectsInv
<1>4. refCnt[c] = 0
  BY <1>2, <1>3, FS_EmptySet
<1> QED
  BY <1>1, <1>4, TypesStay DEF TypesInv

(* What create_qp tells the driver is of the widths of its interface.         *)
LEMMA DriverQpFits ==
  ASSUME ControlInv, TypesInv, NEW r \in Requests, NEW h \in Nums,
         r.pd \in held, r.scq \in held, r.rcq \in held,
         QpRounds(r.cap, 0), Divides(r.cap)
  PROVE  DriverQp(h, r, SetupQp(r.cap, 0)) \in DriverObjects
<1> DEFINE cap == r.cap
           size == SetupQp(cap, 0)
<1>1. /\ cap \in QpCap /\ cap.recvSge \in Nat \ {0} /\ cap.sendWr \in Nat
      /\ SqWants(cap, 0) = cap.sendWr /\ RqWants(cap) \in Nat
      /\ LoopEnds(cap.sendWr) /\ LoopEnds(RqWants(cap))
  <2>1. cap \in QpCap
    BY RequestNames
  <2>2. RqWants(cap) \in 0 .. U32 - 1
    BY <2>1, CapHasNaturals
  <2> QED
    BY <2>1, <2>2, CapHasNaturals, WordsPositive DEF QpRounds, Divides
<1>2. /\ fields[r.pd].handle \in UInt16 /\ fields[r.scq].handle \in UInt32
      /\ fields[r.rcq].handle \in UInt32 /\ h \in UInt32
  BY RequestNames, HandlesFit, NumsFit
<1> HIDE DEF cap
<1>3. \A x \in Int : x % U16 \in 0 .. U16 - 1 /\ RingEntries(x % U16) \in UInt32
  <2>1. \A x \in Int : x % U16 \in 0 .. U16 - 1
    BY WordsPositive
  <2>2. \A x \in 0 .. U16 - 1 : x + 1 \in UInt32
    BY WordsPositive DEF UInt32
  <2> QED
    BY <2>1, <2>2 DEF RingEntries
<1>4. size.sqCnt \in UInt32 /\ RingEntries(size.sqMask) \in UInt32
  <2>1. RoundupPowOfTwo(cap.sendWr) \in UInt32 /\ RoundupPowOfTwo(cap.sendWr) \in Nat
    BY <1>1, Rounded, NumsFit
  <2> QED
    BY <1>1, <1>3, <2>1 DEF SetupQp
<1>5. size.rqCnt \in UInt32 /\ RingEntries(size.rqMask) \in UInt32
  <2>1. RqDescCnt(cap) \in 0 .. U16 - 1
    BY <1>1, <1>3, Rounded DEF RqDescCnt
  <2>2. RqDescCnt(cap) \div cap.recvSge \in 0 .. U16 - 1
    <3> DEFINE d == RqDescCnt(cap)
    <3>1. d \in Nat /\ d <= U16 - 1 /\ U16 \in Nat
      BY <2>1, WordsPositive
    <3> HIDE DEF d
    <3>2. PICK k \in Nat \ {0} : k = cap.recvSge
      BY <1>1
    <3>3. d \div k \in Nat /\ d \div k <= d
      <4>1. PICK x \in Nat : x = d \div k
        BY <3>1
      <4>2. x * k <= d
        BY <3>1, <4>1, BuffersFit
      <4>3. x <= x * k
        <5>1. k - 1 \in Nat /\ x * k = x + x * (k - 1)
          OBVIOUS
        <5>2. \A u, v \in Nat : u * v \in Nat
          OBVIOUS
        <5>3. x * (k - 1) \in Nat
          BY <5>1, <5>2
        <5> QED
          BY <5>1, <5>3
      <4>4. x * k \in Nat
        OBVIOUS
      <4> QED
        BY <3>1, <4>1, <4>2, <4>3, <4>4
    <3>4. d \div k \in 0 .. U16 - 1
      BY <3>1, <3>3
    <3> QED
      BY <3>2, <3>4 DEF d
  <2>3. size.rqCnt = RqDescCnt(cap) \div cap.recvSge
        /\ size.rqMask = (RqDescCnt(cap) - 1) % U16
    BY DEF SetupQp
  <2>4. RqDescCnt(cap) - 1 \in Int
    BY <2>1
  <2> QED
    BY <1>3, <2>2, <2>3, <2>4, NumsFit DEF UInt16
<1>6. WinQpType(r.type) \in {"EFA_WIN_QP_SRD", "EFA_WIN_QP_UD"}
  BY DEF WinQpType
<1> HIDE DEF size
<1>7. DriverQp(h, r, size) \in DriverQps
  BY <1>2, <1>4, <1>5, <1>6 DEF DriverQp, DriverQps, QpStateNames
<1> QED
  BY <1>7 DEF DriverObjects, size, cap

(* ibv_create_qp and efadv_create_qp_ex.                                      *)
LEMMA CreateQpTypes ==
  ASSUME ControlInv, TypesInv, NEW q \in Qps, NEW r \in Requests, NEW f, NEW destroyed,
         CreateQp(q, r, f, destroyed)
  PROVE  TypesInv'
<1> DEFINE size == SetupQp(r.cap, 0)
           h == NewNum("qp")
           d == DriverQp(h, r, size)
<1>1. CASE Fails \/ \E call : Breaks(call)
  BY <1>1, TypesIdle DEF Fails
<1>2. CASE /\ CreateQpUndo(q, d, size, f, destroyed) \/ CreateQpDone(q, h, r, size)
           /\ QpRounds(r.cap, 0) /\ Divides(r.cap) /\ HasNum("qp")
  <2>1. h \in Nums
    BY <1>2, NumIsNew
  <2>2. r.pd \in held /\ r.scq \in held /\ r.rcq \in held
    BY DEF CreateQp, Given
  <2>3. d \in DriverObjects
    <3> HIDE DEF h
    <3> QED
      BY <1>2, <2>1, <2>2, DriverQpFits
  <2>4. CASE CreateQpUndo(q, d, size, f, destroyed)
    <3> HIDE DEF d
    <3>1. /\ UNCHANGED lookupVars /\ held' = held /\ cached' = cached
          /\ driver' \subseteq driver \cup {d}
      BY <2>4 DEF CreateQpUndo, contextVars
    <3> QED
      BY <2>3, <3>1, TypesStay DEF TypesInv
  <2>5. CASE CreateQpDone(q, h, r, size)
    <3> DEFINE slot == QpNum(h) % TableSize
    <3>1. /\ driver' = driver \cup {d} /\ held' = held \cup {q} /\ cached' = cached
          /\ table' = [table EXCEPT ![slot] = q]
          /\ refCnt' = [c \in Cqs |-> refCnt[c] + (IF r.scq = c THEN 1 ELSE 0)
                                                + (IF r.rcq = c THEN 1 ELSE 0)]
      BY <2>5 DEF CreateQpDone, Obtains, contextVars
    <3>2. slot \in 0 .. TableSize - 1
      BY <2>1, SlotsApart
    <3> HIDE DEF slot, d
    <3>3. table' \in [0 .. TableSize - 1 -> Qps \cup {None}]
      BY <3>1, <3>2 DEF TypesInv
    <3>4. refCnt' \in [Cqs -> Int]
      BY <3>1 DEF TypesInv
    <3>5. ASSUME NEW c \in Cqs \ held' PROVE refCnt'[c] = 0
      <4>1. c \notin held /\ c # r.scq /\ c # r.rcq
        BY <2>2, <3>1
      <4> QED
        BY <3>1, <4>1 DEF TypesInv
    <3> QED
      BY <2>3, <3>1, <3>3, <3>4, <3>5 DEF TypesInv, Caches
  <2> QED
    BY <1>2, <2>4, <2>5
<1> QED
  BY <1>1, <1>2 DEF CreateQp

(* ibv_modify_qp: what the driver has for a QP stays a QP.                    *)
LEMMA ModifyQpTypes ==
  ASSUME ControlInv, TypesInv, NEW q \in Qps, NEW state \in QpStates, NEW f,
         ModifyQp(q, state, f)
  PROVE  TypesInv'
<1>1. /\ UNCHANGED lookupVars /\ held' = held /\ cached' = cached
      /\ ModifyState(q, state, f)
  BY DEF ModifyQp, contextVars
<1>2. ASSUME NEW d \in NamedQp(q)
      PROVE  [d EXCEPT !.state = state] \in DriverObjects
  <2>1. d \in DriverObjects /\ d.kind = "qp"
    BY DEF NamedQp, Named, TypesInv
  <2>2. d \in DriverQps
    BY <2>1 DEF DriverObjects, DriverPds, DriverMrs, DriverAhs, DriverCqs
  <2>3. [d EXCEPT !.state = state] \in DriverQps
    BY <2>2, ControlAssumption DEF DriverQps
  <2> QED
    BY <2>3 DEF DriverObjects
<1>3. driver' \subseteq DriverObjects
  BY <1>1, <1>2 DEF ModifyState, TypesInv
<1> QED
  BY <1>1, <1>3, TypesStay DEF TypesInv

(* ibv_destroy_qp: a QP has been counted on CQs that are held only.           *)
LEMMA DestroyQpTypes ==
  ASSUME ControlInv, TypesInv, NEW q \in Qps, NEW f, DestroyQp(q, f)
  PROVE  TypesInv'
<1>1. /\ q \in held /\ held' = held \ {q} /\ cached' = cached /\ driver' \subseteq driver
      /\ table' = [table EXCEPT ![QpSlot(q)] = None]
      /\ refCnt' = [c \in Cqs |-> refCnt[c] - RefsOf(q, c)]
  BY DEF DestroyQp, Given, GivesUp, contextVars
<1>2. fields[q].scq \in held /\ fields[q].rcq \in held
  BY <1>1 DEF ControlInv, ObjectsInv, NamesFit, NamesHeld
<1>3. ASSUME NEW c PROVE /\ RefsOf(q, c) \in Int
                         /\ c \notin held => RefsOf(q, c) = 0
  <2> DEFINE R == {s \in {"scq", "rcq"} : fields[q][s] = c}
  <2>1. RefsOf(q, c) = Cardinality(R)
    BY DEF RefsOf
  <2>2. Cardinality(R) \in Nat
    <3>1. R \in SUBSET {"scq", "rcq"} /\ IsFiniteSet({})
      BY FS_EmptySet
    <3> HIDE DEF R
    <3>2. PICK S : S = {}
      OBVIOUS
    <3>3. IsFiniteSet(S) /\ \A s \in {"scq", "rcq"} : <<q, s>> \notin S
      BY <3>1, <3>2
    <3> QED
      BY <3>1, <3>3, CountSides
  <2>3. c \notin held => R = {}
    BY <1>2
  <2> HIDE DEF R
  <2> QED
    BY <2>1, <2>2, <2>3, FS_EmptySet
<1>4. refCnt' \in [Cqs -> Int]
  BY <1>1, <1>3 DEF TypesInv
<1>5. ASSUME NEW c \in Cqs \ held' PROVE refCnt'[c] = 0
  <2>1. c \notin held
    BY <1>1, <1>5, KindsApart
  <2> QED
    BY <1>1, <1>3, <2>1 DEF TypesInv
<1>6. table' \in [0 .. TableSize - 1 -> Qps \cup {None}]
  BY <1>1 DEF TypesInv
<1> QED
  BY <1>1, <1>4, <1>5, <1>6 DEF TypesInv, Caches

(* Every step keeps the types.                                                *)
LEMMA StepsKeepTypes ==
  ASSUME ControlInv, TypesInv, [Next]_vars PROVE TypesInv'
<1>1. CASE LoadLib \/ FreeLib \/ CallDummy \/ Ended \/ UNCHANGED vars
  BY <1>1, TypesIdle DEF LoadLib, FreeLib, CallDummy, Ended, vars
<1>2. CASE CallNowhere
  BY <1>2, TypesIdle DEF CallNowhere
<1>3. CASE QueueCalls
  <2>1. ASSUME NEW o, RetryDestroy(o) PROVE TypesInv'
    BY <2>1, TypesIdle DEF RetryDestroy
  <2> QED
    BY <1>3, <2>1, CreateCqTypes, DestroyCqTypes, CreateQpTypes, ModifyQpTypes,
       DestroyQpTypes
    DEF QueueCalls, Calls
<1> QED
  BY <1>1, <1>2, <1>3, DeviceCallsTypes, ProtectionCallsTypes DEF Next

(* What the driver is told, the table and the counts keep their types: no     *)
(* number outgrows the width it is told in.                                   *)
THEOREM TypesKept == Spec => []TypesInv
<1>1. EfawinInit => TypesInv
  BY DEF EfawinInit, Init, TypesInv, Caches
<1> QED
  BY <1>1, ControlKept, StepsKeepTypes, PTL DEF Spec

----------------------------------------------------------------------------
(* The types of the loader, kept by its own functions alone.                  *)
LoaderTypes ==
  /\ lib \in BOOLEAN /\ mapped \in BOOLEAN /\ wanted \in BOOLEAN
  /\ ops \in [Exports -> {"dummy", "lib"}]

(* Every step keeps them.                                                     *)
LEMMA LoaderTyped ==
  Spec => []LoaderTypes
<1>1. EfawinInit => LoaderTypes
  BY DEF EfawinInit, LoaderInit, LoaderTypes
<1>2. ASSUME LoaderTypes, [Next]_vars PROVE LoaderTypes'
  <2>1. CASE UNCHANGED loaderVars
    BY <1>2, <2>1 DEF loaderVars, LoaderTypes
  <2>2. ASSUME NEW dll, Load(dll) PROVE LoaderTypes'
    <3>1. Usable(dll) \in BOOLEAN
      BY LoaderAssumption DEF Usable, Load
    <3> QED
      BY <1>2, <2>2, <3>1 DEF Load, OpsWhenAll, LoaderTypes
  <2>3. CASE LoadLib
    <3>1. CASE LoadMissing
      BY <1>2, <3>1 DEF LoadMissing, LoaderTypes
    <3> QED
      BY <2>1, <2>2, <2>3, <3>1 DEF LoadLib, LoadAgain
  <2>4. CASE FreeLib
    BY <1>2, <2>4 DEF FreeLib, Free, LoaderTypes
  <2> QED
    BY <1>2, <2>1, <2>3, <2>4, CallsLeaveLoader DEF LoaderSteps, vars
<1> QED
  BY <1>1, <1>2, PTL DEF Spec

(* A CQ counts each QP twice at most.                                         *)
LEMMA CountsBounded ==
  ASSUME ControlInv, TypesInv, IsFiniteSet(Qps)
  PROVE  refCnt \in [Cqs -> 0 .. 2 * Cardinality(Qps)]
<1>1. Cardinality(Qps) \in Nat
  BY FS_CardinalityType
<1>2. ASSUME NEW c \in held \cap Cqs
      PROVE  Cardinality(RefSet(c)) \in 0 .. 2 * Cardinality(Qps)
  <2>1. IsFiniteSet({"scq", "rcq"}) /\ Cardinality({"scq", "rcq"}) = 2
    <3>1. IsFiniteSet({"scq"}) /\ Cardinality({"scq"}) = 1
      BY FS_Singleton
    <3>2. {"scq", "rcq"} = {"scq"} \cup {"rcq"} /\ "rcq" \notin {"scq"}
      OBVIOUS
    <3>3. /\ IsFiniteSet({"scq"} \cup {"rcq"})
          /\ Cardinality({"scq"} \cup {"rcq"}) = Cardinality({"scq"}) + 1
      BY <3>1, <3>2, FS_AddElement
    <3> QED
      BY <3>1, <3>2, <3>3
  <2> DEFINE all == Qps \X {"scq", "rcq"}
  <2>2. IsFiniteSet(all) /\ Cardinality(all) = Cardinality(Qps) * 2
    BY <2>1, FS_Product
  <2>3. RefSet(c) \subseteq all
    BY DEF RefSet
  <2> HIDE DEF all
  <2>4. /\ IsFiniteSet(RefSet(c)) /\ Cardinality(RefSet(c)) <= Cardinality(all)
        /\ Cardinality(RefSet(c)) \in Nat
    BY <2>2, <2>3, FS_Subset, FS_CardinalityType
  <2> QED
    BY <1>1, <2>2, <2>4
<1>3. ASSUME NEW c \in Cqs PROVE refCnt[c] \in 0 .. 2 * Cardinality(Qps)
  <2>1. CASE c \in held
    BY <1>2, <2>1, LookupParts DEF CountsMatch, ControlInv, ObjectsInv
  <2>2. CASE c \notin held
    BY <1>1, <2>2 DEF TypesInv
  <2> QED
    BY <2>1, <2>2
<1> QED
  BY <1>3 DEF TypesInv

(* The types of all variables, of any number of objects: what a process has   *)
(* made of its QPs is finite.                                                 *)
THEOREM EfawinTyped ==
  ASSUME IsFiniteSet(Qps) PROVE Spec => []TypeOK
<1>1. ASSUME ControlInv, TypesInv, LoaderTypes PROVE TypeOK
  <2>1. /\ context \in {"none", "open", "null member"}
        /\ held \subseteq Objects /\ leftovers \subseteq Objects
        /\ refused \subseteq driver
    BY <1>1, KindsApart DEF ControlInv, ObjectsInv, ContextFits, BlocksFit, DriverFits
  <2>2. \A b \in blocks : b[1] \in Objects \cup {"list", "device", "context"}
    BY <1>1 DEF ControlInv, ObjectsInv, BlocksFit, Outside
  <2>3. refCnt \in [Cqs -> 0 .. 2 * Cardinality(Qps)]
    BY <1>1, CountsBounded
  <2> QED
    BY <1>1, <2>1, <2>2, <2>3 DEF TypeOK, TypesInv, Caches, LoaderTypes
<1> QED
  BY <1>1, ControlKept, TypesKept, LoaderTyped, PTL

----------------------------------------------------------------------------
(* Sums over buffers, and their bytes one after the other. A fold of the      *)
(* library is a recursive function over sets of positions, which is shown to  *)
(* exist by looking for the least number of positions it does not exist for.  *)
LEMMA TopOf ==
  ASSUME NEW m \in Nat, NEW s \in SUBSET (1 .. m), m \in s
  PROVE  Max(s) = m
<1>1. m \in s /\ \A y \in s : m >= y
  OBVIOUS
<1>2. Max(s) \in s /\ \A y \in s : Max(s) >= y
  BY <1>1 DEF Max
<1>3. Max(s) \in 1 .. m
  BY <1>2
<1> QED
  BY <1>1, <1>2, <1>3

(* The function that sums the lengths of the buffers at some positions.       *)
LEMMA SumsExist ==
  ASSUME NEW bufs
  PROVE  \A n \in Nat : \E sum : sum = [s \in SUBSET (1 .. n) |->
           IF s = {} THEN 0 ELSE sum[s \ {Max(s)}] + bufs[Max(s)].length]
<1> DEFINE There(n) == \E sum : sum = [s \in SUBSET (1 .. n) |->
             IF s = {} THEN 0 ELSE sum[s \ {Max(s)}] + bufs[Max(s)].length]
           bad == {n \in Nat : ~There(n)}
<1>1. ASSUME bad # {} PROVE FALSE
  <2>1. bad \in SUBSET Nat
    OBVIOUS
  <2> HIDE DEF bad
  <2>2. PICK m \in bad : \A k \in bad : m <= k
    BY <1>1, <2>1, LeastOf
  <2> USE DEF bad
  <2>3. CASE m = 0
    <3> DEFINE z == [s \in {{}} |-> 0]
    <3>1. SUBSET (1 .. 0) = {{}}
      OBVIOUS
    <3>2. z = [s \in SUBSET (1 .. 0) |->
                 IF s = {} THEN 0 ELSE z[s \ {Max(s)}] + bufs[Max(s)].length]
      BY <3>1
    <3> HIDE DEF z
    <3>3. There(0)
      BY <3>2
    <3> QED
      BY <2>2, <2>3, <3>3
  <2>4. CASE m # 0
    <3>1. m \in Nat /\ m - 1 \in Nat /\ ~(m <= m - 1)
      BY <2>1, <2>2, <2>4
    <3>2. There(m - 1)
      BY <2>2, <3>1
    <3>3. PICK g : g = [s \in SUBSET (1 .. m - 1) |->
             IF s = {} THEN 0 ELSE g[s \ {Max(s)}] + bufs[Max(s)].length]
      BY <3>2
    <3> DEFINE f == [s \in SUBSET (1 .. m) |->
                       IF m \in s THEN g[s \ {m}] + bufs[m].length ELSE g[s]]
               h == [s \in SUBSET (1 .. m) |->
                       IF s = {} THEN 0 ELSE f[s \ {Max(s)}] + bufs[Max(s)].length]
    <3>4. \A s \in SUBSET (1 .. m) :
            f[s] = IF m \in s THEN g[s \ {m}] + bufs[m].length ELSE g[s]
      OBVIOUS
    <3>5. \A s \in SUBSET (1 .. m) :
            h[s] = IF s = {} THEN 0 ELSE f[s \ {Max(s)}] + bufs[Max(s)].length
      OBVIOUS
    <3>6. DOMAIN f = SUBSET (1 .. m) /\ DOMAIN h = SUBSET (1 .. m)
          /\ f = [s \in SUBSET (1 .. m) |-> f[s]] /\ h = [s \in SUBSET (1 .. m) |-> h[s]]
      OBVIOUS
    <3> HIDE DEF f, h
    <3>7. ASSUME NEW s \in SUBSET (1 .. m) PROVE f[s] = h[s]
      <4>1. CASE s = {}
        <5>1. g[{}] = 0
          BY <3>3
        <5> QED
          BY <3>4, <3>5, <4>1, <5>1
      <4>2. CASE m \in s
        <5>1. Max(s) = m
          BY <3>1, <4>2, TopOf
        <5>2. s \ {m} \in SUBSET (1 .. m) /\ m \notin s \ {m} /\ s # {}
          BY <4>2
        <5>3. f[s \ {m}] = g[s \ {m}]
          BY <3>4, <5>2
        <5> QED
          BY <3>4, <3>5, <4>2, <5>1, <5>2, <5>3
      <4>3. CASE m \notin s /\ s # {}
        <5>1. s \in SUBSET (1 .. m - 1)
          BY <3>1, <4>3
        <5>2. g[s] = g[s \ {Max(s)}] + bufs[Max(s)].length
          BY <3>3, <4>3, <5>1
        <5>3. s \ {Max(s)} \in SUBSET (1 .. m) /\ m \notin s \ {Max(s)}
          BY <4>3
        <5>4. f[s \ {Max(s)}] = g[s \ {Max(s)}]
          BY <3>4, <5>3
        <5> QED
          BY <3>4, <3>5, <4>3, <5>2, <5>4
      <4> QED
        BY <4>1, <4>2, <4>3
    <3>8. f = h
      BY <3>6, <3>7
    <3>9. There(m)
      BY <3>8 DEF h
    <3> QED
      BY <2>2, <3>9
  <2> QED
    BY <2>3, <2>4
<1> QED
  BY <1>1

(* The bytes of so many buffers, from none to all.                            *)
LEMMA TotalSums ==
  ASSUME NEW bufs, DOMAIN bufs = 1 .. Len(bufs), Len(bufs) \in Nat
  PROVE  \E t : /\ t[0] = 0 /\ TotalBytes(bufs) = t[Len(bufs)]
                /\ \A m \in 1 .. Len(bufs) : t[m] = t[m - 1] + bufs[m].length
<1> DEFINE n == Len(bufs)
           Is(sum) == sum = [s \in SUBSET (1 .. n) |->
             IF s = {} THEN 0 ELSE sum[s \ {Max(s)}] + bufs[Max(s)].length]
           all == CHOOSE sum : Is(sum)
           t == [m \in 0 .. n |-> all[1 .. m]]
<1>1. \E sum : Is(sum)
  BY SumsExist
<1>2. Is(all)
  <2> HIDE DEF Is
  <2> QED
    BY <1>1
<1>3. TotalBytes(bufs) = all[1 .. n]
  BY DEF TotalBytes, FoldLeft, MapThenFoldSet
<1> HIDE DEF all
<1>4. t[0] = 0
  <2>1. 1 .. 0 = {} /\ {} \in SUBSET (1 .. n) /\ 0 \in 0 .. n
    OBVIOUS
  <2>2. all[{}] = 0
    BY <1>2, <2>1
  <2> QED
    BY <2>1, <2>2
<1>5. ASSUME NEW m \in 1 .. n PROVE t[m] = t[m - 1] + bufs[m].length
  <2>1. m \in Nat /\ 1 .. m \in SUBSET (1 .. n) /\ m \in 1 .. m /\ 1 .. m # {}
        /\ (1 .. m) \ {m} = 1 .. m - 1 /\ m \in 0 .. n /\ m - 1 \in 0 .. n
    OBVIOUS
  <2>2. Max(1 .. m) = m
    BY <2>1, TopOf
  <2>3. all[1 .. m] = all[(1 .. m) \ {Max(1 .. m)}] + bufs[Max(1 .. m)].length
    BY <1>2, <2>1
  <2> QED
    BY <2>1, <2>2, <2>3
<1>6. TotalBytes(bufs) = t[n]
  BY <1>3
<1> HIDE DEF t
<1> QED
  BY <1>4, <1>5, <1>6

(* The function that flattens so many sequences.                              *)
LEMMA FlattenExists ==
  ASSUME NEW seqs
  PROVE  \A n \in Nat : \E flatten : flatten = [i \in 1 .. n |->
           IF i = 1 THEN seqs[i] ELSE flatten[i - 1] \o seqs[i]]
<1> DEFINE There(n) == \E flatten : flatten = [i \in 1 .. n |->
             IF i = 1 THEN seqs[i] ELSE flatten[i - 1] \o seqs[i]]
           bad == {n \in Nat : ~There(n)}
<1>1. ASSUME bad # {} PROVE FALSE
  <2>1. bad \in SUBSET Nat
    OBVIOUS
  <2> HIDE DEF bad
  <2>2. PICK m \in bad : \A k \in bad : m <= k
    BY <1>1, <2>1, LeastOf
  <2> USE DEF bad
  <2>3. CASE m = 0
    <3> DEFINE z == [i \in {} |-> 0]
    <3>1. 1 .. 0 = {}
      OBVIOUS
    <3>2. z = [i \in 1 .. 0 |-> IF i = 1 THEN seqs[i] ELSE z[i - 1] \o seqs[i]]
      BY <3>1
    <3> HIDE DEF z
    <3>3. There(0)
      BY <3>2
    <3> QED
      BY <2>2, <2>3, <3>3
  <2>4. CASE m # 0
    <3>1. m \in Nat /\ m - 1 \in Nat /\ ~(m <= m - 1)
      BY <2>1, <2>2, <2>4
    <3>2. There(m - 1)
      BY <2>2, <3>1
    <3>3. PICK g : g = [i \in 1 .. m - 1 |->
             IF i = 1 THEN seqs[i] ELSE g[i - 1] \o seqs[i]]
      BY <3>2
    <3> DEFINE f == [i \in 1 .. m |->
                       IF i # m THEN g[i]
                       ELSE IF m = 1 THEN seqs[m] ELSE g[m - 1] \o seqs[m]]
               h == [i \in 1 .. m |->
                       IF i = 1 THEN seqs[i] ELSE f[i - 1] \o seqs[i]]
    <3>4. \A i \in 1 .. m : f[i] = IF i # m THEN g[i]
                                   ELSE IF m = 1 THEN seqs[m] ELSE g[m - 1] \o seqs[m]
      OBVIOUS
    <3>5. \A i \in 1 .. m : h[i] = IF i = 1 THEN seqs[i] ELSE f[i - 1] \o seqs[i]
      OBVIOUS
    <3>6. /\ f = [i \in 1 .. m |-> f[i]] /\ h = [i \in 1 .. m |-> h[i]]
      OBVIOUS
    <3> HIDE DEF f, h
    <3>7. ASSUME NEW i \in 1 .. m PROVE f[i] = h[i]
      <4>1. CASE i = 1 /\ m # 1
        <5>1. i \in 1 .. m - 1
          BY <3>1, <4>1
        <5>2. g[i] = seqs[i]
          BY <3>3, <4>1, <5>1
        <5> QED
          BY <3>4, <3>5, <4>1, <5>2
      <4>2. CASE i = 1 /\ m = 1
        BY <3>4, <3>5, <4>2
      <4>3. CASE i # 1
        <5>1. i - 1 \in 1 .. m /\ i - 1 # m
          BY <3>1, <4>3
        <5>2. f[i - 1] = g[i - 1]
          BY <3>4, <5>1
        <5>3. CASE i = m
          BY <3>4, <3>5, <4>3, <5>2, <5>3
        <5>4. CASE i # m
          <6>1. i \in 1 .. m - 1
            BY <3>1, <5>4
          <6>2. g[i] = g[i - 1] \o seqs[i]
            BY <3>3, <4>3, <6>1
          <6> QED
            BY <3>4, <3>5, <4>3, <5>2, <5>4, <6>2
        <5> QED
          BY <5>3, <5>4
      <4> QED
        BY <4>1, <4>2, <4>3
    <3>8. f = h
      BY <3>6, <3>7
    <3>9. There(m)
      BY <3>8 DEF h
    <3> QED
      BY <2>2, <3>9
  <2> QED
    BY <2>3, <2>4
<1> QED
  BY <1>1

(* The inline data of so many buffers, from one to all.                       *)
LEMMA DataParts ==
  ASSUME NEW bufs, DOMAIN bufs = 1 .. Len(bufs), Len(bufs) \in Nat
  PROVE  /\ Len(bufs) = 0 => InlineData(bufs) = <<>>
         /\ Len(bufs) # 0 =>
              \E g : /\ g[1] = Bytes(bufs[1]) /\ InlineData(bufs) = g[Len(bufs)]
                     /\ \A m \in 2 .. Len(bufs) : g[m] = g[m - 1] \o Bytes(bufs[m])
<1> DEFINE n == Len(bufs)
           seqs == [i \in DOMAIN bufs |-> Bytes(bufs[i])]
           Is(f) == f = [i \in 1 .. Len(seqs) |->
             IF i = 1 THEN seqs[i] ELSE f[i - 1] \o seqs[i]]
           all == CHOOSE f : Is(f)
<1>1. Len(seqs) = n
  OBVIOUS
<1>2. \A i \in 1 .. n : seqs[i] = Bytes(bufs[i])
  OBVIOUS
<1>3. CASE n = 0
  <2>1. seqs = <<>>
    BY <1>3
  <2>2. InlineData(bufs) = seqs
    BY <1>1, <1>3 DEF InlineData, FlattenSeq
  <2> QED
    BY <1>3, <2>1, <2>2
<1>4. CASE n # 0
  <2>1. InlineData(bufs) = all[Len(seqs)]
    BY <1>1, <1>4 DEF InlineData, FlattenSeq
  <2> HIDE DEF seqs
  <2>2. \E f : Is(f)
    <3>1. \A k \in Nat : \E f : f = [i \in 1 .. k |->
            IF i = 1 THEN seqs[i] ELSE f[i - 1] \o seqs[i]]
      BY FlattenExists, Zenon
    <3> QED
      BY <1>1, <3>1
  <2>3. Is(all)
    <3> HIDE DEF Is
    <3> QED
      BY <2>2
  <2> HIDE DEF all
  <2>4. all[1] = Bytes(bufs[1])
    BY <1>1, <1>2, <1>4, <2>3
  <2>5. ASSUME NEW m \in 2 .. n PROVE all[m] = all[m - 1] \o Bytes(bufs[m])
    <3>1. m \in 1 .. Len(seqs) /\ m # 1 /\ m \in 1 .. n
      BY <1>1
    <3>2. all[m] = all[m - 1] \o seqs[m]
      BY <2>3, <3>1
    <3> QED
      BY <1>2, <3>1, <3>2
  <2>6. InlineData(bufs) = all[n]
    BY <1>1, <2>1
  <2> QED
    BY <1>4, <2>4, <2>5, <2>6
<1> QED
  BY <1>3, <1>4

(* A buffer has its length of bytes.                                          *)
LEMMA BytesAre ==
  ASSUME NEW b \in Sge
  PROVE  Bytes(b) \in Seq(Nat) /\ Len(Bytes(b)) = b.length /\ b.length \in Nat
<1>1. b.length \in Nat /\ b.addr \in Nat
  BY WordsPositive DEF Sge, UInt32
<1>2. \A k \in 1 .. b.length : b.addr + k - 1 \in Nat
  BY <1>1
<1> QED
  BY <1>1, <1>2 DEF Bytes

(* What is appended is as long as its parts.                                  *)
LEMMA Appended ==
  ASSUME NEW s \in Seq(Nat), NEW t \in Seq(Nat)
  PROVE  s \o t \in Seq(Nat) /\ Len(s \o t) = Len(s) + Len(t)
  OBVIOUS

(* The inline data of a request are as many bytes as its buffers have.        *)
LEMMA InlineLength ==
  ASSUME NEW bufs \in Seq(Sge)
  PROVE  /\ TotalBytes(bufs) \in Nat /\ InlineData(bufs) \in Seq(Nat)
         /\ Len(InlineData(bufs)) = TotalBytes(bufs)
         /\ \A b : bufs = <<b>> =>
              InlineData(bufs) = Bytes(b) /\ TotalBytes(bufs) = b.length
<1> DEFINE n == Len(bufs)
<1>1. DOMAIN bufs = 1 .. n /\ n \in Nat /\ \A m \in 1 .. n : bufs[m] \in Sge
  OBVIOUS
<1>2. PICK t : /\ t[0] = 0 /\ TotalBytes(bufs) = t[n]
               /\ \A m \in 1 .. n : t[m] = t[m - 1] + bufs[m].length
  BY <1>1, TotalSums
<1>3. CASE n = 0
  <2>1. \A b : bufs # <<b>>
    BY <1>3
  <2>2. InlineData(bufs) = <<>> /\ TotalBytes(bufs) = 0
    BY <1>1, <1>2, <1>3, DataParts
  <2> QED
    BY <2>1, <2>2
<1>4. CASE n # 0
  <2>1. PICK g : /\ g[1] = Bytes(bufs[1]) /\ InlineData(bufs) = g[n]
                 /\ \A m \in 2 .. n : g[m] = g[m - 1] \o Bytes(bufs[m])
    BY <1>1, <1>4, DataParts
  <2> DEFINE Good(m) == t[m] \in Nat /\ g[m] \in Seq(Nat) /\ Len(g[m]) = t[m]
             bad == {m \in 1 .. n : ~Good(m)}
  <2>2. ASSUME bad # {} PROVE FALSE
    <3>1. bad \in SUBSET Nat
      OBVIOUS
    <3> HIDE DEF bad
    <3>2. PICK m \in bad : \A k \in bad : m <= k
      BY <2>2, <3>1, LeastOf
    <3> USE DEF bad
    <3>3. m \in 1 .. n /\ ~Good(m)
      BY <3>2
    <3>4. /\ Bytes(bufs[m]) \in Seq(Nat) /\ Len(Bytes(bufs[m])) = bufs[m].length
          /\ bufs[m].length \in Nat
      BY <1>1, <3>3, BytesAre
    <3>5. t[m] = t[m - 1] + bufs[m].length
      BY <1>2, <3>3
    <3>6. CASE m = 1
      <4>1. t[1] = bufs[1].length
        BY <1>2, <3>4, <3>5, <3>6
      <4> QED
        BY <2>1, <3>3, <3>4, <3>6, <4>1
    <3>7. CASE m # 1
      <4>1. m - 1 \in 1 .. n /\ ~(m <= m - 1) /\ m \in 2 .. n
        BY <1>1, <3>3, <3>7
      <4>2. Good(m - 1)
        BY <3>2, <4>1
      <4>3. g[m] = g[m - 1] \o Bytes(bufs[m])
        BY <2>1, <4>1
      <4>4. g[m] \in Seq(Nat) /\ Len(g[m]) = Len(g[m - 1]) + Len(Bytes(bufs[m]))
        BY <3>4, <4>2, <4>3, Appended
      <4> QED
        BY <3>3, <3>4, <3>5, <4>2, <4>4
    <3> QED
      BY <3>6, <3>7
  <2>3. Good(n)
    BY <1>1, <1>4, <2>2
  <2>4. ASSUME NEW b, bufs = <<b>>
        PROVE  InlineData(bufs) = Bytes(b) /\ TotalBytes(bufs) = b.length
    <3>1. n = 1 /\ bufs[1] = b
      BY <2>4
    <3>2. t[1] = t[1 - 1] + bufs[1].length /\ bufs[1].length \in Nat
      BY <1>1, <1>2, <3>1, BytesAre
    <3>3. t[1] = b.length
      BY <1>2, <3>1, <3>2
    <3> QED
      BY <1>2, <2>1, <3>1, <3>3
  <2> QED
    BY <1>2, <2>1, <2>3, <2>4
<1> QED
  BY <1>3, <1>4

----------------------------------------------------------------------------
(* A descriptor, the operation's part of it, and what filling in the data     *)
(* changes: inline data, or a list of buffers.                                *)
WqeNames == {"op", "hasImm", "imm", "inline", "length", "data", "remote",
             "remoteLength", "ah", "qpn", "qkey"}
OpWqe(wr) ==
  IF wr.op = "send" THEN EmptyWqe
  ELSE IF wr.op = "send_imm" THEN WithImm(EmptyWqe, wr.imm)
  ELSE [EmptyWqe EXCEPT !.op = "rdma_read", !.remote = wr.remote]

InlineWqe(w, bufs) == [w EXCEPT !.inline = TRUE, !.data = InlineData(bufs),
                                !.length = TotalBytes(bufs) % U16]
ListWqe(w, bufs) ==
  [w EXCEPT !.data = Sgl(bufs), !.length = Len(bufs) % U16,
            !.remoteLength = IF w.op = "rdma_read" THEN TotalBytes(bufs) ELSE @]
Filling(w, wr) == IF wr.inline THEN InlineWqe(w, wr.bufs) ELSE ListWqe(w, wr.bufs)
WholeWqe(wr) == Filling(SentTo(OpWqe(wr), wr.to), wr)

IsWqe(w) == w = [x \in WqeNames |-> w[x]]

(* A descriptor has its fields.                                               *)
LEMMA WqesAre ==
  /\ IsWqe(EmptyWqe)
  /\ \A wr : IsWqe(OpWqe(wr))
  /\ \A w, to : IsWqe(w) => IsWqe(SentTo(w, to))
<1>1. IsWqe(EmptyWqe)
  BY DEF IsWqe, EmptyWqe, WqeNames
<1>2. ASSUME NEW w, NEW to, IsWqe(w) PROVE IsWqe(SentTo(w, to))
  <2>1. DOMAIN w = WqeNames
    BY <1>2 DEF IsWqe
  <2>2. DOMAIN SentTo(w, to) = WqeNames
    BY <2>1 DEF SentTo
  <2> DEFINE t == SentTo(w, to)
  <2>3. t = [x \in DOMAIN t |-> t[x]]
    BY DEF SentTo
  <2> HIDE DEF t
  <2> QED
    BY <2>2, <2>3 DEF IsWqe, t
<1>3. ASSUME NEW wr PROVE IsWqe(OpWqe(wr))
  <2>1. CASE wr.op = "send"
    BY <1>1, <2>1 DEF OpWqe
  <2>2. CASE wr.op = "send_imm"
    BY <2>2 DEF OpWqe, WithImm, IsWqe, EmptyWqe, WqeNames
  <2>3. CASE wr.op # "send" /\ wr.op # "send_imm"
    BY <2>3 DEF OpWqe, IsWqe, EmptyWqe, WqeNames
  <2> QED
    BY <2>1, <2>2, <2>3
<1> QED
  BY <1>1, <1>2, <1>3

(* The fields of a descriptor after each change.                              *)
LEMMA InlineFields ==
  ASSUME NEW w, IsWqe(w), NEW bufs
  PROVE  InlineWqe(w, bufs) = [x \in WqeNames |->
           IF x = "inline" THEN TRUE
           ELSE IF x = "data" THEN InlineData(bufs)
           ELSE IF x = "length" THEN TotalBytes(bufs) % U16 ELSE w[x]]
<1> DEFINE data == InlineData(bufs)
           length == TotalBytes(bufs) % U16
<1>1. DOMAIN w = WqeNames
  BY DEF IsWqe
<1> HIDE DEF data, length
<1>2. [w EXCEPT !.inline = TRUE, !.data = data, !.length = length]
        = [x \in WqeNames |-> IF x = "inline" THEN TRUE ELSE IF x = "data" THEN data
                              ELSE IF x = "length" THEN length ELSE w[x]]
  BY <1>1 DEF WqeNames
<1> QED
  BY <1>2 DEF InlineWqe, data, length

(* The same of a list,                                                        *)
LEMMA ListFields ==
  ASSUME NEW w, IsWqe(w), NEW bufs
  PROVE  ListWqe(w, bufs) = [x \in WqeNames |->
           IF x = "data" THEN Sgl(bufs)
           ELSE IF x = "length" THEN Len(bufs) % U16
           ELSE IF x = "remoteLength" /\ w.op = "rdma_read" THEN TotalBytes(bufs)
           ELSE w[x]]
<1> DEFINE data == Sgl(bufs)
           length == Len(bufs) % U16
           total == TotalBytes(bufs)
<1>1. DOMAIN w = WqeNames
  BY DEF IsWqe
<1> HIDE DEF data, length, total
<1>2. [w EXCEPT !.data = data, !.length = length,
                !.remoteLength = IF w.op = "rdma_read" THEN total ELSE @]
        = [x \in WqeNames |->
             IF x = "data" THEN data ELSE IF x = "length" THEN length
             ELSE IF x = "remoteLength" /\ w.op = "rdma_read" THEN total ELSE w[x]]
  BY <1>1 DEF WqeNames
<1> QED
  BY <1>2 DEF ListWqe, data, length, total

(* and of the address.                                                        *)
LEMMA SentFields ==
  ASSUME NEW w, IsWqe(w), NEW to
  PROVE  SentTo(w, to) = [x \in WqeNames |->
           IF x = "ah" THEN to.ah ELSE IF x = "qpn" THEN to.qpn % U16
           ELSE IF x = "qkey" THEN to.qkey ELSE w[x]]
<1>1. DOMAIN w = WqeNames
  BY DEF IsWqe
<1> QED
  BY <1>1 DEF SentTo, WqeNames

(* The address can be set before the data or after.                           *)
LEMMA AddressAnyTime ==
  ASSUME NEW w, IsWqe(w), NEW wr, NEW to
  PROVE  /\ SentTo(Filling(w, wr), to) = Filling(SentTo(w, to), wr)
         /\ IsWqe(Filling(w, wr))
<1> DEFINE v == SentTo(w, to)
           f == Filling(w, wr)
           bufs == wr.bufs
<1>1. IsWqe(v)
  BY WqesAre
<1>2. v = [x \in WqeNames |-> IF x = "ah" THEN to.ah ELSE IF x = "qpn" THEN to.qpn % U16
                              ELSE IF x = "qkey" THEN to.qkey ELSE w[x]]
  BY SentFields
<1>3. CASE wr.inline
  <2>1. f = InlineWqe(w, bufs) /\ Filling(v, wr) = InlineWqe(v, bufs)
    BY <1>3 DEF Filling
  <2> HIDE DEF v, bufs
  <2>2. f = [x \in WqeNames |-> IF x = "inline" THEN TRUE
               ELSE IF x = "data" THEN InlineData(bufs)
               ELSE IF x = "length" THEN TotalBytes(bufs) % U16 ELSE w[x]]
    BY <2>1, InlineFields
  <2>3. Filling(v, wr) = [x \in WqeNames |-> IF x = "inline" THEN TRUE
               ELSE IF x = "data" THEN InlineData(bufs)
               ELSE IF x = "length" THEN TotalBytes(bufs) % U16 ELSE v[x]]
    BY <1>1, <2>1, InlineFields
  <2> HIDE DEF f
  <2>4. IsWqe(f)
    BY <2>2 DEF IsWqe
  <2>5. SentTo(f, to) = [x \in WqeNames |->
          IF x = "ah" THEN to.ah ELSE IF x = "qpn" THEN to.qpn % U16
          ELSE IF x = "qkey" THEN to.qkey ELSE f[x]]
    BY <2>4, SentFields
  <2>6. SentTo(f, to) = Filling(v, wr)
    BY <1>2, <2>2, <2>3, <2>5 DEF WqeNames
  <2> QED
    BY <2>4, <2>6 DEF f, v
<1>4. CASE ~wr.inline
  <2>1. f = ListWqe(w, bufs) /\ Filling(v, wr) = ListWqe(v, bufs)
    BY <1>4 DEF Filling
  <2> HIDE DEF v, bufs
  <2>2. f = [x \in WqeNames |-> IF x = "data" THEN Sgl(bufs)
               ELSE IF x = "length" THEN Len(bufs) % U16
               ELSE IF x = "remoteLength" /\ w.op = "rdma_read" THEN TotalBytes(bufs)
               ELSE w[x]]
    BY <2>1, ListFields
  <2>3. Filling(v, wr) = [x \in WqeNames |-> IF x = "data" THEN Sgl(bufs)
               ELSE IF x = "length" THEN Len(bufs) % U16
               ELSE IF x = "remoteLength" /\ v.op = "rdma_read" THEN TotalBytes(bufs)
               ELSE v[x]]
    BY <1>1, <2>1, ListFields
  <2> HIDE DEF f
  <2>4. IsWqe(f)
    BY <2>2 DEF IsWqe
  <2>5. SentTo(f, to) = [x \in WqeNames |->
          IF x = "ah" THEN to.ah ELSE IF x = "qpn" THEN to.qpn % U16
          ELSE IF x = "qkey" THEN to.qkey ELSE f[x]]
    BY <2>4, SentFields
  <2>6. v.op = w.op
    BY <1>2 DEF WqeNames
  <2>7. SentTo(f, to) = Filling(v, wr)
    BY <1>2, <2>2, <2>3, <2>5, <2>6 DEF WqeNames
  <2> QED
    BY <2>4, <2>7 DEF f, v
<1> QED
  BY <1>3, <1>4

----------------------------------------------------------------------------
(* The sessions. One that goes on with a descriptor, and one that has been    *)
(* refused something.                                                         *)
Going(w) == [err |-> FALSE, wqe |-> w]
Refused(w) == [err |-> TRUE, wqe |-> w]

(* One that goes on can be refused something or not.                          *)
LEMMA SessionStarts ==
  ASSUME NEW w, NEW s, s = Going(w)
  PROVE  /\ s.err = FALSE /\ s.wqe = w /\ Refuse(s) = Refused(w)
         /\ \A t : Unless(s, t) = t
<1>1. s.err = FALSE /\ s.wqe = w
  BY DEF Going
<1>2. Refuse(s) = Refused(w)
  <2> DEFINE t == [s EXCEPT !.err = TRUE]
  <2>1. DOMAIN s = {"err", "wqe"}
    BY DEF Going
  <2>2. t.err = TRUE /\ t.wqe = w /\ t = [x \in {"err", "wqe"} |-> t[x]]
    BY <1>1, <2>1
  <2> HIDE DEF t
  <2>3. t = Refused(w)
    BY <2>2 DEF Refused
  <2> QED
    BY <2>3 DEF t, Refuse
<1>3. \A t : Unless(s, t) = t
  BY <1>1 DEF Unless
<1> QED
  BY <1>1, <1>2, <1>3

(* A session that was refused stays so.                                       *)
LEMMA RefusedStays ==
  ASSUME NEW w, NEW to PROVE WrSetUdAddr(Refused(w), to) = Refused(w)
  BY DEF WrSetUdAddr, Unless, Refused

(* Inline data in a session.                                                  *)
InlineIn(s, data, length) ==
  [s EXCEPT !.wqe.inline = TRUE, !.wqe.data = data, !.wqe.length = length]
InlineOf(w, data, length) ==
  [w EXCEPT !.inline = TRUE, !.data = data, !.length = length]

(* They are in its descriptor.                                                *)
LEMMA SessionInline ==
  ASSUME NEW w, IsWqe(w), NEW s, s = Going(w), NEW data, NEW length
  PROVE  InlineIn(s, data, length) = Going(InlineOf(w, data, length))
<1> DEFINE v == [w EXCEPT !.inline = TRUE, !.data = data, !.length = length]
           t == [s EXCEPT !.wqe.inline = TRUE, !.wqe.data = data, !.wqe.length = length]
<1>1. DOMAIN s = {"err", "wqe"} /\ s.wqe = w /\ s.err = FALSE
  BY DEF Going
<1>2. DOMAIN w = WqeNames
  BY DEF IsWqe
<1>3. t.wqe = v
  BY <1>1, <1>2 DEF WqeNames
<1>4. t.err = FALSE
  BY <1>1
<1>5. t = [x \in {"err", "wqe"} |-> t[x]]
  BY <1>1
<1> HIDE DEF t, v
<1>6. t = Going(v)
  BY <1>3, <1>4, <1>5 DEF Going
<1> QED
  BY <1>6 DEF t, v, InlineIn, InlineOf

(* A list of buffers in a session.                                            *)
LEMMA SessionList ==
  ASSUME NEW w, IsWqe(w), NEW s, s = Going(w), NEW bufs
  PROVE  PutSgl(s, bufs) = Going(ListWqe(w, bufs))
<1> DEFINE data == Sgl(bufs)
           length == Len(bufs) % U16
           total == TotalBytes(bufs)
           v == [w EXCEPT !.data = data, !.length = length,
                          !.remoteLength = IF w.op = "rdma_read" THEN total ELSE @]
           t == [s EXCEPT !.wqe.data = data, !.wqe.length = length,
                          !.wqe.remoteLength = IF s.wqe.op = "rdma_read" THEN total ELSE @]
<1>1. DOMAIN s = {"err", "wqe"} /\ s.wqe = w /\ s.err = FALSE
  BY DEF Going
<1>2. DOMAIN w = WqeNames
  BY DEF IsWqe
<1>3. PutSgl(s, bufs) = t
  BY DEF PutSgl
<1>4. ListWqe(w, bufs) = v
  BY DEF ListWqe
<1> HIDE DEF data, length, total
<1>5. t.wqe = v
  BY <1>1, <1>2 DEF WqeNames
<1>6. t.err = FALSE
  BY <1>1
<1>7. t = [x \in {"err", "wqe"} |-> t[x]]
  BY <1>1
<1> HIDE DEF t, v
<1>8. t = Going(v)
  BY <1>5, <1>6, <1>7 DEF Going
<1> QED
  BY <1>3, <1>4, <1>8

(* The room a session asks for, and what may come of a request: its data are  *)
(* filled in or refused.                                                      *)
Room(wr, maxSge, maxRdmaSge) == IF wr.op = "rdma_read" THEN maxRdmaSge ELSE maxSge
Accepts(wr, room, maxInline) ==
  IF wr.inline THEN TotalBytes(wr.bufs) <= maxInline ELSE Len(wr.bufs) <= room
Outcomes(w, f, wr, room, maxInline) ==
  {s \in {Going(f), Refused(w)} :
     /\ s = Refused(w) => ~Accepts(wr, room, maxInline)
     /\ s = Going(f) => \/ Accepts(wr, room, maxInline)
                        \/ ~wr.inline /\ Len(wr.bufs) = 1}

(* A session is not both.                                                     *)
LEMMA GoingApart == \A v, w : Going(v) # Refused(w)
<1>1. \A v, w : Going(v).err = FALSE /\ Refused(w).err = TRUE
  BY DEF Going, Refused
<1> QED
  BY <1>1

(* Each setter that suits the data of a request fills them in or refuses      *)
(* them: it refuses more bytes inline, and more buffers, than there is room   *)
(* for, but for wr_set_sge, which asks for none.                              *)
LEMMA SettersAgree ==
  ASSUME NEW w, IsWqe(w), NEW s, s = Going(w), NEW wr, wr.bufs \in Seq(Sge),
         wr.inline \in BOOLEAN, NEW maxSge \in Nat, NEW maxRdmaSge \in Nat,
         NEW maxInline \in Nat,
         w.op = "rdma_read" <=> wr.op = "rdma_read"
  PROVE  Filled(s, wr, maxSge, maxRdmaSge, maxInline)
           \subseteq Outcomes(w, Filling(w, wr), wr, Room(wr, maxSge, maxRdmaSge), maxInline)
<1> DEFINE bufs == wr.bufs
           f == Filling(w, wr)
           room == Room(wr, maxSge, maxRdmaSge)
<1>1. /\ s.err = FALSE /\ s.wqe = w /\ Refuse(s) = Refused(w)
      /\ \A t : Unless(s, t) = t
  BY SessionStarts
<1>4. /\ TotalBytes(bufs) \in Nat /\ Len(bufs) \in Nat /\ room \in Nat
  BY InlineLength DEF Room
<1>5. TotalBytes(bufs) > maxInline <=> ~(TotalBytes(bufs) <= maxInline)
  BY <1>4
<1>6. Len(bufs) > room <=> ~(Len(bufs) <= room)
  BY <1>4
<1>2. CASE wr.inline
  <2>1. f = InlineWqe(w, bufs)
    BY <1>2 DEF Filling
  <2>2. Going(f) = InlineIn(s, InlineData(bufs), TotalBytes(bufs) % U16)
    <3>1. f = InlineOf(w, InlineData(bufs), TotalBytes(bufs) % U16)
      BY <2>1 DEF InlineWqe, InlineOf
    <3> HIDE DEF f
    <3> QED
      BY <3>1, SessionInline
  <2> HIDE DEF f, room
  <2>3. WrSetInlineDataList(s, maxInline, bufs) =
          IF TotalBytes(bufs) > maxInline THEN Refused(w) ELSE Going(f)
    BY <1>1, <2>2 DEF WrSetInlineDataList, InlineIn
  <2>4. ASSUME NEW b, bufs = <<b>>
        PROVE  WrSetInlineData(s, maxInline, b) =
                 IF TotalBytes(bufs) > maxInline THEN Refused(w) ELSE Going(f)
    <3>1. InlineData(bufs) = Bytes(b) /\ TotalBytes(bufs) = b.length
      BY <2>4, InlineLength
    <3> HIDE DEF bufs
    <3> QED
      BY <1>1, <2>2, <3>1 DEF WrSetInlineData, InlineIn
  <2>5. ASSUME NEW x \in Filled(s, wr, maxSge, maxRdmaSge, maxInline)
        PROVE  x = IF TotalBytes(bufs) > maxInline THEN Refused(w) ELSE Going(f)
    <3>1. \/ x = WrSetInlineDataList(s, maxInline, bufs)
          \/ \E b : bufs = <<b>> /\ x = WrSetInlineData(s, maxInline, b)
      BY <1>2, <2>5 DEF Filled
    <3> HIDE DEF bufs
    <3> QED
      BY <2>3, <2>4, <3>1
  <2>6. TotalBytes(bufs) > maxInline <=> ~Accepts(wr, room, maxInline)
    BY <1>2, <1>5 DEF Accepts
  <2> HIDE DEF bufs
  <2>7. ASSUME NEW x \in Filled(s, wr, maxSge, maxRdmaSge, maxInline)
        PROVE  x \in Outcomes(w, f, wr, room, maxInline)
    BY <2>5, <2>6, GoingApart DEF Outcomes
  <2> QED
    BY <2>7 DEF f, room
<1>3. CASE ~wr.inline
  <2>1. f = ListWqe(w, bufs)
    BY <1>3 DEF Filling
  <2>2. PutSgl(s, bufs) = Going(f)
    BY <2>1, SessionList
  <2> HIDE DEF f
  <2>3. WrSetSgeList(s, maxSge, maxRdmaSge, bufs) =
          IF Len(bufs) > room THEN Refused(w) ELSE Going(f)
    BY <1>1, <2>2 DEF WrSetSgeList, Room
  <2>4. ASSUME NEW b, bufs = <<b>> PROVE WrSetSge(s, b) = Going(f) /\ Len(bufs) = 1
    <3>1. WrSetSge(s, b) = Going(f)
      BY <1>1, <2>2, <2>4 DEF WrSetSge
    <3> QED
      BY <2>4, <3>1
  <2> HIDE DEF room
  <2>5. ASSUME NEW x \in Filled(s, wr, maxSge, maxRdmaSge, maxInline)
        PROVE  \/ x = IF Len(bufs) > room THEN Refused(w) ELSE Going(f)
               \/ x = Going(f) /\ Len(bufs) = 1
    <3>1. \/ x = WrSetSgeList(s, maxSge, maxRdmaSge, bufs)
          \/ \E b : bufs = <<b>> /\ x = WrSetSge(s, b)
      BY <1>3, <2>5 DEF Filled
    <3> HIDE DEF bufs
    <3> QED
      BY <2>3, <2>4, <3>1
  <2>6. Len(bufs) > room <=> ~Accepts(wr, room, maxInline)
    BY <1>3, <1>6 DEF Accepts
  <2>7. ASSUME NEW x \in Filled(s, wr, maxSge, maxRdmaSge, maxInline)
        PROVE  x \in Outcomes(w, f, wr, room, maxInline)
    BY <1>3, <2>5, <2>6, GoingApart DEF Outcomes
  <2> QED
    BY <2>7 DEF f, room
<1> QED
  BY <1>2, <1>3

(* The address in a session.                                                  *)
LEMMA SessionSent ==
  ASSUME NEW w, NEW to PROVE WrSetUdAddr(Going(w), to) = Going(SentTo(w, to))
<1> DEFINE s == Going(w)
           v == SentTo(w, to)
           t == [s EXCEPT !.wqe = v]
<1>1. s.err = FALSE /\ s.wqe = w /\ DOMAIN s = {"err", "wqe"}
  BY DEF Going
<1> HIDE DEF s
<1>2. WrSetUdAddr(s, to) = t
  BY <1>1 DEF WrSetUdAddr, Unless
<1> HIDE DEF v
<1>3. t.err = FALSE /\ t.wqe = v /\ t = [x \in {"err", "wqe"} |-> t[x]]
  BY <1>1
<1> HIDE DEF t
<1>4. t = Going(v)
  BY <1>3 DEF Going
<1> QED
  BY <1>2, <1>4 DEF s, v

(* The operation a session starts with.                                       *)
LEMMA SessionOps ==
  ASSUME NEW wr, wr.op \in {"send", "send_imm", "rdma_read"}
  PROVE  /\ WrOpOf(wr) = Going(OpWqe(wr))
         /\ OpWqe(wr).op = "rdma_read" <=> wr.op = "rdma_read"
<1> DEFINE s == WrStart
<1>1. s = Going(EmptyWqe)
  BY DEF WrStart, Going
<1>2. /\ DOMAIN s = {"err", "wqe"} /\ s.err = FALSE /\ s.wqe = EmptyWqe
      /\ \A t : Unless(s, t) = t
  BY <1>1 DEF Going, Unless
<1>3. ASSUME NEW v PROVE [s EXCEPT !.wqe = v] = Going(v)
  <2> HIDE DEF s
  <2> DEFINE t == [s EXCEPT !.wqe = v]
  <2>1. t.err = FALSE /\ t.wqe = v /\ t = [x \in {"err", "wqe"} |-> t[x]]
    BY <1>2
  <2> HIDE DEF t
  <2>2. t = Going(v)
    BY <2>1 DEF Going
  <2> QED
    BY <2>2 DEF t
<1>4. CASE wr.op = "send"
  <2>1. WrOpOf(wr) = WrSend(s) /\ OpWqe(wr) = EmptyWqe /\ EmptyWqe.op = "send"
    BY <1>4 DEF WrOpOf, OpWqe, EmptyWqe
  <2> HIDE DEF s
  <2>2. WrSend(s) = Going(EmptyWqe)
    BY <1>2, <1>3 DEF WrSend
  <2> QED
    BY <1>4, <2>1, <2>2
<1>5. CASE wr.op = "send_imm"
  <2> DEFINE v == WithImm(EmptyWqe, wr.imm)
  <2>1. WrOpOf(wr) = WrSendImm(s, wr.imm) /\ OpWqe(wr) = v
    BY <1>5 DEF WrOpOf, OpWqe
  <2>2. v.op = "send"
    BY DEF WithImm, EmptyWqe
  <2>3. WrSendImm(s, wr.imm) = Unless(s, [s EXCEPT !.wqe = v])
    BY DEF WrSendImm
  <2> HIDE DEF s, v
  <2>4. WrSendImm(s, wr.imm) = Going(v)
    BY <1>2, <1>3, <2>3
  <2> QED
    BY <1>5, <2>1, <2>2, <2>4
<1>6. CASE wr.op = "rdma_read"
  <2> DEFINE v == [EmptyWqe EXCEPT !.op = "rdma_read", !.remote = wr.remote]
  <2>1. WrOpOf(wr) = WrRdmaRead(s, wr.remote) /\ OpWqe(wr) = v
    BY <1>6 DEF WrOpOf, OpWqe
  <2>2. v.op = "rdma_read"
    BY DEF EmptyWqe
  <2>3. WrRdmaRead(s, wr.remote) = Unless(s, [s EXCEPT !.wqe = v])
    BY DEF WrRdmaRead
  <2> HIDE DEF s, v
  <2>4. WrRdmaRead(s, wr.remote) = Going(v)
    BY <1>2, <1>3, <2>3
  <2> QED
    BY <1>6, <2>1, <2>2, <2>4
<1> QED
  BY <1>4, <1>5, <1>6

(* What any session makes of a request: it refuses what there is no room for, *)
(* and builds the one descriptor of the rest.                                 *)
Built(s, wr, room, maxInline) ==
  \/ s.err = TRUE /\ ~Accepts(wr, room, maxInline)
  \/ /\ s.err = FALSE /\ s.wqe = WholeWqe(wr)
     /\ Accepts(wr, room, maxInline) \/ (~wr.inline /\ Len(wr.bufs) = 1)

(* Each session does so.                                                      *)
LEMMA SessionsAgree ==
  ASSUME NEW wr, wr.op \in {"send", "send_imm", "rdma_read"}, wr.bufs \in Seq(Sge),
         wr.inline \in BOOLEAN, NEW maxSge \in Nat, NEW maxRdmaSge \in Nat,
         NEW maxInline \in Nat, NEW s \in SessionWqes(wr, maxSge, maxRdmaSge, maxInline)
  PROVE  Built(s, wr, Room(wr, maxSge, maxRdmaSge), maxInline)
<1> DEFINE o == OpWqe(wr)
           to == wr.to
           v == SentTo(o, to)
           r == WrOpOf(wr)
           a == WrSetUdAddr(r, to)
           room == Room(wr, maxSge, maxRdmaSge)
<1>1. r = Going(o) /\ IsWqe(o) /\ (o.op = "rdma_read" <=> wr.op = "rdma_read")
  BY SessionOps, WqesAre
<1>2. IsWqe(v) /\ v.op = o.op
  <2> HIDE DEF o
  <2>1. IsWqe(v)
    BY <1>1, WqesAre
  <2>2. v = [x \in WqeNames |-> IF x = "ah" THEN to.ah ELSE IF x = "qpn" THEN to.qpn % U16
                                ELSE IF x = "qkey" THEN to.qkey ELSE o[x]]
    BY <1>1, SentFields
  <2> HIDE DEF v
  <2> QED
    BY <2>1, <2>2 DEF WqeNames
<1>3. WholeWqe(wr) = Filling(v, wr)
  BY DEF WholeWqe
<1>4. s \in Filled(a, wr, maxSge, maxRdmaSge, maxInline)
        \cup {WrSetUdAddr(x, to) : x \in Filled(r, wr, maxSge, maxRdmaSge, maxInline)}
  BY DEF SessionWqes
<1>5. a = Going(v)
  <2> HIDE DEF o, to, r
  <2> QED
    BY <1>1, SessionSent
<1>6. SentTo(Filling(o, wr), to) = Filling(v, wr)
  BY <1>1, AddressAnyTime
<1>7. \A w : /\ Going(w).err = FALSE /\ Going(w).wqe = w
             /\ Refused(w).err = TRUE
  BY DEF Going, Refused
<1> HIDE DEF o, to, v, r, a
<1>8. CASE s \in Filled(a, wr, maxSge, maxRdmaSge, maxInline)
  <2>1. s \in Outcomes(v, Filling(v, wr), wr, room, maxInline)
    BY <1>1, <1>2, <1>5, <1>8, SettersAgree
  <2> HIDE DEF room
  <2> QED
    BY <1>3, <1>7, <2>1 DEF Outcomes, Built, room
<1>9. ASSUME NEW x \in Filled(r, wr, maxSge, maxRdmaSge, maxInline), s = WrSetUdAddr(x, to)
      PROVE  Built(s, wr, room, maxInline)
  <2>1. x \in Outcomes(o, Filling(o, wr), wr, room, maxInline)
    BY <1>1, <1>9, SettersAgree
  <2> HIDE DEF room
  <2>2. CASE x = Refused(o)
    BY <1>7, <1>9, <2>1, <2>2, RefusedStays DEF Outcomes, Built
  <2>3. CASE x = Going(Filling(o, wr))
    <3>1. s = Going(Filling(v, wr))
      BY <1>6, <1>9, <2>3, SessionSent
    <3> QED
      BY <1>3, <1>7, <2>1, <2>3, <3>1 DEF Outcomes, Built
  <2> QED
    BY <2>1, <2>2, <2>3 DEF Outcomes
<1> QED
  BY <1>4, <1>8, <1>9

----------------------------------------------------------------------------
(* What efa_post_send builds at once. The immediate data can be set before    *)
(* the data of the request or after.                                          *)
LEMMA ImmAnyTime ==
  ASSUME NEW w, IsWqe(w), NEW wr, NEW imm
  PROVE  WithImm(Filling(w, wr), imm) = Filling(WithImm(w, imm), wr)
<1> DEFINE v == WithImm(w, imm)
           f == Filling(w, wr)
           bufs == wr.bufs
<1>1. v = [x \in WqeNames |-> IF x = "hasImm" THEN TRUE ELSE IF x = "imm" THEN imm
                              ELSE w[x]]
  <2>1. DOMAIN w = WqeNames
    BY DEF IsWqe
  <2> QED
    BY <2>1 DEF WithImm, WqeNames
<1> HIDE DEF v
<1>2. IsWqe(v) /\ v.op = w.op
  BY <1>1 DEF IsWqe, WqeNames
<1>3. IsWqe(f)
  BY AddressAnyTime
<1>4. WithImm(f, imm) = [x \in WqeNames |-> IF x = "hasImm" THEN TRUE
                           ELSE IF x = "imm" THEN imm ELSE f[x]]
  <2> HIDE DEF f
  <2>1. DOMAIN f = WqeNames
    BY <1>3 DEF IsWqe
  <2> QED
    BY <2>1 DEF WithImm, WqeNames
<1>5. CASE wr.inline
  <2>1. f = InlineWqe(w, bufs) /\ Filling(v, wr) = InlineWqe(v, bufs)
    BY <1>5 DEF Filling
  <2> HIDE DEF bufs
  <2>2. f = [x \in WqeNames |-> IF x = "inline" THEN TRUE
               ELSE IF x = "data" THEN InlineData(bufs)
               ELSE IF x = "length" THEN TotalBytes(bufs) % U16 ELSE w[x]]
    BY <2>1, InlineFields
  <2>3. Filling(v, wr) = [x \in WqeNames |-> IF x = "inline" THEN TRUE
               ELSE IF x = "data" THEN InlineData(bufs)
               ELSE IF x = "length" THEN TotalBytes(bufs) % U16 ELSE v[x]]
    BY <1>2, <2>1, InlineFields
  <2> HIDE DEF f
  <2>4. WithImm(f, imm) = Filling(v, wr)
    BY <1>1, <1>4, <2>2, <2>3 DEF WqeNames
  <2> QED
    BY <2>4 DEF f, v
<1>6. CASE ~wr.inline
  <2>1. f = ListWqe(w, bufs) /\ Filling(v, wr) = ListWqe(v, bufs)
    BY <1>6 DEF Filling
  <2> HIDE DEF bufs
  <2>2. f = [x \in WqeNames |-> IF x = "data" THEN Sgl(bufs)
               ELSE IF x = "length" THEN Len(bufs) % U16
               ELSE IF x = "remoteLength" /\ w.op = "rdma_read" THEN TotalBytes(bufs)
               ELSE w[x]]
    BY <2>1, ListFields
  <2>3. Filling(v, wr) = [x \in WqeNames |-> IF x = "data" THEN Sgl(bufs)
               ELSE IF x = "length" THEN Len(bufs) % U16
               ELSE IF x = "remoteLength" /\ v.op = "rdma_read" THEN TotalBytes(bufs)
               ELSE v[x]]
    BY <1>2, <2>1, ListFields
  <2> HIDE DEF f
  <2>4. WithImm(f, imm) = Filling(v, wr)
    <3> DEFINE sgl == Sgl(bufs)
               length == Len(bufs) % U16
               total == TotalBytes(bufs)
               a == WithImm(f, imm)
               b == Filling(v, wr)
    <3> HIDE DEF sgl, length, total, a, b
    <3>1. f = [x \in WqeNames |-> IF x = "data" THEN sgl ELSE IF x = "length" THEN length
                 ELSE IF x = "remoteLength" /\ w.op = "rdma_read" THEN total ELSE w[x]]
      BY <2>2 DEF sgl, length, total
    <3>2. b = [x \in WqeNames |-> IF x = "data" THEN sgl ELSE IF x = "length" THEN length
                 ELSE IF x = "remoteLength" /\ v.op = "rdma_read" THEN total ELSE v[x]]
      BY <2>3 DEF sgl, length, total, b
    <3>3. a = [x \in WqeNames |-> IF x = "hasImm" THEN TRUE
                 ELSE IF x = "imm" THEN imm ELSE f[x]]
      BY <1>4 DEF a
    <3>4. ASSUME NEW x \in WqeNames PROVE a[x] = b[x]
      BY <1>1, <1>2, <3>1, <3>2, <3>3 DEF WqeNames
    <3>5. a = [x \in WqeNames |-> a[x]] /\ b = [x \in WqeNames |-> b[x]]
      BY <3>2, <3>3
    <3>6. a = b
      BY <3>4, <3>5
    <3> QED
      BY <3>6 DEF a, b
  <2> QED
    BY <2>4 DEF f, v
<1> QED
  BY <1>5, <1>6

(* efa_post_send builds what a session does.                                  *)
LEMMA PostAgrees ==
  ASSUME NEW wr, wr.op \in {"send", "send_imm"}
  PROVE  PostSendWqe(wr) = WholeWqe(wr)
<1> DEFINE bufs == wr.bufs
           data == IF wr.inline
                   THEN [EmptyWqe EXCEPT !.inline = TRUE, !.data = InlineData(bufs),
                                         !.length = TotalBytes(bufs) % U16]
                   ELSE [EmptyWqe EXCEPT !.data = Sgl(bufs), !.length = Len(bufs) % U16]
           imm == IF wr.op = "send_imm" THEN WithImm(data, wr.imm) ELSE data
<1>1. PostSendWqe(wr) = SentTo(imm, wr.to)
  BY DEF PostSendWqe
<1>2. data = Filling(EmptyWqe, wr)
  <2>1. CASE wr.inline
    BY <2>1 DEF Filling, InlineWqe
  <2>2. CASE ~wr.inline
    <3>1. EmptyWqe.op # "rdma_read" /\ IsWqe(EmptyWqe)
      BY WqesAre DEF EmptyWqe
    <3>2. Filling(EmptyWqe, wr) = ListWqe(EmptyWqe, bufs)
      BY <2>2 DEF Filling
    <3> HIDE DEF bufs
    <3>3. ListWqe(EmptyWqe, bufs) = [x \in WqeNames |-> IF x = "data" THEN Sgl(bufs)
            ELSE IF x = "length" THEN Len(bufs) % U16
            ELSE IF x = "remoteLength" /\ EmptyWqe.op = "rdma_read" THEN TotalBytes(bufs)
            ELSE EmptyWqe[x]]
      BY <3>1, ListFields
    <3>4. DOMAIN EmptyWqe = WqeNames
      BY <3>1 DEF IsWqe
    <3> DEFINE sgl == Sgl(bufs)
               length == Len(bufs) % U16
               total == TotalBytes(bufs)
               e == EmptyWqe
    <3>5. data = [e EXCEPT !.data = sgl, !.length = length]
      BY <2>2
    <3> HIDE DEF data, sgl, length, total, e
    <3>6. [e EXCEPT !.data = sgl, !.length = length]
            = [x \in WqeNames |-> IF x = "data" THEN sgl ELSE IF x = "length" THEN length
                 ELSE IF x = "remoteLength" /\ e.op = "rdma_read" THEN total ELSE e[x]]
      BY <3>1, <3>4 DEF e, WqeNames
    <3> QED
      BY <3>2, <3>3, <3>5, <3>6 DEF sgl, length, total, e
  <2> QED
    BY <2>1, <2>2
<1> HIDE DEF data
<1>3. imm = Filling(OpWqe(wr), wr)
  <2>1. CASE wr.op = "send"
    BY <1>2, <2>1 DEF OpWqe
  <2>2. CASE wr.op = "send_imm"
    <3>1. WithImm(Filling(EmptyWqe, wr), wr.imm) = Filling(WithImm(EmptyWqe, wr.imm), wr)
      BY WqesAre, ImmAnyTime
    <3> QED
      BY <1>2, <2>2, <3>1 DEF OpWqe
  <2> QED
    BY <2>1, <2>2
<1> HIDE DEF imm
<1>4. SentTo(Filling(OpWqe(wr), wr), wr.to) = WholeWqe(wr)
  <2>1. IsWqe(OpWqe(wr))
    BY WqesAre
  <2> DEFINE o == OpWqe(wr)
  <2> HIDE DEF o
  <2>2. SentTo(Filling(o, wr), wr.to) = Filling(SentTo(o, wr.to), wr)
    BY <2>1, AddressAnyTime DEF o
  <2> QED
    BY <2>2 DEF o, WholeWqe
<1> QED
  BY <1>1, <1>3, <1>4

(* A descriptor that asks for no more than there is room for fits.            *)
LEMMA WholeFits ==
  ASSUME NEW wr, wr.op \in {"send", "send_imm", "rdma_read"}, wr.bufs \in Seq(Sge),
         wr.inline \in BOOLEAN,
         IF wr.inline THEN TotalBytes(wr.bufs) <= WqeInline
         ELSE Len(wr.bufs) <= IF wr.op = "rdma_read" THEN 1 ELSE WqeSges
  PROVE  FitsWqe(WholeWqe(wr))
<1> DEFINE o == OpWqe(wr)
           v == SentTo(o, wr.to)
           f == Filling(v, wr)
           bufs == wr.bufs
<1>1. WholeWqe(wr) = f
  BY DEF WholeWqe
<1>2. IsWqe(o) /\ (o.op = "rdma_read" <=> wr.op = "rdma_read") /\ o.inline = FALSE
  <2>1. IsWqe(o) /\ (o.op = "rdma_read" <=> wr.op = "rdma_read")
    BY SessionOps, WqesAre
  <2>2. o.inline = FALSE
    BY DEF OpWqe, WithImm, EmptyWqe
  <2> QED
    BY <2>1, <2>2
<1>3. IsWqe(v) /\ v.op = o.op /\ v.inline = FALSE
  <2> HIDE DEF o
  <2> DEFINE to == wr.to
  <2>1. IsWqe(v)
    BY <1>2, WqesAre
  <2> HIDE DEF to
  <2>2. SentTo(o, to) = [x \in WqeNames |-> IF x = "ah" THEN to.ah
          ELSE IF x = "qpn" THEN to.qpn % U16 ELSE IF x = "qkey" THEN to.qkey ELSE o[x]]
    BY <1>2, SentFields
  <2>3. SentTo(o, to).op = o.op /\ SentTo(o, to).inline = o.inline
    BY <2>2 DEF WqeNames
  <2> QED
    BY <1>2, <2>1, <2>3 DEF to
<1>4. TotalBytes(bufs) \in Nat /\ Len(InlineData(bufs)) = TotalBytes(bufs)
      /\ Len(bufs) \in Nat /\ Len(Sgl(bufs)) = Len(bufs)
  BY InlineLength DEF Sgl
<1>5. /\ U16 \in Nat /\ WqeSges \in Nat /\ WqeInline \in Nat
      /\ WqeSges < U16 /\ WqeInline < U16 /\ U16 > 1
  BY WorkRequestAssumption, WordsPositive, SmallPowers
<1>6. \A n \in Nat : n < U16 => n % U16 = n
  <2>1. \A n \in 0 .. U16 - 1 : n % U16 = n
    BY SmallPowers
  <2>2. \A n \in Nat : n < U16 => n \in 0 .. U16 - 1
    BY <1>5
  <2> QED
    BY <2>1, <2>2
<1> HIDE DEF v
<1>7. CASE wr.inline
  <2>1. f = InlineWqe(v, bufs)
    BY <1>7 DEF Filling
  <2> HIDE DEF f, bufs
  <2>2. f = [x \in WqeNames |-> IF x = "inline" THEN TRUE
               ELSE IF x = "data" THEN InlineData(bufs)
               ELSE IF x = "length" THEN TotalBytes(bufs) % U16 ELSE v[x]]
    BY <1>3, <2>1, InlineFields
  <2>3. f.inline = TRUE /\ f.data = InlineData(bufs) /\ f.length = TotalBytes(bufs) % U16
    BY <2>2 DEF WqeNames
  <2>4. TotalBytes(bufs) <= WqeInline
    BY <1>7 DEF bufs
  <2>5. TotalBytes(bufs) % U16 = TotalBytes(bufs)
    BY <1>4, <1>5, <1>6, <2>4
  <2>6. f.length = Len(f.data) /\ Len(f.data) <= WqeInline
    BY <1>4, <2>3, <2>4, <2>5
  <2> QED
    BY <1>1, <2>3, <2>6 DEF FitsWqe
<1>8. CASE ~wr.inline
  <2> DEFINE room == IF wr.op = "rdma_read" THEN 1 ELSE WqeSges
  <2>1. f = ListWqe(v, bufs)
    BY <1>8 DEF Filling
  <2> HIDE DEF f, bufs
  <2>2. f = [x \in WqeNames |-> IF x = "data" THEN Sgl(bufs)
               ELSE IF x = "length" THEN Len(bufs) % U16
               ELSE IF x = "remoteLength" /\ v.op = "rdma_read" THEN TotalBytes(bufs)
               ELSE v[x]]
    BY <1>3, <2>1, ListFields
  <2>3. /\ f.inline = FALSE /\ f.data = Sgl(bufs) /\ f.length = Len(bufs) % U16
        /\ f.op = v.op
    BY <1>3, <2>2 DEF WqeNames
  <2>4. Len(bufs) <= room /\ room \in Nat /\ room < U16
    BY <1>5, <1>8 DEF bufs
  <2>5. Len(bufs) % U16 = Len(bufs)
    BY <1>4, <1>5, <1>6, <2>4
  <2>6. f.length = Len(f.data) /\ Len(f.data) <= room
    BY <1>4, <2>3, <2>4, <2>5
  <2>7. room = IF f.op = "rdma_read" THEN 1 ELSE WqeSges
    BY <1>2, <1>3, <2>3
  <2> QED
    BY <1>1, <2>3, <2>6, <2>7 DEF FitsWqe
<1> QED
  BY <1>7, <1>8

(* A QP sends the same either way.                                            *)
LEMMA SendsAgree ==
  ASSUME NEW wr, wr.op \in {"send", "send_imm"}, wr.bufs \in Seq(Sge),
         wr.inline \in BOOLEAN, NEW maxSge \in Nat, NEW maxInline \in Nat
  PROVE  SentTheSame(wr, maxSge, maxInline)
<1> DEFINE taken == Accepts(wr, maxSge, maxInline)
           total == TotalBytes(wr.bufs)
           n == Len(wr.bufs)
<1>1. PostAccepts(maxSge, maxInline, wr) <=> taken
  BY DEF PostAccepts, Accepts
<1>2. PostSendWqe(wr) = WholeWqe(wr)
  BY PostAgrees
<1>3. total \in Nat /\ n \in Nat /\ WqeSges \in Nat /\ WqeSges >= 1 /\ WqeInline \in Nat
  BY InlineLength, WorkRequestAssumption, WordsPositive
<1>4. taken <=> IF wr.inline THEN total <= maxInline ELSE n <= maxSge
  BY DEF Accepts
<1>5. (IF wr.inline THEN total <= WqeInline ELSE n <= WqeSges) => FitsWqe(WholeWqe(wr))
  BY WholeFits
<1> HIDE DEF taken, total
<1>6. ASSUME NEW s \in SessionWqes(wr, maxSge, 1, maxInline)
      PROVE  /\ IF taken THEN ~s.err /\ s.wqe = WholeWqe(wr)
                ELSE s.err \/ (~wr.inline /\ maxSge = 0 /\ n = 1)
             /\ s.err \/ FitsWqe(s.wqe) \/ RoomyQp(maxSge, maxInline)
  <2>1. \/ s.err = TRUE /\ ~taken
        \/ /\ s.err = FALSE /\ s.wqe = WholeWqe(wr)
           /\ taken \/ (~wr.inline /\ n = 1)
    <3> DEFINE room == Room(wr, maxSge, 1)
    <3>1. room = maxSge
      BY DEF Room
    <3>2. Built(s, wr, room, maxInline)
      <4>1. 1 \in Nat
        OBVIOUS
      <4> QED
        BY <1>6, <4>1, SessionsAgree
    <3> HIDE DEF room
    <3> QED
      BY <3>1, <3>2 DEF taken, Built
  <2>2. CASE s.err = TRUE /\ ~taken
    BY <2>2
  <2>3. CASE s.err = FALSE /\ s.wqe = WholeWqe(wr) /\ (taken \/ (~wr.inline /\ n = 1))
    <3> HIDE DEF n
    <3>1. ~taken => ~wr.inline /\ maxSge = 0 /\ n = 1
      <4>1. CASE taken
        BY <4>1
      <4>2. CASE ~taken
        <5>1. ~wr.inline /\ n = 1 /\ ~(n <= maxSge)
          BY <1>4, <2>3, <4>2
        <5> QED
          BY <5>1
      <4> QED
        BY <4>1, <4>2
    <3>2. (IF wr.inline THEN total <= WqeInline ELSE n <= WqeSges)
          \/ RoomyQp(maxSge, maxInline)
      <4>1. CASE wr.inline
        <5>1. total <= maxInline
          BY <1>4, <2>3, <4>1
        <5> QED
          BY <1>3, <4>1, <5>1 DEF RoomyQp
      <4>2. CASE ~wr.inline
        <5>1. n <= maxSge \/ n = 1
          BY <1>4, <2>3, <4>2
        <5> QED
          BY <1>3, <4>2, <5>1 DEF RoomyQp
      <4> QED
        BY <4>1, <4>2
    <3> QED
      BY <1>5, <2>3, <3>1, <3>2
  <2> QED
    BY <2>1, <2>2, <2>3
<1> QED
  BY <1>1, <1>2, <1>6 DEF SentTheSame

(* A read is the same however its buffer is named.                            *)
LEMMA ReadsAgree ==
  ASSUME NEW wr, wr.op = "rdma_read", wr.bufs \in Seq(Sge), wr.inline \in BOOLEAN,
         NEW maxSge \in Nat, NEW maxRdmaSge \in 0 .. 1, NEW maxInline \in Nat
  PROVE  ReadTheSame(wr, maxSge, maxRdmaSge, maxInline)
<1> DEFINE taken == Accepts(wr, maxRdmaSge, maxInline)
           total == TotalBytes(wr.bufs)
           n == Len(wr.bufs)
           all == SessionWqes(wr, maxSge, maxRdmaSge, maxInline)
           sent == {x \in all : ~x.err}
           whole == WholeWqe(wr)
<1>1. total \in Nat /\ n \in Nat /\ WqeInline \in Nat /\ maxRdmaSge \in Nat
  BY InlineLength, WorkRequestAssumption, WordsPositive
<1>2. taken <=> IF wr.inline THEN total <= maxInline ELSE n <= maxRdmaSge
  BY DEF Accepts
<1>3. (IF wr.inline THEN total <= WqeInline ELSE n <= 1) => FitsWqe(whole)
  BY WholeFits
<1> HIDE DEF taken, total, whole, all
<1>4. ASSUME NEW s \in sent
      PROVE  s.wqe = whole /\ (FitsWqe(s.wqe) \/ maxInline > WqeInline)
  <2>1. \/ s.err = TRUE /\ ~taken
        \/ /\ s.err = FALSE /\ s.wqe = whole
           /\ taken \/ (~wr.inline /\ n = 1)
    <3> DEFINE room == Room(wr, maxSge, maxRdmaSge)
    <3>1. room = maxRdmaSge
      BY DEF Room
    <3>2. s \in all
      BY <1>4
    <3>3. Built(s, wr, room, maxInline)
      BY <1>1, <3>2, SessionsAgree DEF all
    <3> HIDE DEF room
    <3>4. ~s.err
      BY <1>4
    <3> QED
      BY <3>1, <3>3, <3>4 DEF taken, whole, Built
  <2>2. s.wqe = whole /\ (taken \/ (~wr.inline /\ n = 1))
    BY <2>1
  <2> HIDE DEF n
  <2>3. (IF wr.inline THEN total <= WqeInline ELSE n <= 1) \/ maxInline > WqeInline
    <3>1. CASE wr.inline
      <4>1. total <= maxInline
        BY <1>2, <2>2, <3>1
      <4> QED
        BY <1>1, <3>1, <4>1
    <3>2. CASE ~wr.inline
      <4>1. n <= maxRdmaSge \/ n = 1
        BY <1>2, <2>2, <3>2
      <4> QED
        BY <1>1, <3>2, <4>1
    <3> QED
      BY <3>1, <3>2
  <2> QED
    BY <1>3, <2>2, <2>3
<1>5. Cardinality({s.wqe : s \in sent}) <= 1
  <2> DEFINE wqes == {s.wqe : s \in sent}
  <2>1. wqes \subseteq {whole}
    BY <1>4
  <2> HIDE DEF wqes, sent
  <2>2. Cardinality({whole}) = 1 /\ IsFiniteSet({whole})
    BY FS_Singleton
  <2>3. Cardinality(wqes) <= Cardinality({whole})
    BY <2>1, <2>2, FS_Subset
  <2> QED
    BY <2>2, <2>3 DEF wqes
<1> QED
  BY <1>4, <1>5 DEF ReadTheSame, all

(* What a request has.                                                        *)
LEMMA RequestParts ==
  ASSUME NEW wr \in WorkRequests
  PROVE  /\ wr.op \in {"send", "send_imm", "rdma_read"} /\ wr.inline \in BOOLEAN
         /\ wr.bufs \in Seq(Sge)
  BY WorkRequestAssumption DEF SendWr

(* A status is told as one of those an application knows.                     *)
LEMMA StatusTold ==
  ASSUME NEW status PROVE ToIbvStatus(status) \in WcStatuses
  BY DEF ToIbvStatus, WcStatuses

(* A work completion, from its descriptor and from what it was.               *)
WcNames == {"status", "vendorErr", "flags", "qpNum", "opcode", "byteLen", "srcQp",
            "sl", "slid", "imm"}

(* Its fields.                                                                *)
LEMMA ProcessedFields ==
  ASSUME NEW c, NEW old, c.queue = "recv" \/ ~c.hasImm
  PROVE  LET wc == ReadAll(old)  all == ReadAll(c)
         IN  ProcessCqe(c, wc) = [x \in WcNames |->
               IF x \in {"status", "vendorErr", "flags", "qpNum", "opcode"} THEN all[x]
               ELSE IF x \in {"byteLen", "srcQp", "sl", "slid"} /\ c.queue # "send"
               THEN all[x]
               ELSE IF x = "imm" /\ c.queue # "send" /\ c.hasImm THEN all[x]
               ELSE wc[x]]
<1> DEFINE wc == ReadAll(old)
           all == ReadAll(c)
           status == ToIbvStatus(c.status)
           common == [wc EXCEPT !.status = status, !.vendorErr = c.status,
                                !.flags = {}, !.qpNum = c.qpNum]
           recv == [common EXCEPT !.opcode = "RECV", !.byteLen = c.length,
                                  !.srcQp = c.srcQp, !.sl = 0, !.slid = c.ah]
           imm == [recv EXCEPT !.imm = c.imm, !.flags = {"with_imm"}]
           sent == [common EXCEPT !.opcode = "SEND"]
<1>1. DOMAIN wc = WcNames
  BY DEF ReadAll, WcNames
<1>2. ProcessCqe(c, wc) = IF c.queue = "send" THEN sent ELSE IF c.hasImm THEN imm ELSE recv
  BY DEF ProcessCqe
<1>3. /\ all.status = status /\ all.vendorErr = c.status /\ all.flags = ReadWcFlags(c)
      /\ all.qpNum = c.qpNum /\ all.opcode = ReadOpcode(c) /\ all.byteLen = c.length
      /\ all.srcQp = c.srcQp /\ all.sl = 0 /\ all.slid = c.ah /\ all.imm = c.imm
  BY DEF ReadAll
<1> HIDE DEF wc, all, status
<1>4. common = [x \in WcNames |-> IF x = "status" THEN status
                  ELSE IF x = "vendorErr" THEN c.status ELSE IF x = "flags" THEN {}
                  ELSE IF x = "qpNum" THEN c.qpNum ELSE wc[x]]
  BY <1>1 DEF WcNames
<1> HIDE DEF common
<1>5. sent = [x \in WcNames |-> IF x = "opcode" THEN "SEND" ELSE common[x]]
  BY <1>4 DEF WcNames
<1>6. recv = [x \in WcNames |-> IF x = "opcode" THEN "RECV"
                  ELSE IF x = "byteLen" THEN c.length ELSE IF x = "srcQp" THEN c.srcQp
                  ELSE IF x = "sl" THEN 0 ELSE IF x = "slid" THEN c.ah ELSE common[x]]
  BY <1>4 DEF WcNames
<1> HIDE DEF recv
<1>7. imm = [x \in WcNames |-> IF x = "imm" THEN c.imm
                  ELSE IF x = "flags" THEN {"with_imm"} ELSE recv[x]]
  BY <1>6 DEF WcNames
<1> HIDE DEF sent, imm
<1> DEFINE is == [x \in WcNames |->
               IF x \in {"status", "vendorErr", "flags", "qpNum", "opcode"} THEN all[x]
               ELSE IF x \in {"byteLen", "srcQp", "sl", "slid"} /\ c.queue # "send"
               THEN all[x]
               ELSE IF x = "imm" /\ c.queue # "send" /\ c.hasImm THEN all[x]
               ELSE wc[x]]
<1>8. CASE c.queue = "send"
  <2>1. ReadOpcode(c) = "SEND" /\ ReadWcFlags(c) = {}
    BY <1>8 DEF ReadOpcode, ReadWcFlags
  <2>2. sent = is
    BY <1>3, <1>4, <1>5, <1>8, <2>1 DEF WcNames
  <2> QED
    BY <1>2, <1>8, <2>2 DEF wc, all
<1>9. CASE c.queue # "send" /\ c.hasImm
  <2>1. ReadOpcode(c) = "RECV" /\ ReadWcFlags(c) = {"with_imm"}
    BY <1>9 DEF ReadOpcode, ReadWcFlags
  <2>2. imm = is
    BY <1>3, <1>4, <1>6, <1>7, <1>9, <2>1 DEF WcNames
  <2> QED
    BY <1>2, <1>9, <2>2 DEF wc, all
<1>10. CASE c.queue # "send" /\ ~c.hasImm
  <2>1. ReadOpcode(c) = "RECV" /\ ReadWcFlags(c) = {}
    BY <1>10 DEF ReadOpcode, ReadWcFlags
  <2>2. recv = is
    BY <1>3, <1>4, <1>6, <1>10, <2>1 DEF WcNames
  <2> QED
    BY <1>2, <1>10, <2>2 DEF wc, all
<1> QED
  BY <1>8, <1>9, <1>10

(* What the read_... functions answer is a work completion,                   *)
LEMMA ReadsTyped ==
  ASSUME NEW c \in Cdescs PROVE ReadAll(c) \in Wc
<1>1. /\ c.status \in CompStatuses /\ c.qpNum \in UInt16 /\ c.length \in UInt16
      /\ c.imm \in UInt32 /\ c.srcQp \in UInt16 /\ c.ah \in UInt16
  BY WorkRequestAssumption DEF Cdesc
<1>2. UInt16 \subseteq UInt32
  BY NumsFit
<1>3. /\ ToIbvStatus(c.status) \in WcStatuses /\ ReadWcFlags(c) \in SUBSET {"with_imm"}
      /\ ReadOpcode(c) \in {"SEND", "RECV"}
  BY StatusTold DEF ReadWcFlags, ReadOpcode
<1> DEFINE status == ToIbvStatus(c.status)
           flags == ReadWcFlags(c)
           opcode == ReadOpcode(c)
<1>4. ReadAll(c) = [status |-> status, vendorErr |-> c.status, flags |-> flags,
                    qpNum |-> c.qpNum, opcode |-> opcode, byteLen |-> c.length,
                    srcQp |-> c.srcQp, sl |-> 0, slid |-> c.ah, imm |-> c.imm]
  BY DEF ReadAll
<1> HIDE DEF status, flags, opcode
<1>5. status \in WcStatuses /\ flags \in SUBSET {"with_imm"} /\ opcode \in {"SEND", "RECV"}
  BY <1>3 DEF status, flags, opcode
<1> QED
  BY <1>1, <1>2, <1>4, <1>5 DEF Wc

(* as is what efa_poll_cq fills in, and the two agree.                        *)
LEMMA Processed ==
  ASSUME NEW c \in Cdescs, NEW old \in Cdescs PROVE CompletedTheSame(c, ReadAll(old))
<1> DEFINE wc == ReadAll(old)
           all == ReadAll(c)
           is == ProcessCqe(c, wc)
<1>1. c.queue \in {"send", "recv"} /\ (c.hasImm => c.queue = "recv")
  BY WorkRequestAssumption DEF Cdesc
<1>2. wc \in Wc /\ all \in Wc
  BY ReadsTyped
<1>3. is = [x \in WcNames |->
              IF x \in {"status", "vendorErr", "flags", "qpNum", "opcode"} THEN all[x]
              ELSE IF x \in {"byteLen", "srcQp", "sl", "slid"} /\ c.queue # "send"
              THEN all[x]
              ELSE IF x = "imm" /\ c.queue # "send" /\ c.hasImm THEN all[x]
              ELSE wc[x]]
  BY <1>1, ProcessedFields
<1> HIDE DEF wc, all, is
<1>4. is \in Wc
  <2>1. \A x \in WcNames : is[x] \in {all[x], wc[x]}
    BY <1>3
  <2>2. DOMAIN is = WcNames
    BY <1>3
  <2>3. is = [x \in WcNames |-> is[x]]
    BY <1>3
  <2>4. /\ is.status \in WcStatuses /\ is.vendorErr \in CompStatuses
        /\ is.flags \in SUBSET {"with_imm"} /\ is.qpNum \in UInt32
        /\ is.opcode \in {"SEND", "RECV"} /\ is.byteLen \in UInt32 /\ is.srcQp \in UInt32
        /\ is.sl \in {0} /\ is.slid \in UInt16 /\ is.imm \in UInt32
    BY <1>2, <2>1 DEF Wc, WcNames
  <2> QED
    BY <2>3, <2>4 DEF Wc, WcNames
<1>5. ASSUME NEW x \in {"status", "vendorErr", "flags", "qpNum", "opcode"}
                  \cup (IF c.queue = "recv" THEN {"byteLen", "srcQp", "sl", "slid"} ELSE {})
                  \cup (IF c.hasImm THEN {"imm"} ELSE {})
      PROVE  is[x] = all[x]
  <2>1. CASE x \in {"status", "vendorErr", "flags", "qpNum", "opcode"}
    BY <1>3, <2>1 DEF WcNames
  <2>2. CASE c.queue = "recv" /\ x \in {"byteLen", "srcQp", "sl", "slid"}
    BY <1>3, <2>2 DEF WcNames
  <2>3. CASE c.hasImm /\ x = "imm"
    BY <1>1, <1>3, <2>3 DEF WcNames
  <2> QED
    BY <1>5, <2>1, <2>2, <2>3
<1> QED
  BY <1>4, <1>5 DEF CompletedTheSame, is, wc, all

(* Whichever way it is sent, and whichever way its completion is read, a      *)
(* request means the same, on every QP the calls can make.                    *)
THEOREM EitherWay == Spec => []EitherWayTheSame
<1>1. ASSUME NEW sge \in Nat, NEW inline \in Nat, NEW wr \in WorkRequests
      PROVE  IF wr.op = "rdma_read"
             THEN \A maxRdma \in 0 .. 1 : ReadTheSame(wr, sge, maxRdma, inline)
             ELSE SentTheSame(wr, sge, inline)
  <2>1. /\ wr.op \in {"send", "send_imm", "rdma_read"} /\ wr.inline \in BOOLEAN
        /\ wr.bufs \in Seq(Sge)
    BY RequestParts
  <2>2. CASE wr.op = "rdma_read"
    BY <2>1, <2>2, ReadsAgree
  <2>3. CASE wr.op # "rdma_read"
    BY <2>1, <2>3, SendsAgree
  <2> QED
    BY <2>2, <2>3
<1>2. Sges \subseteq Nat /\ InlineSizes \subseteq Nat
  BY DeviceHasNaturals, RequestNames, CapHasNaturals DEF Sges, InlineSizes
<1> DEFINE lists == {WrOps(r) : r \in Requests}
<1>3. ASSUME NEW sge \in Sges, NEW inline \in InlineSizes, NEW sendOps \in lists
      PROVE  SameDescriptor[sge][inline][sendOps] = TRUE
  <2> DEFINE same == \A wr \in {x \in WorkRequests : x.op \in sendOps} :
                       IF wr.op = "rdma_read"
                       THEN \A maxRdma \in 0 .. 1 : ReadTheSame(wr, sge, maxRdma, inline)
                       ELSE SentTheSame(wr, sge, inline)
  <2>1. SameDescriptor[sge][inline][sendOps] = same
    BY DEF SameDescriptor
  <2>2. same
    BY <1>1, <1>2
  <2> QED
    BY <2>1, <2>2
<1>4. SameCompletion
  BY Processed DEF SameCompletion
<1>5. ASSUME SizesInv, NEW q \in held \cap Qps
      PROVE  SameDescriptor[fields[q].size.sqSge][fields[q].asked.inline][fields[q].ops]
  <2>1. PICK r \in Requests : SizedFor(fields[q], r)
    BY <1>5 DEF SizesInv
  <2>2. /\ fields[q].asked = r.cap /\ fields[q].size = SetupQp(r.cap, 0)
        /\ fields[q].ops = WrOps(r) /\ CheckQpLimits(r.cap, LimitsIn(Info))
    BY <2>1 DEF SizedFor
  <2>3. fields[q].asked.inline \in InlineSizes /\ fields[q].ops \in lists
    BY <2>2 DEF InlineSizes
  <2>4. fields[q].size.sqSge = r.cap.sendSge /\ r.cap.sendSge <= Info.sendSge
    BY <2>2 DEF SetupQp, CheckQpLimits, LimitsIn
  <2>5. r.cap.sendSge \in Nat
    BY RequestNames, CapHasNaturals
  <2>6. fields[q].size.sqSge \in Sges
    BY <2>4, <2>5, DeviceHasNaturals DEF Sges
  <2> DEFINE a == fields[q].size.sqSge
             b == fields[q].asked.inline
             c == fields[q].ops
  <2> HIDE DEF a, b, c, lists
  <2>7. a \in Sges /\ b \in InlineSizes /\ c \in lists
    BY <2>3, <2>6 DEF a, b, c
  <2>8. SameDescriptor[a][b][c] = TRUE
    BY <1>3, <2>7
  <2>9. SameDescriptor[a][b][c]
    BY ONLY <2>8
  <2> QED
    BY <2>9 DEF a, b, c
<1>6. SizesInv => EitherWayTheSame
  BY <1>4, <1>5 DEF EitherWayTheSame
<1> QED
  BY <1>6, SizesKept, PTL
=============================================================================
