------------------------------ MODULE Verifier ------------------------------
(***************************************************************************)
(* The verification of a decoded artifact: modules and nominal types, then *)
(* exception tables, then every function in turn (signature, control flow, *)
(* and the data flow that finds which registers are initialised where),    *)
(* then the entry's arguments and the semantic feature bits.  Each check   *)
(* is a predicate on the artifact; the data flow is a worklist, one step   *)
(* per block taken from its queue.                                         *)
(*                                                                         *)
(* A function is [name, owner, suspend, static, virtual, abstract, sig,    *)
(* params, regs, blocks, handlers]: params registers hold the parameters,  *)
(* blocks is a sequence of [code, header, cost], handlers a sequence of    *)
(* [from, to, catch, reg, block], protecting from <= block < to.  An       *)
(* instruction is [op, form, dst, args, ref, n, to]: dst is the register   *)
(* it writes (0 for none), args the registers it reads in order, ref its   *)
(* symbol or type, to its targets.  The positions of tables in the file    *)
(* are left out.                                                           *)
(***************************************************************************)
EXTENDS Decoder

VARIABLES
    \* "decode", "modules", "exceptions", "functions", "flow", "entry", then "admit" and
    \* what follows it, or "rejected"
    phase,
    \* the position in FunctionOrder of the function being verified
    at,
    \* what is known of each of its blocks: reached, and the registers
    \* initialised on every way to it found so far
    states,
    \* the blocks still to visit
    queue

verifierVars == <<phase, at, states, queue>>

Since(minor) == art.minor >= minor
Code(fn) == UNION {ToSet(b.code) : b \in ToSet(fn.blocks)}
AllCode == UNION {Code(FunctionAt(f)) : f \in FunctionKeys}

-----------------------------------------------------------------------------
(* Modules and nominal types                                               *)

\* No cycle through edges, a function from each node to the nodes it needs.
RECURSIVE Acyclic(_)
Acyclic(edges) ==
    LET nodes == DOMAIN edges
        free == {n \in nodes : edges[n] \cap nodes = {}}
    IN  \/ nodes = {}
        \/ free # {} /\ Acyclic([n \in nodes \ free |-> edges[n]])

\* Modules import each other without a cycle.
TopologicalModuleOrder ==
    /\ \A m \in Modules : \A i \in ToSet(art.modules[m].imports) : i.module \in Modules
    /\ Acyclic([m \in Modules |-> {i.module : i \in ToSet(art.modules[m].imports)}])

\* Every import names the content of its target and exactly one of its exports.
ResolveImportsAndExports ==
    \A m \in Modules : \A import \in ToSet(art.modules[m].imports) :
        LET target == art.modules[import.module]
        IN  /\ import.hash = target.hash
            /\ Cardinality({e \in DOMAIN target.exports :
                              Provides(m, import, target.exports[e])}) = 1

CheckValue(m, value) ==
    value.k \in {"ref", "inline"} =>
        LET key == ResolvedType(m, value.ty)
        IN  /\ key # NoKey
            /\ (value.k = "inline") = (TypeAt(key).k = "inline")
            /\ value.k = "inline" => Since(15)

\* A class nothing can be stored in: what an array may extend.
StatelessRoot(key) ==
    LET t == TypeAt(key)
    IN  /\ t.k = "class"
        /\ ~t.abstract /\ ~t.final /\ ~t.root /\ t.role = 0
        /\ t.super = 0 /\ t.interfaces = <<>>
        /\ t.fields = {} /\ t.init = 0
        /\ t.methods = {} \/ Since(10)

Implements(m, t) ==
    \A ref \in ToSet(t.interfaces) :
        LET key == ResolvedType(m, ref)
        IN  key # NoKey /\ TypeAt(key).k = "interface"

\* The members of an owned range belong to the type.
OwnedRange(m, id) ==
    LET t == TypesOf(m)[id]
    IN  /\ \A f \in t.fields : /\ f \in DOMAIN art.modules[m].fields
                               /\ art.modules[m].fields[f].owner = id
        /\ \A f \in t.methods : /\ f \in DOMAIN FunctionsOf(m)
                                /\ FunctionsOf(m)[f].owner = id

\* A class initializer is a static function of the class, without parameters,
\* result or suspension.
InitializerOK(m, id) ==
    LET init == TypesOf(m)[id].init
        fn == FunctionsOf(m)[init]
        sig == ResolvedType(m, fn.sig)
    IN  init # 0 =>
        /\ init \in DOMAIN FunctionsOf(m)
        /\ sig # NoKey
        /\ TypeAt(sig).k = "function" /\ ~TypeAt(sig).suspend
        /\ TypeAt(sig).result.k = "unit" /\ TypeAt(sig).params = <<>>
        /\ fn.owner = id /\ fn.params = 0
        /\ fn.static /\ ~fn.suspend /\ ~fn.abstract
        /\ \A i \in Code(fn) : i.op \notin {"CallSuspend", "CapabilityCallAsync"}

ClassOK(m, id) ==
    LET t == TypesOf(m)[id]
        super == ResolvedType(m, t.super)
    IN  /\ ~(t.abstract /\ t.final)
        /\ t.super # 0 => super # NoKey /\ TypeAt(super).k = "class"
        /\ Implements(m, t)
        /\ OwnedRange(m, id)
        /\ InitializerOK(m, id)

InterfaceOK(m, id) ==
    LET t == TypesOf(m)[id]
        super == ResolvedType(m, t.super)
    IN  /\ t.super # 0 => super # NoKey /\ TypeAt(super).k = "interface"
        /\ Implements(m, t)
        /\ OwnedRange(m, id)

ArrayOK(m, id) ==
    LET t == TypesOf(m)[id]
        super == ResolvedType(m, t.super)
    IN  /\ CheckValue(m, t.elem)
        /\ t.storage # 0 => /\ Since(14) /\ t.storage <= 6
                            /\ t.elem.k = IF t.storage = 6 THEN "i64" ELSE "i32"
        /\ t.elem.k # "inline"
        /\ t.super # 0 => Since(7) /\ super # NoKey /\ StatelessRoot(super)

FieldsOK(m) ==
    \A f \in ToSet(art.modules[m].fields) :
        LET owner == ResolvedType(m, f.owner)
        IN  /\ CheckValue(m, f.value)
            /\ f.value.k # "inline"
            /\ owner # NoKey /\ TypeAt(owner).k = "class"

NominalTypeOK(m, id) ==
    LET t == TypesOf(m)[id]
    IN  CASE t.k = "class" -> ClassOK(m, id)
          [] t.k = "interface" -> InterfaceOK(m, id)
          [] t.k = "array" -> ArrayOK(m, id)
          [] t.k = "function" -> \A v \in {t.result} \cup ToSet(t.params) : CheckValue(m, v)
          [] t.k = "inline" -> Since(15) /\ \A v \in ToSet(t.comps) : CheckValue(m, v)

VerifyNominalTypes ==
    /\ \A m \in Modules :
          /\ \A f \in ToSet(FunctionsOf(m)) : \A v \in ToSet(f.regs) : CheckValue(m, v)
          /\ \A id \in DOMAIN TypesOf(m) : NominalTypeOK(m, id)
          /\ FieldsOK(m)
    /\ Acyclic([key \in TypeKeys |-> Parents(key)])

\* The hash recorded for each module is that of its sections.
VerifyModules ==
    /\ \A m \in Modules : art.modules[m].hash = art.modules[m].content
    /\ TopologicalModuleOrder
    /\ ResolveImportsAndExports
    /\ VerifyNominalTypes

-----------------------------------------------------------------------------
(* Exceptions                                                              *)

ThrowableRoots == {key \in TypeKeys : TypeAt(key).k = "class" /\ TypeAt(key).root}
Root == IF ThrowableRoots = {} THEN NoKey ELSE CHOOSE key \in ThrowableRoots : TRUE

\* At most one Throwable: two instance fields, a String? and a Throwable?.
VerifyThrowableRoot ==
    /\ Cardinality(ThrowableRoots) <= 1
    /\ Root # NoKey =>
         LET t == TypeAt(Root)
             first == Min(t.fields)
             field(n) == art.modules[Root[1]].fields[first + n]
             type(n) == ResolvedType(Root[1], field(n).value.ty)
             super == ResolvedType(Root[1], t.super)
         IN  /\ Since(8)
             /\ ~t.abstract /\ ~t.final /\ t.role = 0
             /\ t.interfaces = <<>> /\ t.methods = {} /\ t.init = 0
             /\ Cardinality(t.fields) = 2
             /\ \A n \in 0 .. 1 : /\ ~field(n).static
                                  /\ field(n).value.k = "ref" /\ field(n).value.null
             /\ type(0) # NoKey
             /\ TypeAt(type(0)).k = "class" /\ TypeAt(type(0)).name = StringName
             /\ type(1) = Root
             /\ t.super # 0 => super # NoKey /\ StatelessRoot(super)

RoleTypes(role) == {key \in TypeKeys : TypeAt(key).k = "class" /\ TypeAt(key).role = role}

\* From key up to the root, every class adds nothing: no state, no methods.
RECURSIVE ZeroStateChain(_)
ZeroStateChain(key) ==
    \/ key = Root
    \/ /\ key # NoKey
       /\ TypeAt(key).k = "class"
       /\ ~TypeAt(key).abstract /\ ~TypeAt(key).root
       /\ TypeAt(key).interfaces = <<>>
       /\ TypeAt(key).fields = {} /\ TypeAt(key).methods = {} /\ TypeAt(key).init = 0
       /\ ZeroStateChain(ResolvedType(key[1], TypeAt(key).super))

VerifyRuntimeExceptionTypes ==
    \A role \in 1 .. 8 :
        /\ Cardinality(RoleTypes(role)) <= 1
        /\ \A key \in RoleTypes(role) :
              Since(9) /\ Root # NoKey /\ key # Root /\ ZeroStateChain(key)

\* The roles an instruction may need: 1 division by zero, 2 index, 3 negative
\* size, 4 null, 5 cast, 6 invalid argument, 7 and 8 host failures.
RequiredRoles(i) ==
    CASE i.op \in {"CapabilityCallSync", "CapabilityCallAsync"} -> {7, 8}
      [] i.op \in {"Div", "Rem"} /\ i.form \in {"i32", "i64", "u32", "u64"} -> {1}
      [] i.op = "NewArray" -> {3}
      [] i.op \in {"ArrayLoad", "ArrayStore", "ArrayCopy", "StringGet",
                   "StringSubstring", "StringFromCharArray"} -> {2, 4}
      [] i.op = "CheckedCast" -> {4, 5}
      [] i.op \in {"ArrayLength", "FieldGet", "FieldSet", "StaticGet", "StaticSet",
                   "CallVirtual", "CallInterface", "StringLength", "StringEquals",
                   "StringCompare", "StringHash", "StringConcat"} -> {4}
      [] i.op \in {"ChannelCreate", "ChannelSend", "ChannelReceive"} -> {6}
      [] OTHER -> {}

RolesPresent ==
    LET required == UNION {RequiredRoles(i) : i \in AllCode}
    IN  required # {} => Since(9) /\ \A role \in required : RoleTypes(role) # {}

RootValue == Reference(Root[2], FALSE)

\* One entry of a function's exception table.
HandlerOK(m, fn, h) ==
    LET register == fn.regs[h.reg]
        catch == ResolvedType(m, h.catch)
        caught == Reference(h.catch, FALSE)
    IN  /\ 1 <= h.from /\ h.from < h.to /\ h.to <= Len(fn.blocks) + 1
        /\ h.block \in DOMAIN fn.blocks
        /\ h.reg \in DOMAIN fn.regs
        /\ register.k = "ref" /\ ~register.null
        /\ Root # NoKey
        /\ IF h.catch = 0
           THEN ResolvedType(m, register.ty) = Root
           ELSE /\ catch # NoKey
                /\ TypeAt(catch).k \in {"class", "interface"}
                /\ ValueAssignable(m, caught, Root[1], RootValue)
                /\ ValueAssignable(m, caught, m, register)

\* Two protected ranges are nested or apart.
RejectCrossingRanges(fn) ==
    \A a, b \in ToSet(fn.handlers) :
        a.from < b.from /\ b.from < a.to => b.to <= a.to

ThrowsOK(m, fn) ==
    \A i \in Code(fn) : i.op = "Throw" =>
        LET value == fn.regs[i.args[1]]
        IN  /\ i.args[1] \in DOMAIN fn.regs
            /\ Root # NoKey
            /\ value.k = "ref" /\ ~value.null
            /\ ValueAssignable(m, value, Root[1], RootValue)

UsesExceptions ==
    \/ \E f \in FunctionKeys : FunctionAt(f).handlers # <<>>
    \/ \E i \in AllCode : i.op = "Throw"

HandlerTables ==
    /\ UsesExceptions => Since(8) /\ Root # NoKey
    /\ \A f \in FunctionKeys :
          /\ \A h \in ToSet(FunctionAt(f).handlers) : HandlerOK(f[1], FunctionAt(f), h)
          /\ RejectCrossingRanges(FunctionAt(f))
          /\ ThrowsOK(f[1], FunctionAt(f))

VerifyExceptions ==
    /\ VerifyThrowableRoot
    /\ VerifyRuntimeExceptionTypes
    /\ RolesPresent
    /\ HandlerTables
-----------------------------------------------------------------------------
(* Signatures and control flow                                             *)

Signature(m, fn) == ResolvedType(m, fn.sig)

InlineLayout(m, value) ==
    LET key == ResolvedType(m, value.ty)
    IN  IF value.k = "inline" /\ key # NoKey /\ TypeAt(key).k = "inline"
        THEN key ELSE NoKey

VerifySignature(m, fn) ==
    LET sig == Signature(m, fn)
    IN  /\ fn.params <= Len(fn.regs)
        /\ sig # NoKey
        /\ TypeAt(sig).k = "function"
        /\ fn.suspend = TypeAt(sig).suspend
        /\ Len(TypeAt(sig).params) = fn.params
        /\ \A i \in 1 .. fn.params :
              ValueTypesMatch(m, fn.regs[i], sig[1], TypeAt(sig).params[i])

\* The targets of a block are those of its last instruction.
TerminatorTargets(block) == Last(block.code).to

\* A block ends in its only terminator; targets are blocks of the function,
\* loop headers when they lie behind, and never exception handlers.
VerifyControlFlow(fn) ==
    /\ fn.blocks # <<>>
    /\ \A b \in DOMAIN fn.blocks :
          LET code == fn.blocks[b].code
          IN  /\ code # <<>>
              /\ \A i \in DOMAIN code : code[i].op \in Terminators <=> i = Len(code)
              /\ \A target \in ToSet(TerminatorTargets(fn.blocks[b])) :
                    /\ target \in DOMAIN fn.blocks
                    /\ target <= b => fn.blocks[target].header
                    /\ \A h \in ToSet(fn.handlers) : target # h.block

-----------------------------------------------------------------------------
(* Instructions                                                            *)
(* A shape is the kinds an instruction reads and the kind it writes; the   *)
(* kind "string" is a non-null kotlin.String, "none" no destination.       *)

NumericFormKind(form) ==
    CASE form = "u32" -> "i32" [] form = "u64" -> "i64" [] OTHER -> form

IsString(key) == key # NoKey /\ key = ResolveStringType

RequireKind(m, fn, register, kind) ==
    /\ register \in DOMAIN fn.regs
    /\ IF kind = "string"
       THEN /\ fn.regs[register].k = "ref" /\ ~fn.regs[register].null
            /\ IsString(ResolvedType(m, fn.regs[register].ty))
       ELSE fn.regs[register].k = kind

Shape(reads, writes) == [reads |-> reads, writes |-> writes]

HasShape(m, fn, i, shape) ==
    LET registers == i.args \o IF shape.writes = "none" THEN <<>> ELSE <<i.dst>>
        kinds == Append(shape.reads, shape.writes)
    IN  /\ Len(i.args) = Len(shape.reads)
        /\ \A n \in DOMAIN registers : RequireKind(m, fn, registers[n], kinds[n])

Texts == {"StringLength", "StringGet", "StringEquals", "StringCompare", "StringHash",
          "StringConcat", "ValueHash", "StringValueOf", "StringSubstring"}
Waits == {"Sleep", "CoroutineJoin", "ChannelCreate", "ChannelSend", "ChannelReceive"}

ArithmeticShape(i) ==
    LET kind == NumericFormKind(i.form)
    IN  Shape(<<kind, IF i.op \in Shifts THEN "i32" ELSE kind>>, kind)

\* Negation has no unsigned form: its source must have the form's own kind.
NegShape(i) == Shape(<<i.form>>, NumericFormKind(i.form))

ComparisonShape(i) ==
    LET kind == NumericFormKind(i.form) IN Shape(<<kind, kind>>, "bool")

MathShape(i) ==
    Shape([n \in 1 .. IF i.op = "MathUnary" THEN 1 ELSE 2 |-> i.form], i.form)

TextShape(i) ==
    CASE i.op = "StringLength" -> Shape(<<"string">>, "i32")
      [] i.op = "StringGet" -> Shape(<<"string", "i32">>, "char")
      [] i.op = "StringEquals" -> Shape(<<"string", "string">>, "bool")
      [] i.op = "StringCompare" -> Shape(<<"string", "string">>, "i32")
      [] i.op = "StringHash" -> Shape(<<"string">>, "i32")
      [] i.op = "StringConcat" -> Shape(<<"string", "string">>, "string")
      [] i.op = "ValueHash" -> Shape(<<i.form>>, "i32")
      [] i.op = "StringValueOf" -> Shape(<<NumericFormKind(i.form)>>, "string")
      [] i.op = "StringSubstring" -> Shape(<<"string", "i32", "i32">>, "string")

TaskShape(i) ==
    CASE i.op = "Sleep" -> Shape(<<"i64">>, "none")
      [] i.op = "CoroutineJoin" -> Shape(<<"i32">>, "none")
      [] i.op = "ChannelCreate" -> Shape(<<"i32">>, "i32")
      [] i.op = "ChannelSend" -> Shape(<<"i32", "i32">>, "none")
      [] i.op = "ChannelReceive" -> Shape(<<"i32">>, "i32")

BranchShape(i) == Shape(IF i.op = "Branch" THEN <<"bool">> ELSE <<"i32">>, "none")

ShapeOf(i) ==
    CASE i.op \in Arithmetic -> ArithmeticShape(i)
      [] i.op = "Neg" -> NegShape(i)
      [] i.op \in Comparisons -> ComparisonShape(i)
      [] i.op \in {"MathUnary", "MathBinary"} -> MathShape(i)
      [] i.op \in {"RefEqual", "RefNotEqual"} -> Shape(<<"ref", "ref">>, "bool")
      [] i.op \in Texts -> TextShape(i)
      [] i.op \in Waits -> TaskShape(i)
      [] i.op \in {"Branch", "SwitchI32"} -> BranchShape(i)

ShapedOps == Arithmetic \cup Comparisons \cup Texts \cup Waits
             \cup {"Neg", "MathUnary", "MathBinary", "RefEqual", "RefNotEqual", "Branch",
                   "SwitchI32"}

\* What the operation asks for besides its shape.
ShapedRule(m, fn, i) ==
    /\ i.op \in {"MathUnary", "MathBinary"} => Since(16) /\ i.form \in {"f32", "f64"}
    /\ i.op = "ValueHash" => Since(11) /\ (i.form = "f64" => Since(12))
    /\ i.op = "CoroutineJoin" => i.dst = 0
    /\ i.op \in {"RefEqual", "RefNotEqual"} =>
         \/ Since(6)
         \/ ResolvedType(m, fn.regs[i.args[1]].ty) = ResolvedType(m, fn.regs[i.args[2]].ty)

VerifyConvert(m, fn, i) ==
    LET s == fn.regs[i.args[1]].k
        d == fn.regs[i.dst].k
    IN  /\ {i.args[1], i.dst} \subseteq DOMAIN fn.regs
        /\ \/ s \in Numeric /\ d \in Numeric
           \/ <<s, d>> \in {<<"i32", "char">>, <<"char", "i32">>}

VerifyMove(m, fn, i) ==
    /\ {i.dst, i.args[1]} \subseteq DOMAIN fn.regs
    /\ ValueTypesMatch(m, fn.regs[i.dst], m, fn.regs[i.args[1]])

VerifyNull(m, fn, i) ==
    i.dst \in DOMAIN fn.regs /\ fn.regs[i.dst].k = "ref" /\ fn.regs[i.dst].null

\* A constant's kind is its form: a scalar kind, "string" or "null".
VerifyConst(m, fn, i) ==
    IF i.form = "null" THEN VerifyNull(m, fn, i) ELSE RequireKind(m, fn, i.dst, i.form)

VerifyInline(m, fn, i) ==
    LET construct == i.op = "InlineConstruct"
        inline == IF construct THEN i.dst ELSE i.args[1]
        layout == InlineLayout(m, fn.regs[inline])
        comps == TypeAt(layout).comps
    IN  /\ ToSet(i.args) \cup {i.dst} \subseteq DOMAIN fn.regs
        /\ Since(15) /\ layout # NoKey
        /\ IF construct
           THEN /\ Len(i.args) = Len(comps)
                /\ \A n \in DOMAIN comps :
                      ValueTypesMatch(m, fn.regs[i.args[n]], layout[1], comps[n])
           ELSE /\ i.n \in DOMAIN comps
                /\ ValueTypesMatch(layout[1], comps[i.n], m, fn.regs[i.dst])

\* A new or cast reference of type key fits the destination.
RequireReferenceDestination(m, fn, dst, key) ==
    /\ RequireKind(m, fn, dst, "ref")
    /\ ValueAssignable(key[1], Reference(key[2], FALSE), m, fn.regs[dst])

VerifyNewObject(m, fn, i) ==
    LET key == ResolvedType(m, i.ref)
    IN  /\ key # NoKey
        /\ TypeAt(key).k = "class" /\ ~TypeAt(key).abstract
        /\ RequireReferenceDestination(m, fn, i.dst, key)

VerifyNewArray(m, fn, i) ==
    LET key == ResolvedType(m, i.ref)
    IN  /\ RequireKind(m, fn, i.args[1], "i32")
        /\ key # NoKey
        /\ TypeAt(key).k = "array"
        /\ RequireReferenceDestination(m, fn, i.dst, key)

\* The array type of a register that holds a non-null array, or NoKey.
ArrayKey(value, key) ==
    IF value.k = "ref" /\ ~value.null /\ key # NoKey /\ TypeAt(key).k = "array"
    THEN key ELSE NoKey

ArrayType(m, fn, register) ==
    IF register \notin DOMAIN fn.regs THEN NoKey
    ELSE ArrayKey(fn.regs[register], ResolvedType(m, fn.regs[register].ty))

VerifyArrayAccess(m, fn, i) ==
    \E array \in {ArrayType(m, fn, i.args[1])} :
        /\ array # NoKey
        /\ i.op # "ArrayLength" => RequireKind(m, fn, i.args[2], "i32")
        /\ CASE i.op = "ArrayLength" -> RequireKind(m, fn, i.dst, "i32")
             [] i.op = "ArrayLoad" ->
                  /\ i.dst \in DOMAIN fn.regs
                  /\ ValueAssignable(array[1], TypeAt(array).elem, m, fn.regs[i.dst])
             [] i.op = "ArrayStore" ->
                  /\ i.args[3] \in DOMAIN fn.regs
                  /\ ValueAssignable(m, fn.regs[i.args[3]], array[1], TypeAt(array).elem)

VerifyArrayCopy(m, fn, i) ==
    \E s \in {ArrayType(m, fn, i.args[1])}, d \in {ArrayType(m, fn, i.args[2])} :
        /\ s # NoKey /\ d # NoKey
        /\ \A n \in 3 .. 5 : RequireKind(m, fn, i.args[n], "i32")
        /\ TypeAt(s).storage = TypeAt(d).storage
        /\ ValueAssignable(s[1], TypeAt(s).elem, d[1], TypeAt(d).elem)

VerifyFromCharArray(m, fn, i) ==
    \E array \in {ArrayType(m, fn, i.args[1])} :
        /\ array # NoKey /\ TypeAt(array).elem.k = "char"
        /\ \A n \in 2 .. 3 : RequireKind(m, fn, i.args[n], "i32")
        /\ RequireKind(m, fn, i.dst, "string")

\* The receiver of a field access: not null, and of the field's owner.
VerifyReceiver(m, fn, register, field) ==
    /\ RequireKind(m, fn, register, "ref")
    /\ ~fn.regs[register].null
    /\ ValueAssignable(m, fn.regs[register],
                       field[1], Reference(FieldAt(field).owner, FALSE))

VerifyFieldAccess(m, fn, i) ==
    \E field \in {ResolveField(m, i.ref)} :
        /\ field # NoKey
        /\ ~FieldAt(field).static
        /\ VerifyReceiver(m, fn, i.args[1], field)
        /\ IF i.op = "FieldGet"
           THEN /\ i.dst \in DOMAIN fn.regs
                /\ ValueAssignable(field[1], FieldAt(field).value, m, fn.regs[i.dst])
           ELSE /\ FieldAt(field).mutable
                /\ i.args[2] \in DOMAIN fn.regs
                /\ ValueAssignable(m, fn.regs[i.args[2]], field[1], FieldAt(field).value)

VerifyStaticAccess(m, fn, i) ==
    \E field \in {ResolveField(m, i.ref)} :
        /\ field # NoKey
        /\ FieldAt(field).static
        /\ IF i.op = "StaticGet"
           THEN /\ i.dst \in DOMAIN fn.regs
                /\ ValueAssignable(field[1], FieldAt(field).value, m, fn.regs[i.dst])
           ELSE /\ FieldAt(field).mutable
                /\ i.args[1] \in DOMAIN fn.regs
                /\ ValueAssignable(m, fn.regs[i.args[1]], field[1], FieldAt(field).value)

VerifyCast(m, fn, i) ==
    LET key == ResolvedType(m, i.ref)
    IN  /\ RequireKind(m, fn, i.args[1], "ref")
        /\ key # NoKey
        /\ IF i.op = "IsType" THEN RequireKind(m, fn, i.dst, "bool")
           ELSE RequireReferenceDestination(m, fn, i.dst, key)

VerifyCallArguments(m, fn, i, target) ==
    LET sig == Signature(target[1], FunctionAt(target))
    IN  /\ sig # NoKey
        /\ TypeAt(sig).k = "function"
        /\ Len(i.args) = Len(TypeAt(sig).params)
        /\ \A n \in DOMAIN i.args :
              /\ i.args[n] \in DOMAIN fn.regs
              /\ ValueAssignable(m, fn.regs[i.args[n]], sig[1], TypeAt(sig).params[n])

\* What a call may name depends on how it calls.
CallTargetOK(i, target) ==
    LET callee == FunctionAt(target)
        owner == ResolvedType(target[1], callee.owner)
    IN  CASE i.op = "CallDirect" -> ~callee.abstract /\ ~callee.suspend
          [] i.op = "CallVirtual" -> callee.virtual
          [] i.op = "CallInterface" -> owner # NoKey /\ TypeAt(owner).k = "interface"
          [] i.op = "CallSuspend" -> callee.suspend

VerifyCall(m, fn, i) ==
    LET target == ResolveFunction(m, i.ref)
        sig == Signature(target[1], FunctionAt(target))
        result == TypeAt(sig).result
    IN  /\ target # NoKey
        /\ CallTargetOK(i, target)
        /\ VerifyCallArguments(m, fn, i, target)
        /\ IF result.k = "unit" THEN i.dst = 0
           ELSE /\ i.dst \in DOMAIN fn.regs
                /\ ValueAssignable(sig[1], result, m, fn.regs[i.dst])

VerifySpawn(m, fn, i) ==
    LET target == ResolveFunction(m, i.ref)
    IN  /\ target # NoKey
        /\ VerifyCallArguments(m, fn, i, target)
        /\ RequireKind(m, fn, i.dst, "i32")

\* The capability is declared and has the operation i.n (operations from 1).
VerifyCapability(m, fn, i) ==
    /\ i.ref \in DOMAIN art.capabilities
    /\ i.n <= art.capabilities[i.ref]
    /\ i.dst # 0 => /\ i.dst \in DOMAIN fn.regs
                    /\ fn.regs[i.dst].k = "inline" => Since(20)

VerifyReturn(m, fn, i) ==
    LET sig == Signature(m, fn)
        result == TypeAt(sig).result
    IN  IF result.k = "unit" THEN i.args = <<>>
        ELSE /\ Len(i.args) = 1 /\ i.args[1] \in DOMAIN fn.regs
             /\ ValueAssignable(m, fn.regs[i.args[1]], sig[1], result)

VerifyThrow(m, fn, i) ==
    RequireKind(m, fn, i.args[1], "ref") /\ ~fn.regs[i.args[1]].null

\* The rule of an instruction's operation, given that it reads only
\* initialised registers.
InstructionTyped(m, fn, i) ==
    /\ i.op = "CallSuspend" => fn.suspend
    /\ i.form \in {"u32", "u64"} => Since(14)
    /\ CASE i.op \in {"Nop", "Jump", "Unreachable", "Yield"} -> TRUE
         [] i.op = "Move" -> VerifyMove(m, fn, i)
         [] i.op = "Const" -> VerifyConst(m, fn, i)
         [] i.op = "Null" -> VerifyNull(m, fn, i)
         [] i.op \in {"InlineConstruct", "InlineComponent"} -> VerifyInline(m, fn, i)
         [] i.op = "Convert" -> VerifyConvert(m, fn, i)
         [] i.op \in ShapedOps -> HasShape(m, fn, i, ShapeOf(i)) /\ ShapedRule(m, fn, i)
         [] i.op = "NewObject" -> VerifyNewObject(m, fn, i)
         [] i.op = "NewArray" -> VerifyNewArray(m, fn, i)
         [] i.op \in {"ArrayLength", "ArrayLoad", "ArrayStore"} ->
              VerifyArrayAccess(m, fn, i)
         [] i.op = "ArrayCopy" -> VerifyArrayCopy(m, fn, i)
         [] i.op \in FieldAccesses -> VerifyFieldAccess(m, fn, i)
         [] i.op \in StaticAccesses -> VerifyStaticAccess(m, fn, i)
         [] i.op \in Casts -> VerifyCast(m, fn, i)
         [] i.op \in Calls -> VerifyCall(m, fn, i)
         [] i.op = "CoroutineSpawn" -> VerifySpawn(m, fn, i)
         [] i.op \in CapabilityCalls -> VerifyCapability(m, fn, i)
         [] i.op = "Return" -> VerifyReturn(m, fn, i)
         [] i.op = "Throw" -> VerifyThrow(m, fn, i)
         [] i.op = "StringFromCharArray" -> VerifyFromCharArray(m, fn, i)

-----------------------------------------------------------------------------
(* Data flow                                                               *)

MayThrow(i) ==
    i.op \in {"Convert", "Div", "Rem", "NewObject", "NewArray", "ArrayLength",
              "ArrayLoad", "ArrayStore", "ArrayCopy", "FieldGet", "FieldSet",
              "StaticGet", "StaticSet", "CheckedCast", "CallDirect", "CallVirtual",
              "CallInterface", "CoroutineSpawn", "CapabilityCallSync", "Throw",
              "CallSuspend", "StringValueOf", "StringLength", "StringGet",
              "StringEquals", "StringCompare", "StringHash", "StringConcat",
              "StringSubstring", "StringFromCharArray", "Sleep", "CoroutineJoin",
              "ChannelCreate", "ChannelSend", "ChannelReceive", "CapabilityCallAsync"}

Allocates(i) ==
    i.op \in {"NewObject", "NewArray", "StringConcat", "StringValueOf",
              "StringSubstring", "StringFromCharArray"}

\* The registers initialised before instruction k of a block entered with
\* the registers of set.
Before(block, set, k) ==
    set \cup {block.code[j].dst : j \in {j \in 1 .. k - 1 : block.code[j].dst # 0}}

\* A block costs what it declares, no more than the manifest says.  An
\* allocation comes first in its block, and every instruction is typed
\* and reads only what is initialised.
VerifyBlock(m, fn, b, set) ==
    LET block == fn.blocks[b]
    IN  /\ BlockCost(m, fn, block) = block.cost
        /\ block.cost <= art.blockcost
        /\ \A k \in DOMAIN block.code :
              /\ Allocates(block.code[k]) => k = 1
              /\ ToSet(block.code[k].args) \subseteq Before(block, set, k)
              /\ InstructionTyped(m, fn, block.code[k])

Protecting(fn, b) == SelectSeq(fn.handlers, LAMBDA h : h.from <= b /\ b < h.to)

\* Mutant: a handler sees what the throwing instruction was to write.
FlowsAfterThrow(fn, b, set) ==
    LET block == fn.blocks[b]
        around == Protecting(fn, b)
        thrown(k) == IF ~MayThrow(block.code[k]) THEN <<>>
                     ELSE [n \in DOMAIN around |->
                             [to |-> around[n].block,
                              set |-> Before(block, set, k + 1) \cup 1 .. fn.params
                                        \cup {around[n].reg}]]
        targets == TerminatorTargets(block)
    IN  FlattenSeq([k \in DOMAIN block.code |-> thrown(k)])
          \o [n \in DOMAIN targets |->
                [to |-> targets[n], set |-> Before(block, set, Len(block.code) + 1)]]

\* What a block passes on: for every instruction that may throw, the state
\* before it to every handler around the block, and at the end its state to
\* every target.
Flows(fn, b, set) ==
    LET block == fn.blocks[b]
        thrown(k) == IF ~MayThrow(block.code[k]) THEN <<>>
                     ELSE LET around == Protecting(fn, b)
                          IN  [n \in DOMAIN around |->
                                 [to |-> around[n].block,
                                  set |-> Before(block, set, k) \cup 1 .. fn.params
                                            \cup {around[n].reg}]]
        after == Before(block, set, Len(block.code) + 1)
        targets == TerminatorTargets(block)
    IN  FlattenSeq([k \in DOMAIN block.code |-> thrown(k)])
          \o [n \in DOMAIN targets |-> [to |-> targets[n], set |-> after]]

\* Mutant: a block is queued only when it is first reached.
MergeStateOnce(flow, edge) ==
    LET old == flow.states[edge.to]
        set == IF old.reached THEN old.set \cap edge.set ELSE edge.set
    IN  [states |-> [flow.states EXCEPT ![edge.to] = [reached |-> TRUE, set |-> set]],
         queue |-> IF old.reached THEN flow.queue ELSE Append(flow.queue, edge.to)]

\* A state reached for the first time is taken as it is, a later one is
\* intersected; a block whose state changed is queued.
MergeState(flow, edge) ==
    LET old == flow.states[edge.to]
        set == IF old.reached THEN old.set \cap edge.set ELSE edge.set
    IN  IF old.reached /\ set = old.set THEN flow
        ELSE [states |-> [flow.states EXCEPT ![edge.to] = [reached |-> TRUE, set |-> set]],
              queue |-> Append(flow.queue, edge.to)]

-----------------------------------------------------------------------------
(* The steps of the verifier                                               *)

FunctionOrder ==
    FlattenSeq([m \in Modules |-> [f \in DOMAIN FunctionsOf(m) |-> <<m, f>>]])

Current == FunctionAt(FunctionOrder[at])

VerifierInit ==
    /\ art \in Artifacts
    /\ phase = "decode"
    /\ at = 1
    /\ states = <<>>
    /\ queue = <<>>

\* One of the checks that look at the whole artifact.
Check(from, holds, next) ==
    /\ phase = from
    /\ phase' = IF holds THEN next ELSE "rejected"
    /\ UNCHANGED <<art, at, states, queue>>

Decode == Check("decode", DecodeArtifact, "modules")

CheckModules == Check("modules", VerifyModules, "exceptions")

CheckExceptions == Check("exceptions", VerifyExceptions, "functions")

EntryKey == <<art.entry.module, art.entry.function>>

\* verify_functions: the next function.  An abstract one has no blocks and is
\* not the entry; any other starts its data flow at its first block.
BeginFunction ==
    /\ phase = "functions"
    /\ at <= Len(FunctionOrder)
    /\ LET key == FunctionOrder[at]
           fn == Current
           sound == /\ art.slice >= art.blockcost
                    /\ EntryKey \in FunctionKeys
                    /\ VerifySignature(key[1], fn)
       IN  IF sound /\ fn.abstract
           THEN /\ phase' = IF fn.blocks = <<>> /\ key # EntryKey
                            THEN "functions" ELSE "rejected"
                /\ at' = at + 1
                /\ UNCHANGED <<states, queue>>
           ELSE IF sound /\ VerifyControlFlow(fn)
           THEN /\ phase' = "flow"
                /\ states' = [b \in DOMAIN fn.blocks |->
                                [reached |-> b = 1,
                                 set |-> IF b = 1 THEN 1 .. fn.params ELSE {}]]
                /\ queue' = <<1>>
                /\ UNCHANGED at
           ELSE phase' = "rejected" /\ UNCHANGED <<at, states, queue>>
    /\ UNCHANGED art

\* verify_dataflow: the next block of the queue.
FlowBlock ==
    /\ phase = "flow"
    /\ queue # <<>>
    /\ LET m == FunctionOrder[at][1]
           b == Head(queue)
           flow == FoldLeft(MergeState, [states |-> states, queue |-> Tail(queue)],
                            Flows(Current, b, states[b].set))
       IN  IF VerifyBlock(m, Current, b, states[b].set)
           THEN states' = flow.states /\ queue' = flow.queue /\ UNCHANGED phase
           ELSE phase' = "rejected" /\ UNCHANGED <<states, queue>>
    /\ UNCHANGED <<art, at>>

\* The queue is empty: every block must have been reached.
EndFunction ==
    /\ phase = "flow"
    /\ queue = <<>>
    /\ phase' = IF \A b \in DOMAIN states : states[b].reached
                THEN "functions" ELSE "rejected"
    /\ at' = at + 1
    /\ states' = <<>>
    /\ UNCHANGED <<art, queue>>

\* The entry takes nothing, or one array of strings, as the header says.
EntryArgumentsMatch ==
    LET sig == Signature(EntryKey[1], FunctionAt(EntryKey))
        params == TypeAt(sig).params
        array == ResolvedType(sig[1], params[1].ty)
        elem == TypeAt(array).elem
        string == ResolvedType(array[1], elem.ty)
    IN  IF ~art.entry.arguments THEN params = <<>>
        ELSE /\ Len(params) = 1
             /\ params[1].k = "ref" /\ ~params[1].null
             /\ array # NoKey /\ TypeAt(array).k = "array"
             /\ elem.k = "ref" /\ ~elem.null
             /\ string # NoKey /\ TypeAt(string).k = "class"
             /\ TypeAt(string).name = StringName

VerifyEntryArguments ==
    /\ TypeAt(Signature(EntryKey[1], FunctionAt(EntryKey))).result.k # "inline"
    /\ EntryArgumentsMatch

Uses(ops) == \E i \in AllCode : i.op \in ops
TaskOps == {"CoroutineSpawn", "CallSuspend", "Yield", "Sleep", "CoroutineJoin",
            "ChannelSend", "ChannelReceive"}
ChannelOps == {"ChannelCreate", "ChannelSend", "ChannelReceive"}

\* The feature bits an artifact must declare: exactly what it uses.
ExpectedFeatures ==
    {f \in {"exceptions", "suspend", "capabilities", "imports", "channels", "copy"} :
        CASE f = "exceptions" -> UsesExceptions
          [] f = "suspend" -> Uses(TaskOps) \/ \E k \in FunctionKeys : FunctionAt(k).suspend
          [] f = "capabilities" -> art.capabilities # <<>> \/ Uses(CapabilityCalls)
          [] f = "imports" -> \E m \in Modules : art.modules[m].imports # <<>>
          [] f = "channels" -> Uses(ChannelOps)
          [] f = "copy" -> Uses({"ArrayCopy"})}

VerifySemanticFeatures ==
    /\ Uses({"ArrayCopy"}) => Since(5)
    /\ Uses({"CoroutineSpawn", "CoroutineJoin"}) => Since(1)
    /\ Uses(ChannelOps) => Since(2)
    /\ (\E i \in AllCode : i.op = "StringValueOf" /\ i.form = "i64") => Since(3)
    /\ (\E i \in AllCode : i.op = "StringValueOf" /\ i.form = "f32") => Since(4)
    /\ Uses(ChannelOps) <=> art.channels # 0
    /\ art.features = ExpectedFeatures

CheckEntry ==
    /\ at > Len(FunctionOrder)
    /\ Check("functions", VerifyEntryArguments /\ VerifySemanticFeatures, "admit")

VerifierNext ==
    \/ Decode \/ CheckModules \/ CheckExceptions \/ BeginFunction
    \/ FlowBlock \/ EndFunction \/ CheckEntry
=============================================================================
