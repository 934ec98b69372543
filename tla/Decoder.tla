------------------------------ MODULE Decoder -------------------------------
(***************************************************************************)
(* What decoding an artifact makes sure of: every record has the form its  *)
(* table asks for, every instruction the form and the operands of its      *)
(* opcode, and every number that stands for another record is in range.    *)
(* The verifier relies on all of it.                                       *)
(*                                                                         *)
(* The artifact is the one of module Artifact, before anything is known of *)
(* it.  Reading bytes is left out here: where a record ends, reserved      *)
(* fields, and the order of tables (sorted tables are only known to have   *)
(* no two equal keys, since names have no order).  Limits are those that   *)
(* the profile of an execution does not check again.                       *)
(*                                                                         *)
(* A function is [name, owner, suspend, static, virtual, abstract, sig,    *)
(* params, regs, blocks, handlers]: params registers hold the parameters,  *)
(* blocks is a sequence of [code, cost, header], handlers a sequence of    *)
(* [from, to, catch, reg, block], protecting from <= block < to.  An       *)
(* instruction is [op, form, dst, args, ref, n, to]: dst is the register   *)
(* it writes (0 for none), args the registers it reads in order, ref its   *)
(* symbol or type, to its targets.                                         *)
(***************************************************************************)
EXTENDS Artifact

-----------------------------------------------------------------------------
(* Instructions                                                            *)

Arithmetic == {"Add", "Sub", "Mul", "Div", "Rem", "BitAnd", "BitOr", "BitXor",
               "ShiftLeft", "ShiftRight", "ShiftUnsigned"}
Shifts == {"ShiftLeft", "ShiftRight", "ShiftUnsigned"}
Comparisons == {"Equal", "NotEqual", "Less", "LessEqual", "Greater", "GreaterEqual"}
Calls == {"CallDirect", "CallVirtual", "CallInterface", "CallSuspend"}
FieldAccesses == {"FieldGet", "FieldSet"}
StaticAccesses == {"StaticGet", "StaticSet"}
Casts == {"IsType", "CheckedCast"}
CapabilityCalls == {"CapabilityCallSync", "CapabilityCallAsync"}

Terminators ==
    {"Jump", "Branch", "SwitchI32", "Return", "Throw", "Unreachable", "CallSuspend",
     "Yield", "Sleep", "CoroutineJoin", "ChannelSend", "ChannelReceive",
     "CapabilityCallAsync"}

Integral == {"i32", "i64"}
Numeric == Integral \cup {"f32", "f64"}
Unsigned == {"u32", "u64"}

\* The forms of an operation; the others have none, or one of their own.
ValidForm(i) ==
    CASE i.op \in {"Add", "Sub", "Mul", "Div", "Rem"} -> i.form \in Numeric \cup Unsigned
      [] i.op = "Neg" -> i.form \in Numeric
      [] i.op \in {"BitAnd", "BitOr", "BitXor"} \cup Shifts -> i.form \in Integral
      [] i.op \in {"MathUnary", "MathBinary"} -> i.form \in {"f32", "f64"}
      [] i.op \in {"Equal", "NotEqual"} ->
           i.form \in Numeric \cup Unsigned \cup {"bool", "char"}
      [] i.op \in Comparisons -> i.form \in Numeric \cup Unsigned \cup {"char"}
      [] i.op = "ValueHash" -> i.form \in Numeric \cup {"bool", "char", "ref"}
      [] i.op = "StringValueOf" ->
           i.form \in Numeric \cup Unsigned \cup {"bool", "char", "ref"}
      [] OTHER -> TRUE

\* The registers that are read, when their number is fixed: values,
Reads(i) ==
    CASE i.op \in {"Nop", "Const", "Null"} -> 0
      [] i.op \in {"Move", "Convert", "Neg", "MathUnary", "InlineComponent"} -> 1
      [] i.op \in Arithmetic \cup Comparisons \cup {"MathBinary", "RefEqual", "RefNotEqual"} -> 2

\* objects, arrays and fields,
ReadsObjects(i) ==
    CASE i.op \in {"NewObject", "StaticGet"} -> 0
      [] i.op \in {"NewArray", "ArrayLength", "FieldGet", "StaticSet", "IsType",
                   "CheckedCast"} -> 1
      [] i.op \in {"ArrayLoad", "FieldSet"} -> 2
      [] i.op = "ArrayStore" -> 3
      [] i.op = "ArrayCopy" -> 5

\* strings,
ReadsText(i) ==
    CASE i.op \in {"StringLength", "StringHash", "ValueHash", "StringValueOf"} -> 1
      [] i.op \in {"StringGet", "StringEquals", "StringCompare", "StringConcat"} -> 2
      [] i.op \in {"StringSubstring", "StringFromCharArray"} -> 3

\* and what waits or leaves the block.
ReadsControl(i) ==
    CASE i.op \in {"Jump", "Yield", "Unreachable"} -> 0
      [] i.op \in {"Branch", "SwitchI32", "Throw", "Sleep", "CoroutineJoin", "ChannelCreate",
                   "ChannelReceive"} -> 1
      [] i.op = "ChannelSend" -> 2

TextInstructions == {"StringLength", "StringGet", "StringEquals", "StringCompare", "StringHash",
            "StringConcat", "StringSubstring", "StringValueOf", "StringFromCharArray",
            "ValueHash"}
ObjectInstructions == {"NewObject", "NewArray", "ArrayLength", "ArrayLoad", "ArrayStore", "ArrayCopy"}
             \cup FieldAccesses \cup StaticAccesses \cup Casts
ControlInstructions == {"Jump", "Branch", "SwitchI32", "Throw", "Unreachable", "Yield", "Sleep",
               "CoroutineJoin", "ChannelCreate", "ChannelSend", "ChannelReceive"}
ValueInstructions == {"Nop", "Const", "Null", "Move", "Convert", "Neg", "MathUnary", "MathBinary",
             "InlineComponent", "RefEqual", "RefNotEqual"} \cup Arithmetic \cup Comparisons

\* Those that take a list of registers; a return takes one or none.
ListOps == Calls \cup CapabilityCalls \cup {"CoroutineSpawn", "InlineConstruct"}

\* Operations that may, and that may not, leave out the register they write.
OptionalResult == Calls \cup CapabilityCalls \cup {"CoroutineJoin"}
NoResult == {"Nop", "ArrayStore", "ArrayCopy", "FieldSet", "StaticSet", "Jump", "Branch",
             "SwitchI32", "Return", "Throw", "Yield", "Sleep", "ChannelSend", "Unreachable"}

\* decode_instruction: a register that is not optional is given.
DecodeInstruction(i) ==
    /\ ValidForm(i)
    /\ CASE i.op \in ValueInstructions -> Len(i.args) = Reads(i)
         [] i.op \in ObjectInstructions -> Len(i.args) = ReadsObjects(i)
         [] i.op \in TextInstructions -> Len(i.args) = ReadsText(i)
         [] i.op \in ControlInstructions -> Len(i.args) = ReadsControl(i)
         [] i.op = "Return" -> Len(i.args) <= 1
         [] i.op \in ListOps -> TRUE
         [] OTHER -> FALSE
    /\ 0 \notin ToSet(i.args)
    /\ i.op \in NoResult => i.dst = 0
    /\ i.op \notin NoResult \cup OptionalResult => i.dst # 0

\* A code record ends in its only terminator.
DecodeCodeRecord(code) ==
    /\ code # <<>>
    /\ \A n \in DOMAIN code : /\ DecodeInstruction(code[n])
                              /\ code[n].op \in Terminators <=> n = Len(code)

-----------------------------------------------------------------------------
(* Costs                                                                   *)

\* The registers an instruction hands over whole.
Transferred(i) ==
    IF i.op \in Calls \cup {"Move", "Return", "CoroutineSpawn"} THEN i.args ELSE <<>>

\* What an operation costs by itself.
OperationCost(i) ==
    CASE i.op = "InlineConstruct" -> 2 + Len(i.args)
      [] i.op \in {"InlineComponent", "Mul", "Convert", "ArrayLength", "ArrayLoad",
                   "ArrayStore", "ArrayCopy", "Throw", "Yield"}
                  \cup FieldAccesses \cup StaticAccesses \cup Casts -> 2
      [] i.op \in {"Div", "Rem", "NewObject", "NewArray", "CoroutineJoin", "ChannelSend",
                   "ChannelReceive"} -> 4
      [] i.op \in {"ChannelCreate", "Sleep"} -> 3
      [] i.op = "CallDirect" -> 4 + Len(i.args)
      [] i.op \in {"CallVirtual", "CallSuspend", "CapabilityCallSync"} -> 5 + Len(i.args)
      [] i.op \in {"CallInterface", "CoroutineSpawn", "CapabilityCallAsync"} -> 6 + Len(i.args)
      [] i.op = "SwitchI32" -> Len(i.to)
      [] OTHER -> 1

\* An inline value that is handed over costs one more for every component
\* but the first.
FixedCost(m, fn, i) ==
    LET parts(r) == IF fn.regs[r].k = "inline"
                    THEN Len(TypeAt(ResolvedType(m, fn.regs[r].ty)).comps) - 1 ELSE 0
    IN  OperationCost(i) + FoldLeft(LAMBDA total, r : total + parts(r), 0, Transferred(i))

BlockCost(m, fn, block) ==
    FoldLeft(LAMBDA total, i : total + FixedCost(m, fn, i), 0, block.code)

-----------------------------------------------------------------------------
(* References                                                              *)

\* A reference to a type: a local one, or an import of a type.
TypeRef(module, r, absent) ==
    IF r = 0 THEN absent
    ELSE IF r > 0 THEN r \in DOMAIN module.types
    ELSE /\ -r \in DOMAIN module.imports
         /\ module.imports[-r].kind = "type"

\* The type of a value: only references and inline values name a type, and
\* only a reference may be null.
ValueType(value) ==
    /\ value.k \in {"ref", "inline"} <=> value.ty # 0
    /\ value.null => value.k = "ref"

ValueTypeRef(module, value) ==
    /\ ValueType(value)
    /\ value.k \in {"ref", "inline"} => TypeRef(module, value.ty, FALSE)

\* The number a reference is written as orders local ones before imports.
Ascending(refs) ==
    LET number(r) == IF r > 0 THEN <<0, r>> ELSE <<1, -r>>
        less(a, b) == a[1] < b[1] \/ (a[1] = b[1] /\ a[2] < b[2])
    IN  \A n \in 1 .. Len(refs) - 1 : less(number(refs[n]), number(refs[n + 1]))

\* No two records of a table have the same key.
Distinct(keys) ==
    \A a, b \in DOMAIN keys : keys[a] = keys[b] => a = b

-----------------------------------------------------------------------------
(* Tables                                                                  *)

\* What the record of a type may say.
ParseType(ty) ==
    CASE ty.k = "class" -> Ascending(ty.interfaces) /\ ty.role \in 0 .. 6
      [] ty.k = "interface" -> Ascending(ty.interfaces) /\ ty.fields = {}
      [] ty.k = "array" -> ty.storage \in 0 .. 6
      [] ty.k = "inline" -> /\ ty.comps # <<>>
                            /\ \A c \in ToSet(ty.comps) : c.k \notin {"unit", "inline"}
      [] ty.k = "function" -> TRUE

TypeInRange(module, ty) ==
    CASE ty.k \in {"class", "interface"} ->
           /\ TypeRef(module, ty.super, TRUE)
           /\ \A r \in ToSet(ty.interfaces) : TypeRef(module, r, FALSE)
      [] ty.k = "array" -> /\ ValueTypeRef(module, ty.elem)
                           /\ TypeRef(module, ty.super, TRUE)
      [] ty.k = "function" -> /\ ValueTypeRef(module, ty.result)
                              /\ \A p \in ToSet(ty.params) : ValueTypeRef(module, p)
      [] ty.k = "inline" -> \A c \in ToSet(ty.comps) : ValueTypeRef(module, c)

ImportsInRange(module) ==
    /\ \A i \in ToSet(module.imports) : /\ i.kind \in {"type", "function", "field"}
                                        /\ i.module \in Modules
                                        /\ TypeRef(module, i.signature, FALSE)
    /\ LET key(i) == <<i.module, i.kind, i.name, i.signature>>
       IN  Distinct([n \in DOMAIN module.imports |-> key(module.imports[n])])

ExportsInRange(module) ==
    LET table(kind) == CASE kind = "type" -> module.types
                         [] kind = "function" -> module.functions
                         [] kind = "field" -> module.fields
    IN  /\ \A e \in ToSet(module.exports) : /\ e.kind \in {"type", "function", "field"}
                                            /\ TypeRef(module, e.signature, FALSE)
                                            /\ e.symbol \in DOMAIN table(e.kind)
        /\ LET key(e) == <<e.kind, e.name, e.signature>>
           IN  Distinct([n \in DOMAIN module.exports |-> key(module.exports[n])])

FieldInRange(module, field) ==
    TypeRef(module, field.owner, FALSE) /\ ValueTypeRef(module, field.value)

\* Every register has a type and a physical component.
FunctionInRange(module, fn) ==
    /\ TypeRef(module, fn.owner, TRUE)
    /\ TypeRef(module, fn.sig, FALSE)
    /\ fn.params <= Len(fn.regs)
    /\ \A v \in ToSet(fn.regs) : ValueTypeRef(module, v)

HandlerInRange(module, fn, h) ==
    /\ {h.from, h.block} \subseteq DOMAIN fn.blocks
    /\ TypeRef(module, h.catch, TRUE)

ModuleTables(module) ==
    /\ \A ty \in ToSet(module.types) : ParseType(ty) /\ TypeInRange(module, ty)
    /\ ImportsInRange(module)
    /\ ExportsInRange(module)
    /\ \A f \in ToSet(module.fields) : FieldInRange(module, f)
    /\ \A fn \in ToSet(module.functions) :
          /\ FunctionInRange(module, fn)
          /\ \A block \in ToSet(fn.blocks) : DecodeCodeRecord(block.code)
          /\ \A h \in ToSet(fn.handlers) : HandlerInRange(module, fn, h)

\* The entry is a function of the only application module.
LocalTables ==
    /\ art.entry.module \in Modules
    /\ art.entry.function \in DOMAIN FunctionsOf(art.entry.module)
    /\ {m \in Modules : ~art.modules[m].library} = {art.entry.module}
    /\ \A m \in Modules : ModuleTables(art.modules[m])

DecodeArtifact == LocalTables
=============================================================================
