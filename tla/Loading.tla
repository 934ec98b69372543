------------------------------ MODULE Loading -------------------------------
(***************************************************************************)
(* From an artifact to its execution: what the verifier lets through is    *)
(* admitted as an execution image and run by the interpreter, one          *)
(* instruction, one caught exception or one unwound frame per step.        *)
(*                                                                         *)
(* The machine's values keep their kind and, for references, the object;   *)
(* a scalar is its kind alone, so a branch may go either way, an index may *)
(* be out of range and a divisor zero whenever one is read.  A register is *)
(* the sequence of its components: one for a scalar or a reference, those  *)
(* of the layout for an inline value; Unset is a component never written.  *)
(* Objects hold their fields at byte offsets; an array has one element.    *)
(* All strings are the one object StringObject.                            *)
(*                                                                         *)
(* One task runs.  Tasks, channels and capability calls, slices and costs, *)
(* allocation and collection have modules of their own.                    *)
(***************************************************************************)
EXTENDS Verifier

CONSTANTS
    \* objects the heap has room for
    MaxObjects

VARIABLES
    \* the stack of frames, the running one last
    frames,
    \* the objects, [ty, data]
    heap,
    \* the value of every static field
    statics,
    \* how far the initialization of every type has come
    inits,
    \* the exception in flight: [kind, ty, o]
    pending,
    \* how execution ended, "" while it runs
    outcome

machineVars == <<frames, heap, statics, inits, pending, outcome>>

Unset == [k |-> "unset", o |-> 0]
Null == [k |-> "ref", o |-> 0]
Ref(o) == [k |-> "ref", o |-> o]
Scalar(kind) == [k |-> kind, o |-> 0]
Zero(kind) == IF kind = "ref" THEN Null ELSE Scalar(kind)
StringObject == 1
NoException == [kind |-> "none", ty |-> NoKey, o |-> 0]

-----------------------------------------------------------------------------
(* Layouts                                                                 *)

AlignUp(value, alignment) == ((value + alignment - 1) \div alignment) * alignment

ValueWidth(kind) ==
    CASE kind = "bool" -> 1 [] kind = "char" -> 2
      [] kind \in {"i32", "f32", "ref"} -> 4 [] kind \in {"i64", "f64"} -> 8

\* The fields of a class at their offsets: the superclass first, then the own
\* instance fields, the widest first.
RECURSIVE ObjectLayout(_)
ObjectLayout(key) ==
    LET super == ResolveType(key[1], TypeAt(key).super)
        base == IF super = NoKey THEN [bytes |-> 0, offsets |-> <<>>]
                ELSE ObjectLayout(super)
        width(f) == ValueWidth(art.modules[key[1]].fields[f].value.k)
        own == SetToSortSeq({f \in TypeAt(key).fields : ~art.modules[key[1]].fields[f].static},
                   LAMBDA a, b : width(a) > width(b) \/ (width(a) = width(b) /\ a < b))
        add(layout, f) ==
            LET offset == AlignUp(layout.bytes, width(f))
                here == <<key[1], f>>
            IN  [bytes |-> offset + width(f),
                 offsets |-> [x \in DOMAIN layout.offsets \cup {here} |->
                                IF x = here THEN offset ELSE layout.offsets[x]]]
    IN  FoldLeft(add, base, own)

FieldOwner(field) == ResolveType(field[1], FieldAt(field).owner)
FieldOffset(field) == ObjectLayout(FieldOwner(field)).offsets[field]
FieldType(field) == ResolveValueType(field[1], FieldAt(field).value)

\* Everything an object of a class starts with is zero.
NewObjectOf(key) ==
    LET layout == ObjectLayout(key)
        at_(offset) == CHOOSE f \in DOMAIN layout.offsets : layout.offsets[f] = offset
    IN  [ty |-> key,
         data |-> [offset \in {layout.offsets[f] : f \in DOMAIN layout.offsets} |->
                     Zero(FieldAt(at_(offset)).value.k)]]

ElementOffset == 8

NewArrayOf(key) ==
    [ty |-> key, data |-> [offset \in {ElementOffset} |-> Zero(TypeAt(key).elem.k)]]

\* The kinds of the components a register is made of.
Atoms(m, value) ==
    IF value.k = "inline"
    THEN LET comps == TypeAt(ResolveType(m, value.ty)).comps
         IN  [n \in DOMAIN comps |-> comps[n].k]
    ELSE <<value.k>>

AtomWidth(kind) == IF kind \in {"i64", "f64"} THEN 8 ELSE 4

\* The bytes of a frame: every component aligned to its width.
FrameCharge(m, fn) ==
    LET atoms == FlattenSeq([r \in DOMAIN fn.regs |-> Atoms(m, fn.regs[r])])
        place(offset, kind) == AlignUp(offset, AtomWidth(kind)) + AtomWidth(kind)
    IN  AlignUp(FoldLeft(place, 0, atoms), 8)

-----------------------------------------------------------------------------
(* Admission                                                               *)

\* The largest frame, as often as calls may nest, fits the stack that the
\* artifact declares.
CheckProfile ==
    \A f \in FunctionKeys :
        ~FunctionAt(f).abstract => FrameCharge(f[1], FunctionAt(f)) * art.depth <= art.stack

StandardString ==
    LET found == CHOOSE x \in StringExports : TRUE
    IN  IF StringExports = {} THEN NoKey
        ELSE <<found[1], art.modules[found[1]].exports[found[2]].symbol>>

RuntimeExceptionType(role) ==
    IF RoleTypes(role) = {} THEN NoKey ELSE CHOOSE key \in RoleTypes(role) : TRUE

FieldOps == {"StaticGet", "StaticSet", "FieldGet", "FieldSet"}
TypeOps == {"NewObject", "NewArray", "IsType", "CheckedCast"}

\* Instructions that have nothing to resolve: on registers alone,
ScalarOps == {"Nop", "Move", "Const", "Null", "Convert", "Neg", "RefEqual", "RefNotEqual",
              "MathUnary", "MathBinary", "ValueHash", "InlineConstruct", "InlineComponent"}
             \cup Arithmetic \cup Comparisons

\* on strings,
TextOps == TextInstructions \ {"ValueHash"}

\* and on arrays.
ArrayOps == {"ArrayLength", "ArrayLoad", "ArrayStore", "ArrayCopy"}

\* A type or a field resolves once more,
ResolveMember(m, i) ==
    IF i.op \in TypeOps THEN ResolveType(m, i.ref) # NoKey
    ELSE ResolveFieldIndex(m, i.ref) # NoKey

\* and so does a function that is called or started.
ResolveCall(m, i) == ResolveImageFunction(m, i.ref) # NoKey

\* Instructions that wait, leave the block or the machine.  A join has no
\* result; yield and sleep are not executable.
ControlOps == {"CoroutineJoin", "ChannelCreate", "ChannelSend", "ChannelReceive", "Jump",
               "Branch", "SwitchI32", "Return", "Throw", "Unreachable"} \cup CapabilityCalls
ResolveControl(i) == i.op = "CoroutineJoin" => i.dst = 0

ResolveInstruction(m, i) ==
    \/ i.op \in ScalarOps \cup TextOps \cup ArrayOps
    \/ i.op \in TypeOps \cup FieldOps /\ ResolveMember(m, i)
    \/ i.op \in Calls \cup {"CoroutineSpawn"} /\ ResolveCall(m, i)
    \/ i.op \in ControlOps /\ ResolveControl(i)

\* Catches in the order they are tried: the innermost region first, those of
\* one region in the order of the table.
Handlers(fn) ==
    LET size(n) == fn.handlers[n].to - fn.handlers[n].from
        order == SetToSortSeq(DOMAIN fn.handlers,
                     LAMBDA a, b : size(a) < size(b) \/ (size(a) = size(b) /\ a < b))
    IN  [n \in DOMAIN order |-> fn.handlers[order[n]]]

Admissible ==
    /\ CheckProfile
    /\ Cardinality(StringExports) <= 1
    /\ \A f \in FieldKeys : FieldOwner(f) # NoKey
    /\ DispatchResolves
    /\ \A f \in FunctionKeys : \A i \in Code(FunctionAt(f)) : ResolveInstruction(f[1], i)

NewFrame(key, args, back, dst, init) ==
    LET fn == FunctionAt(key)
    IN  [fn |-> key, block |-> 1, at |-> 1, back |-> back, dst |-> dst, init |-> init,
         regs |-> [r \in DOMAIN fn.regs |->
                     IF r \in DOMAIN args THEN args[r]
                     ELSE [n \in DOMAIN Atoms(key[1], fn.regs[r]) |-> Unset]]]

NoReturn == <<0, 0>>

\* The heap's string, and for an entry that takes arguments their array.
Admit ==
    /\ phase = "admit"
    /\ phase' = IF Admissible THEN "run" ELSE "refused"
    /\ IF phase' = "run"
       THEN LET entry == FunctionAt(EntryKey)
                arguments == ResolveType(EntryKey[1], entry.regs[1].ty)
            IN  /\ heap' = <<[ty |-> StandardString, data |-> <<>>]>>
                             \o IF entry.params = 0 THEN <<>>
                                ELSE <<[NewArrayOf(arguments) EXCEPT
                                          !.data[ElementOffset] = Ref(StringObject)]>>
                /\ statics' = [f \in {f \in FieldKeys : FieldAt(f).static} |->
                                 Zero(FieldAt(f).value.k)]
                /\ inits' = [key \in TypeKeys |-> "no"]
                /\ frames' = <<NewFrame(EntryKey,
                                 IF entry.params = 0 THEN <<>> ELSE <<<<Ref(2)>>>>,
                                 NoReturn, 0, NoKey)>>
       ELSE UNCHANGED <<heap, statics, inits, frames>>
    /\ UNCHANGED <<art, at, states, queue, pending, outcome>>

-----------------------------------------------------------------------------
(* The interpreter                                                         *)

Top == Last(frames)
TopModule == Top.fn[1]
TopFunction == FunctionAt(Top.fn)
Instr == TopFunction.blocks[Top.block].code[Top.at]
Reg(r) == Top.regs[r]
Value(r) == Top.regs[r][1]
RegType(r) == ResolveValueType(TopModule, TopFunction.regs[r])

\* Is the value one of the type?
RuntimeValueMatches(value, expected) ==
    /\ value.k = expected.k
    /\ value.k = "ref" => IF value.o = 0 THEN expected.null
                          ELSE IsAssignable(heap[value.o].ty, expected.ty)

\* The function or the field the instruction names, as admission resolved it.
Target == ResolveImageFunction(TopModule, Instr.ref)
Field == ResolveFieldIndex(TopModule, Instr.ref)
Type == ResolveType(TopModule, Instr.ref)

\* The class of a static function.
StaticOwner(fn) ==
    IF /\ FunctionAt(fn).static
       /\ OwnerOf(fn) # NoKey
       /\ TypeAt(OwnerOf(fn)).k = "class"
    THEN OwnerOf(fn) ELSE NoKey

\* The class that the instruction makes active.
ActiveType ==
    CASE Instr.op \in StaticAccesses -> FieldOwner(Field)
      [] Instr.op = "NewObject" -> Type
      [] Instr.op = "CallDirect" -> StaticOwner(Target)
      [] OTHER -> NoKey

\* Mutant: a class is initialized without its superclass.
InitializationAlone(key, known) ==
    IF known[key] # "no"
    THEN [inits |-> known, run |-> NoKey, failed |-> known[key] = "failed"]
    ELSE IF TypeAt(key).init = 0
    THEN [inits |-> [known EXCEPT ![key] = "done"], run |-> NoKey, failed |-> FALSE]
    ELSE [inits |-> known, run |-> key, failed |-> FALSE]

\* ensure_type_initialized: superclasses first; a class without an initializer
\* is done at once, the first one with an initializer has to run it.
RECURSIVE Initialization(_, _)
Initialization(key, known) ==
    LET super == ResolveType(key[1], TypeAt(key).super)
        above == IF super = NoKey THEN [inits |-> known, run |-> NoKey, failed |-> FALSE]
                 ELSE Initialization(super, known)
    IN  CASE known[key] # "no" ->
               [inits |-> known, run |-> NoKey, failed |-> known[key] = "failed"]
          [] known[key] = "no" /\ (above.failed \/ above.run # NoKey) -> above
          [] OTHER -> IF TypeAt(key).init = 0
                      THEN [above EXCEPT !.inits[key] = "done"]
                      ELSE [above EXCEPT !.run = key]

ActivationOf(key) ==
    IF key = NoKey THEN [inits |-> inits, run |-> NoKey, failed |-> FALSE]
    ELSE Initialization(key, inits)
Activation == ActivationOf(ActiveType)

Running == phase = "run" /\ outcome = "" /\ pending = NoException

\* An initializer has to run before the instruction, or did and failed.
InitializeType ==
    /\ Running
    /\ \E activation \in {Activation} :
       LET key == activation.run
           deep == Len(frames) >= art.depth
       IN  IF activation.failed
           THEN outcome' = "failed type" /\ UNCHANGED <<frames, inits>>
           ELSE /\ key # NoKey
                /\ inits' = [activation.inits EXCEPT ![key] =
                               IF deep THEN "failed" ELSE "running"]
                /\ IF deep THEN outcome' = "overflow" /\ UNCHANGED frames
                   ELSE /\ frames' = Append(frames,
                               NewFrame(<<key[1], TypeAt(key).init>>, <<>>,
                                        <<Top.block, Top.at>>, 0, key))
                        /\ UNCHANGED outcome
    /\ UNCHANGED <<art, verifierVars, heap, statics, pending>>

\* The instruction is one of ops, and its class is active.
Executes(ops) ==
    /\ Running
    /\ Instr.op \in ops
    /\ \E activation \in {Activation} :
          /\ activation.run = NoKey /\ ~activation.failed
          /\ inits' = activation.inits
    /\ UNCHANGED <<art, verifierVars>>

\* What an instruction comes to: the next instruction with register r
\* written, a runtime exception, or the end of the machine.
Write(r, components) ==
    LET kinds == Atoms(TopModule, TopFunction.regs[r])
        fits == /\ Len(components) = Len(kinds)
                /\ \A n \in DOMAIN kinds : components[n].k = kinds[n]
    IN  IF r # 0 /\ ~fits
        THEN outcome' = "fault" /\ UNCHANGED <<frames, pending>>
        ELSE /\ frames' = [frames EXCEPT ![Len(frames)] =
                             [@ EXCEPT !.at = @ + 1,
                                       !.regs = IF r = 0 THEN @
                                                ELSE [@ EXCEPT ![r] = components]]]
             /\ UNCHANGED <<pending, outcome>>

Proceed == Write(0, <<>>)

Fault == outcome' = "fault" /\ UNCHANGED <<frames, pending>>

\* A trap raises the exception of its role, if the image has one.
Trap(role) ==
    IF RuntimeExceptionType(role) = NoKey THEN Fault
    ELSE /\ pending' = [kind |-> "raise", ty |-> RuntimeExceptionType(role), o |-> 0]
         /\ UNCHANGED <<frames, outcome>>

Exhausted == outcome' = "exhausted" /\ UNCHANGED <<frames, pending>>

\* Where a call goes: to the target, or to what the table holds for the type
\* of the receiver; NoKey when it holds nothing.
DispatchTarget(actual, declaration) ==
    IF HasDispatchEntry(actual, declaration) THEN DispatchEntry(actual, declaration)
    ELSE NoKey

Callee ==
    IF Instr.op \in {"CallDirect", "CallSuspend"} THEN Target
    ELSE DispatchTarget(heap[Value(Instr.args[1]).o].ty, Target)

Enter(callee, args, back) ==
    IF callee = NoKey \/ FunctionAt(callee).params # Len(args) THEN Fault
    ELSE IF Len(frames) >= art.depth
    THEN outcome' = "overflow" /\ UNCHANGED <<frames, pending>>
    ELSE /\ frames' = Append(frames, NewFrame(callee, args, back, Instr.dst, NoKey))
         /\ UNCHANGED <<pending, outcome>>

CallFunction ==
    /\ Executes(Calls)
    /\ LET virtual == Instr.op \in {"CallVirtual", "CallInterface"}
           receiver == Value(Instr.args[1])
           back == IF Instr.op = "CallSuspend" THEN <<Instr.to[1], 1>>
                   ELSE <<Top.block, Top.at + 1>>
       IN  CASE virtual /\ receiver.k = "ref" /\ receiver.o = 0 -> Trap(4)
             [] virtual /\ receiver.k # "ref" -> Fault
             [] OTHER -> Enter(Callee, [n \in DOMAIN Instr.args |-> Reg(Instr.args[n])], back)
    /\ UNCHANGED <<heap, statics>>

\* Back in the caller, the result is in its register and an initialized class
\* is so.
Return ==
    /\ Running
    /\ Instr.op = "Return"
    /\ LET caller == frames[Len(frames) - 1]
           result == Reg(Instr.args[1])
           regs == IF Instr.args = <<>> THEN caller.regs
                   ELSE [caller.regs EXCEPT ![Top.dst] = result]
       IN  CASE Len(frames) = 1 ->
                  outcome' = "halted" /\ UNCHANGED <<frames, inits>>
             [] Len(frames) > 1 /\ (Top.dst = 0) # (Instr.args = <<>>) ->
                  outcome' = "fault" /\ UNCHANGED <<frames, inits>>
             [] OTHER ->
                  /\ frames' = Append(SubSeq(frames, 1, Len(frames) - 2),
                                 [caller EXCEPT !.block = Top.back[1], !.at = Top.back[2],
                                                !.regs = regs])
                  /\ inits' = IF Top.init = NoKey THEN inits
                              ELSE [inits EXCEPT ![Top.init] = "done"]
                  /\ UNCHANGED outcome
    /\ UNCHANGED <<art, verifierVars, heap, statics, pending>>

\* Has an operand the kind that the machine reads it as?
IsKind(r, kind) == Value(r).k = kind

Jump ==
    /\ Executes({"Jump", "Branch", "SwitchI32"})
    /\ IF \/ Instr.op = "Branch" /\ ~IsKind(Instr.args[1], "bool")
          \/ Instr.op = "SwitchI32" /\ ~IsKind(Instr.args[1], "i32")
       THEN Fault
       ELSE /\ \E target \in ToSet(Instr.to) :
                 frames' = [frames EXCEPT ![Len(frames)] = [@ EXCEPT !.block = target, !.at = 1]]
            /\ UNCHANGED <<pending, outcome>>
    /\ UNCHANGED <<heap, statics>>

Allocate(object) ==
    IF Len(heap) = MaxObjects THEN Exhausted /\ UNCHANGED heap
    ELSE heap' = Append(heap, object) /\ Write(Instr.dst, <<Ref(Len(heap) + 1)>>)

NewObject ==
    /\ Executes({"NewObject"})
    /\ Allocate(NewObjectOf(Type))
    /\ UNCHANGED statics

\* The length may be negative.
NewArray ==
    /\ Executes({"NewArray"})
    /\ IF ~IsKind(Instr.args[1], "i32") \/ TypeAt(Type).k # "array"
       THEN Fault /\ UNCHANGED heap
       ELSE \/ Allocate(NewArrayOf(Type))
            \/ Trap(3) /\ UNCHANGED heap
    /\ UNCHANGED statics

StaticGet ==
    /\ Executes({"StaticGet"})
    /\ IF statics[Field] = Null /\ ~FieldType(Field).null THEN Trap(4)
       ELSE Write(Instr.dst, <<statics[Field]>>)
    /\ UNCHANGED <<heap, statics>>

StaticSet ==
    /\ Executes({"StaticSet"})
    /\ statics' = [statics EXCEPT ![Field] = Value(Instr.args[1])]
    /\ Proceed
    /\ UNCHANGED heap

FieldGet ==
    /\ Executes({"FieldGet"})
    /\ LET receiver == Value(Instr.args[1])
           value == heap[receiver.o].data[FieldOffset(Field)]
       IN  IF receiver = Null THEN Trap(4)
           ELSE IF receiver.k # "ref" \/ ~IsAssignable(heap[receiver.o].ty, FieldOwner(Field))
           THEN Fault
           ELSE IF value = Null /\ ~FieldType(Field).null THEN Trap(4)
           ELSE Write(Instr.dst, <<value>>)
    /\ UNCHANGED <<heap, statics>>

FieldSet ==
    /\ Executes({"FieldSet"})
    /\ LET receiver == Value(Instr.args[1])
           value == Value(Instr.args[2])
       IN  IF receiver = Null THEN Trap(4) /\ UNCHANGED heap
           ELSE IF \/ receiver.k # "ref"
                   \/ ~IsAssignable(heap[receiver.o].ty, FieldOwner(Field))
                   \/ ~RuntimeValueMatches(value, FieldType(Field))
           THEN Fault /\ UNCHANGED heap
           ELSE /\ heap' = [heap EXCEPT ![receiver.o].data[FieldOffset(Field)] = value]
                /\ Proceed
    /\ UNCHANGED statics

IsType ==
    /\ Executes({"IsType"})
    /\ IF Value(Instr.args[1]).k # "ref" THEN Fault ELSE Write(Instr.dst, <<Scalar("bool")>>)
    /\ UNCHANGED <<heap, statics>>

CheckedCast ==
    /\ Executes({"CheckedCast"})
    /\ LET value == Value(Instr.args[1])
       IN  IF value.k # "ref" THEN Fault
           ELSE IF value = Null /\ ~RegType(Instr.dst).null THEN Trap(4)
           ELSE IF value # Null /\ ~IsAssignable(heap[value.o].ty, Type) THEN Trap(5)
           ELSE Write(Instr.dst, <<value>>)
    /\ UNCHANGED <<heap, statics>>

\* The object is an array; otherwise a trap or a fault.
OnArray(value, then) ==
    IF value = Null THEN Trap(4) /\ UNCHANGED heap
    ELSE IF value.k # "ref" \/ TypeAt(heap[value.o].ty).k # "array"
    THEN Fault /\ UNCHANGED heap
    ELSE then

ElementType(o) == ResolveValueType(heap[o].ty[1], TypeAt(heap[o].ty).elem)

ArrayAccess ==
    /\ Executes({"ArrayLength", "ArrayLoad", "ArrayStore"})
    /\ LET array == Value(Instr.args[1])
           element == heap[array.o].data[ElementOffset]
           value == Value(Instr.args[3])
       IN  OnArray(array,
             \/ /\ Instr.op = "ArrayLength"
                /\ Write(Instr.dst, <<Scalar("i32")>>) /\ UNCHANGED heap
             \/ /\ Instr.op = "ArrayLoad"
                /\ \/ IF IsKind(Instr.args[2], "i32") THEN Trap(2) ELSE Fault
                   \/ IF ~IsKind(Instr.args[2], "i32") THEN Fault
                      ELSE IF element = Null /\ ~RegType(Instr.dst).null THEN Trap(4)
                      ELSE Write(Instr.dst, <<element>>)
                /\ UNCHANGED heap
             \/ /\ Instr.op = "ArrayStore"
                /\ IF \/ ~IsKind(Instr.args[2], "i32")
                      \/ ~RuntimeValueMatches(value, ElementType(array.o))
                   THEN Fault /\ UNCHANGED heap
                   ELSE \/ Trap(2) /\ UNCHANGED heap
                        \/ /\ heap' = [heap EXCEPT ![array.o].data[ElementOffset] = value]
                           /\ Proceed)
    /\ UNCHANGED statics

\* The ranges may be out of bounds; otherwise the element may be among those
\* copied, or not.
ArrayCopy ==
    /\ Executes({"ArrayCopy"})
    /\ LET source == Value(Instr.args[1])
           destination == Value(Instr.args[2])
           from == ElementType(source.o)
           to == ElementType(destination.o)
           assignable == /\ from.k = to.k
                         /\ from.null => to.null
                         /\ from.k = "ref" => IsAssignable(from.ty, to.ty)
       IN  OnArray(source, OnArray(destination,
             IF \/ \E n \in 3 .. 5 : ~IsKind(Instr.args[n], "i32")
                \/ ~assignable THEN Fault /\ UNCHANGED heap
             ELSE \/ Trap(2) /\ UNCHANGED heap
                  \/ Proceed /\ UNCHANGED heap
                  \/ /\ heap' = [heap EXCEPT ![destination.o].data[ElementOffset] =
                                   heap[source.o].data[ElementOffset]]
                     /\ Proceed))
    /\ UNCHANGED statics

\* How many operands are strings; the others are bounds or an index, or the
\* value to convert.
StringOperands ==
    CASE Instr.op \in {"StringEquals", "StringCompare", "StringConcat"} -> 2
      [] Instr.op = "StringValueOf" -> 0
      [] OTHER -> 1

TextResult ==
    CASE Instr.op \in {"StringLength", "StringCompare", "StringHash"} -> Scalar("i32")
      [] Instr.op = "StringEquals" -> Scalar("bool")
      [] Instr.op = "StringGet" -> Scalar("char")
      [] OTHER -> Ref(StringObject)

\* Strings read must be strings, an index may be out of range.
Text ==
    /\ Executes(TextOps)
    /\ LET strings == {Value(Instr.args[n]) : n \in 1 .. StringOperands}
           others == {Value(Instr.args[n]) : n \in StringOperands + 1 .. Len(Instr.args)}
           kind == IF Instr.op = "StringValueOf" THEN NumericFormKind(Instr.form) ELSE "i32"
           isText(s) == IF Instr.op = "StringFromCharArray"
                        THEN /\ TypeAt(heap[s.o].ty).k = "array"
                             /\ TypeAt(heap[s.o].ty).elem.k = "char"
                        ELSE heap[s.o].ty = StandardString
       IN  IF \/ \E v \in strings : v.k # "ref"
              \/ \E v \in others : v.k # kind
              \/ \E s \in strings \ {Null} : ~isText(s)
           THEN Fault
           ELSE IF Null \in strings THEN Trap(4)
           ELSE \/ /\ Instr.op \in {"StringGet", "StringSubstring", "StringFromCharArray"}
                   /\ Trap(2)
                \/ Write(Instr.dst, <<TextResult>>)
    /\ UNCHANGED <<heap, statics>>

Inline ==
    /\ Executes({"InlineConstruct", "InlineComponent"})
    /\ Write(Instr.dst,
             IF Instr.op = "InlineConstruct"
             THEN [n \in DOMAIN Instr.args |-> Value(Instr.args[n])]
             ELSE <<Reg(Instr.args[1])[Instr.n]>>)
    /\ UNCHANGED <<heap, statics>>

\* The constant of a form, and the result of arithmetic on it.
Constant(form) ==
    CASE form = "string" -> Ref(StringObject)
      [] form = "null" -> Null
      [] OTHER -> Scalar(NumericFormKind(form))

Assign ==
    /\ Executes({"Nop", "Move", "Const", "Null"})
    /\ CASE Instr.op = "Nop" -> Proceed
         [] Instr.op = "Move" -> Write(Instr.dst, Reg(Instr.args[1]))
         [] Instr.op = "Const" -> Write(Instr.dst, <<Constant(Instr.form)>>)
         [] Instr.op = "Null" -> Write(Instr.dst, <<Null>>)
    /\ UNCHANGED <<heap, statics>>

\* An operation on operands of these kinds faults on any other.
Operate(kinds, result) ==
    IF \A n \in DOMAIN Instr.args : IsKind(Instr.args[n], kinds[n])
    THEN Write(Instr.dst, <<Scalar(result)>>)
    ELSE Fault

Mathematics ==
    /\ Executes({"MathUnary", "MathBinary"})
    /\ Operate(<<Instr.form, Instr.form>>, Instr.form)
    /\ UNCHANGED <<heap, statics>>

\* Numbers convert to each other, and i32 to and from char.
Convertible(from, to) ==
    \/ from \in Numeric /\ to \in Numeric
    \/ <<from, to>> \in {<<"i32", "char">>, <<"char", "i32">>}

Convert ==
    /\ Executes({"Convert"})
    /\ LET to == RegType(Instr.dst).k
       IN  IF Convertible(Value(Instr.args[1]).k, to) THEN Write(Instr.dst, <<Scalar(to)>>)
           ELSE Fault
    /\ UNCHANGED <<heap, statics>>

\* The forms that the machine computes.
Computable ==
    CASE Instr.op \in {"Add", "Sub", "Mul", "Div", "Rem"} ->
           Instr.form \in {"i32", "i64", "u32", "u64", "f32", "f64"}
      [] Instr.op = "Neg" -> Instr.form \in {"i32", "i64", "f32", "f64"}
      [] OTHER -> Instr.form \in {"i32", "i64"}

\* An integer divisor may be zero; a shift takes its distance as an i32.
Calculate ==
    /\ Executes(Arithmetic \cup {"Neg"})
    /\ LET kind == NumericFormKind(Instr.form)
           kinds == <<kind, IF Instr.op \in Shifts THEN "i32" ELSE kind>>
       IN  \/ IF Computable THEN Operate(kinds, kind) ELSE Fault
           \/ /\ Instr.op \in {"Div", "Rem"} /\ kind \in {"i32", "i64"}
              /\ \A n \in DOMAIN Instr.args : IsKind(Instr.args[n], kinds[n])
              /\ Trap(1)
    /\ UNCHANGED <<heap, statics>>

\* Booleans are equal or not, and have no order.
Compare ==
    /\ Executes(Comparisons)
    /\ LET kind == NumericFormKind(Instr.form)
       IN  IF kind = "bool" /\ Instr.op \notin {"Equal", "NotEqual"} THEN Fault
           ELSE Operate(<<kind, kind>>, "bool")
    /\ UNCHANGED <<heap, statics>>

Identify ==
    /\ Executes({"RefEqual", "RefNotEqual"})
    /\ Write(Instr.dst, <<Scalar("bool")>>)
    /\ UNCHANGED <<heap, statics>>

ValueHash ==
    /\ Executes({"ValueHash"})
    /\ Operate(<<NumericFormKind(Instr.form)>>, "i32")
    /\ UNCHANGED <<heap, statics>>

\* Where this module's machine stops: the other instructions.
OtherOps == {"Unreachable", "CoroutineSpawn", "CoroutineJoin", "ChannelCreate",
             "ChannelSend", "ChannelReceive"} \cup CapabilityCalls

Stop ==
    /\ Executes(OtherOps)
    /\ outcome' = IF Instr.op = "Unreachable" THEN "unreachable" ELSE "suspended"
    /\ UNCHANGED <<frames, heap, statics, pending>>

-----------------------------------------------------------------------------
(* Exceptions                                                              *)

Throw ==
    /\ Executes({"Throw"})
    /\ LET value == Value(Instr.args[1])
       IN  IF value.k # "ref" \/ value = Null THEN Fault
           ELSE /\ pending' = [kind |-> "throw", ty |-> heap[value.o].ty, o |-> value.o]
                /\ UNCHANGED <<frames, outcome>>
    /\ UNCHANGED <<heap, statics>>

MessageOffset == 0

\* The exception of a trap is allocated and its message stored.
RaiseException ==
    /\ phase = "run" /\ outcome = ""
    /\ pending.kind = "raise"
    /\ IF Len(heap) = MaxObjects
       THEN outcome' = "exhausted" /\ UNCHANGED <<heap, pending>>
       ELSE /\ heap' = Append(heap, [NewObjectOf(pending.ty) EXCEPT
                                       !.data[MessageOffset] = Ref(StringObject)])
            /\ pending' = [kind |-> "throw", ty |-> pending.ty, o |-> Len(heap) + 1]
            /\ UNCHANGED outcome
    /\ UNCHANGED <<art, verifierVars, frames, statics, inits>>

\* The first handler around the block that catches the exception takes it;
\* without one the frame is left, and the caller stands at its call.
Unwind ==
    /\ phase = "run" /\ outcome = ""
    /\ pending.kind = "throw"
    /\ LET table == Handlers(TopFunction)
           n == SelectInSeq(table, LAMBDA h :
                    /\ h.from <= Top.block /\ Top.block < h.to
                    /\ h.catch # 0 => IsAssignable(pending.ty, ResolveType(TopModule, h.catch)))
       IN  IF n # 0
           THEN /\ frames' = [frames EXCEPT ![Len(frames)] =
                                [@ EXCEPT !.block = table[n].block, !.at = 1,
                                          !.regs[table[n].reg] = <<Ref(pending.o)>>]]
                /\ pending' = NoException
                /\ UNCHANGED <<inits, outcome>>
           ELSE /\ frames' = Front(frames)
                /\ inits' = IF Top.init = NoKey THEN inits
                            ELSE [inits EXCEPT ![Top.init] = "failed"]
                /\ outcome' = IF Len(frames) = 1 THEN "uncaught" ELSE ""
                /\ UNCHANGED pending
    /\ UNCHANGED <<art, verifierVars, heap, statics>>

-----------------------------------------------------------------------------
Init ==
    /\ VerifierInit
    /\ frames = <<>>
    /\ heap = <<>>
    /\ statics = <<>>
    /\ inits = <<>>
    /\ pending = NoException
    /\ outcome = ""

Execute ==
    \/ InitializeType \/ CallFunction \/ Return \/ Jump
    \/ NewObject \/ NewArray \/ StaticGet \/ StaticSet \/ FieldGet \/ FieldSet
    \/ IsType \/ CheckedCast \/ ArrayAccess \/ ArrayCopy \/ Text \/ Inline
    \/ Assign \/ Mathematics \/ Convert \/ Calculate \/ Compare \/ Identify \/ ValueHash
    \/ Stop \/ Throw \/ RaiseException \/ Unwind

Next ==
    \/ VerifierNext /\ UNCHANGED machineVars
    \/ Admit
    \/ Execute

vars == <<art, verifierVars, machineVars>>

Spec == Init /\ [][Next]_vars
=============================================================================
