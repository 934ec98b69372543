----------------------------- MODULE MCLoading ------------------------------
(***************************************************************************)
(* A family of artifacts of two modules.  Module 2 is a library: Any,      *)
(* String, Throwable and the exceptions of traps, an interface Shape, a    *)
(* class A that implements it, its subclass B, an array and an inline      *)
(* type.  Module 1 is a program whose main has a protected part, a         *)
(* handler, a join and, in half of the family, a loop; what stands in each *)
(* place is chosen from a pool, most of it right only in some contexts.    *)
(***************************************************************************)
EXTENDS Loading

-----------------------------------------------------------------------------
(* Records                                                                 *)

V(k) == [k |-> k, null |-> FALSE, ty |-> 0]
R(ty) == Reference(ty, FALSE)
N(ty) == Reference(ty, TRUE)

Blank == [k |-> "class", name |-> "", abstract |-> FALSE, final |-> FALSE, super |-> 0,
          interfaces |-> <<>>, fields |-> {}, methods |-> {}, init |-> 0, root |-> FALSE,
          role |-> 0, elem |-> V("i32"), storage |-> 0, suspend |-> FALSE,
          result |-> V("unit"), params |-> <<>>, comps |-> <<>>]
ClassNamed(name, super) == [Blank EXCEPT !.name = name, !.super = super]
FunctionType(params, result) ==
    [Blank EXCEPT !.k = "function", !.params = params, !.result = result]

I(op, dst, args) ==
    [op |-> op, form |-> "i32", dst |-> dst, args |-> args, ref |-> 0, n |-> 0, to |-> <<>>]
With(i, ref) == [i EXCEPT !.ref = ref]
Form(i, form) == [i EXCEPT !.form = form]
To(op, args, to) == [I(op, 0, args) EXCEPT !.to = to]
Block(code) ==
    [code |-> code, header |-> FALSE,
     cost |-> FoldLeft(LAMBDA total, i : total + OperationCost(i), 0, code)]

FunctionOf(name, owner, sig, params, regs, blocks) ==
    [name |-> name, owner |-> owner, suspend |-> FALSE, static |-> FALSE, virtual |-> FALSE,
     abstract |-> FALSE, sig |-> sig, params |-> params, regs |-> regs, blocks |-> blocks,
     handlers |-> <<>>]
FieldOf(name, owner, value) ==
    [name |-> name, owner |-> owner, mutable |-> TRUE, static |-> FALSE, value |-> value]

-----------------------------------------------------------------------------
(* The library                                                             *)

LibTypes(variant) ==
  << ClassNamed("Any", 0),
     [ClassNamed(StringName, 1) EXCEPT !.final = TRUE],
     [ClassNamed("Throwable", 1) EXCEPT !.root = TRUE, !.fields = {1, 2}],
     [ClassNamed("Null", 3) EXCEPT !.role = 4],
     [ClassNamed("Cast", 3) EXCEPT !.role = IF variant = "no cast role" THEN 6 ELSE 5],
     [ClassNamed("Index", 3) EXCEPT !.role = 2],
     [ClassNamed("Size", 3) EXCEPT !.role = 3],
     [ClassNamed("Division", 3) EXCEPT !.role = 1],
     [ClassNamed("Shape", 0) EXCEPT !.k = "interface", !.methods = {1}],
     [ClassNamed("A", 1) EXCEPT !.interfaces = <<9>>, !.fields = {3, 4, 5},
            !.methods = {2}, !.init = 4, !.abstract = variant = "abstract A"],
     [ClassNamed("B", 10) EXCEPT !.fields = {6}, !.methods = {3}],
     [Blank EXCEPT !.k = "array", !.super = 1, !.elem = R(10)],
     FunctionType(<<R(9)>>, N(1)),
     FunctionType(<<R(10)>>, N(10)),
     FunctionType(<<R(11)>>, N(11)),
     FunctionType(<<>>, V("unit")),
     FunctionType(<<>>, N(10)),
     [Blank EXCEPT !.k = "inline", !.comps = <<N(10), V("i64")>>] >>

LibFields ==
  << FieldOf("message", 3, N(2)), FieldOf("cause", 3, N(3)),
     FieldOf("f", 10, N(10)),
     [FieldOf("s", 10, R(10)) EXCEPT !.static = TRUE],
     FieldOf("g", 10, R(2)),
     FieldOf("b", 11, V("i64")) >>

LibFunctions(variant) ==
  << [FunctionOf("m", 9, 13, 1, <<R(9)>>, <<>>) EXCEPT !.virtual = TRUE, !.abstract = TRUE],
     [FunctionOf(IF variant = "no method" THEN "n" ELSE "m", 10, 14, 1, <<R(10), N(10)>>,
        << Block(<<With(I("FieldGet", 2, <<1>>), 3), I("Return", 0, <<2>>)>>) >>)
        EXCEPT !.virtual = TRUE],
     [FunctionOf("m", 11, 15, 1, <<R(11)>>,
        << [Block(<<I("Return", 0, <<1>>)>>) EXCEPT !.cost = IF variant = "wrong cost" THEN 2 ELSE @] >>)
        EXCEPT !.virtual = TRUE],
     [FunctionOf("init", 10, 16, 0, <<R(10), N(10)>>,
        << Block(IF variant = "throwing init"
                 THEN <<I("Null", 2, <<>>), With(I("CheckedCast", 1, <<2>>), 10),
                        I("Return", 0, <<>>)>>
                 ELSE <<With(I("NewObject", 1, <<>>),
                             IF variant = "abstract A" THEN 11 ELSE 10),
                        With(I("StaticSet", 0, <<1>>), 4), I("Return", 0, <<>>)>>) >>)
        EXCEPT !.static = TRUE],
     [FunctionOf("make", 10, 17, 0, <<R(10)>>,
        << Block(<<With(I("StaticGet", 1, <<>>), 4), I("Return", 0, <<1>>)>>) >>)
        EXCEPT !.static = TRUE] >>

Export(kind, name, symbol, signature) ==
    [kind |-> kind, name |-> name, symbol |-> symbol, signature |-> signature, public |-> TRUE]

LibExports ==
  [t \in 1 .. 12 |->
     Export("type", IF t = 12 THEN "Array" ELSE LibTypes("")[t].name, t, t)]
  \o << Export("type", "Pair", 18, 18),
        Export("function", "m", 3, 15), Export("function", "m", 2, 14),
        Export("function", "m", 1, 13), Export("function", "make", 5, 17),
        Export("field", "f", 3, 10), Export("field", "s", 4, 10), Export("field", "g", 5, 2) >>

Library(variant) ==
    [types |-> LibTypes(variant), functions |-> LibFunctions(variant), fields |-> LibFields,
     imports |-> <<>>, exports |-> LibExports, library |-> TRUE, hash |-> "lib",
     content |-> IF variant = "changed" THEN "other" ELSE "lib"]

-----------------------------------------------------------------------------
(* The program                                                             *)

Import(kind, name, signature) ==
    [module |-> 2, kind |-> kind, name |-> name, signature |-> signature, hash |-> "lib"]
ImportType(name, id) == Import("type", name, -id)

AppImports ==
  << ImportType("Any", 1), ImportType(StringName, 2), ImportType("Throwable", 3),
     ImportType("Shape", 4), ImportType("A", 5), ImportType("B", 6), ImportType("Array", 7),
     ImportType("Pair", 8), ImportType("Null", 9),
     Import("function", "m", 2), Import("function", "m", 3), Import("function", "make", 4),
     Import("field", "f", -5), Import("field", "s", -5), Import("field", "g", -2) >>

AppTypes ==
  << FunctionType(<<>>, V("unit")), FunctionType(<<R(-5)>>, N(-5)),
     FunctionType(<<R(-4)>>, N(-1)), FunctionType(<<>>, N(-5)) >>

\* 1 A?  2 A  3 bool  4 Any?  5 B?  6 Array  7 i32  8 Throwable  9 Null
\* 10 Pair  11 String  12 i64  13 char  14 f64
Registers ==
  << N(-5), R(-5), V("bool"), N(-1), N(-6), R(-7), V("i32"), R(-3), R(-9),
     [k |-> "inline", null |-> FALSE, ty |-> -8], R(-2), V("i64"), V("char"),
     V("f64") >>

Entry ==
  << With(I("NewObject", 2, <<>>), -6), With(I("NewObject", 2, <<>>), -5), I("Null", 1, <<>>),
     Form(I("Const", 11, <<>>), "string") >>

Body ==
  << With(I("FieldGet", 1, <<2>>), -13), With(I("StaticGet", 2, <<>>), -14),
     I("Null", 1, <<>>), With(I("CallDirect", 1, <<>>), -12),
     With(I("CheckedCast", 2, <<1>>), -5), With(I("FieldSet", 0, <<2, 2>>), -13),
     With(I("CallVirtual", 1, <<2>>), -10), Form(I("Const", 12, <<>>), "i64"),
     Form(I("Const", 14, <<>>), "f64") >>

Protected ==
  << With(I("NewArray", 6, <<7>>), -7), With(I("CheckedCast", 5, <<2>>), -6),
     With(I("FieldGet", 11, <<2>>), -15), With(I("CallInterface", 4, <<2>>), -11),
     With(I("StaticSet", 0, <<2>>), -14), I("InlineConstruct", 10, <<1, 12>>),
     I("Div", 7, <<7, 7>>), With(I("StaticGet", 2, <<>>), -14) >>

Join ==
  << With(I("CallVirtual", 1, <<2>>), -10), I("ArrayStore", 0, <<6, 7, 2>>),
     I("ArrayLoad", 2, <<6, 7>>), I("Move", 1, <<5>>), I("Nop", 0, <<>>),
     [I("InlineComponent", 1, <<10>>) EXCEPT !.n = 1],
     With(I("IsType", 3, <<5>>), -6), I("StringLength", 7, <<11>>) >>

\* How the join ends: back to the protected block, or with the program.
Ends ==
  << I("Return", 0, <<>>), To("Branch", <<3>>, <<2, 6>>), I("Unreachable", 0, <<>>),
     To("SwitchI32", <<7>>, <<6, 2>>) >>

\* After the first instruction of the protected block.
Use ==
  << I("Nop", 0, <<>>), I("ArrayStore", 0, <<6, 7, 2>>), I("ArrayLoad", 2, <<6, 7>>),
     I("ArrayCopy", 0, <<6, 6, 7, 7, 7>>), [I("InlineComponent", 1, <<10>>) EXCEPT !.n = 1],
     With(I("IsType", 3, <<5>>), -6), I("StringGet", 13, <<11, 7>>),
     I("RefEqual", 3, <<1, 2>>), I("Convert", 12, <<7>>), I("Less", 3, <<7, 7>>),
     With(I("CallVirtual", 1, <<2>>), -10), Form(I("MathUnary", 14, <<14>>), "f64"),
     Form(I("ValueHash", 7, <<12>>), "i64"), I("Neg", 7, <<7>>),
     Form(I("BitAnd", 7, <<7, 7>>), "u32"), With(I("IsType", 0, <<5>>), -6) >>

Rescue ==
  << I("Nop", 0, <<>>), With(I("NewObject", 2, <<>>), -5), I("Null", 5, <<>>),
     I("Throw", 0, <<8>>), With(I("IsType", 3, <<5>>), -6) >>

Handler(from, to, catch, reg) ==
    [from |-> from, to |-> to, catch |-> catch, reg |-> reg, block |-> 3]

Tables ==
  << << Handler(2, 3, 0, 8) >>,
     << Handler(1, 3, 0, 8), Handler(2, 3, -9, 9) >>,
     << Handler(2, 3, -9, 9) >>,
     << Handler(1, 3, 0, 8), Handler(2, 4, 0, 8) >>,
     << Handler(1, 3, 0, 2) >>,
     << Handler(2, 3, -16, 9) >> >>

\* The blocks of main: entry, protected, handler, landing, join, and with a loop
\* the end, which the protected block may also leave for.  Without a loop, or when
\* the handler throws on, the entry may go straight to the landing.
Main(c) ==
    LET loop == Ends[c[7]].to # <<>>
        rescue == Rescue[c[5]]
        direct == ~loop \/ rescue.op = "Throw"
    IN  [FunctionOf("main", 0, 1, 0, Registers,
          << Block(<<Entry[c[1]], Form(I("Const", 3, <<>>), "bool"), I("Const", 7, <<>>), Body[c[2]],
                     IF direct THEN To("Branch", <<3>>, <<2, 4>>) ELSE To("Jump", <<>>, <<2>>)>>),
             [Block(<<Protected[c[3]], Use[c[9]],
                      IF loop THEN To("Branch", <<3>>, <<5, 6>>) ELSE To("Jump", <<>>, <<5>>)>>)
              EXCEPT !.header = loop],
             Block(IF rescue.op = "Throw" THEN <<rescue>>
                   ELSE <<rescue, To("Jump", <<>>, <<4>>)>>),
             Block(<<To("Jump", <<>>, <<5>>)>>),
             Block(<<Join[c[4]], Ends[c[7]]>>) >>
          \o IF loop THEN <<Block(<<I("Return", 0, <<>>)>>)>> ELSE <<>>)
         EXCEPT !.static = TRUE, !.handlers = Tables[c[6]]]

Program(c) ==
    [types |-> AppTypes, functions |-> <<Main(c)>>, fields |-> <<>>,
     imports |-> AppImports, exports |-> <<>>, library |-> FALSE, hash |-> "app",
     content |-> "app"]

Variants == <<"", "abstract A", "no method", "no cast role", "changed", "throwing init",
              "wrong cost">>

ArtifactOf(c, libraries) ==
    [modules |-> <<Program(c), libraries[c[8]]>>, minor |-> 20,
     capabilities |-> <<>>, entry |-> [module |-> 1, function |-> 1, arguments |-> FALSE],
     features |-> {"exceptions", "imports"}
                    \cup IF Use[c[9]].op = "ArrayCopy" THEN {"copy"} ELSE {},
     channels |-> 0, depth |-> 3, stack |-> 300, blockcost |-> 20, slice |-> 20]

\* Every place by its pool with the plain library; handlers, tables and loops; what
\* follows in the protected block; and a smaller family with every library.
MCArtifacts ==
    LET libraries == [v \in DOMAIN Variants |-> Library(Variants[v])] \o <<>>
        programs ==
            (1 .. 4) \X (1 .. 9) \X (1 .. 8) \X (1 .. 8) \X {2} \X {1} \X {1} \X {1} \X {1}
            \cup {1, 2} \X {3, 4, 6, 8} \X {2, 4, 8} \X {1, 4, 5}
                   \X (1 .. 5) \X (1 .. 6) \X {1, 2} \X {1} \X {1}
            \cup {1, 3, 4} \X {1, 3, 8, 9} \X {1, 2, 3, 6, 7} \X {5}
                   \X {1, 2} \X {1, 3} \X {3, 4} \X {1} \X (1 .. 16)
            \cup {1, 2} \X {2, 4, 7} \X {2, 4, 8} \X {1, 5} \X {1, 3} \X {1} \X {1, 2}
                   \X (1 .. 7) \X {1}
    IN  {ArtifactOf(c, libraries) : c \in programs}

-----------------------------------------------------------------------------
(* Properties                                                              *)

\* Every register an instruction reads has been written, on whatever way,
\* ordinary or exceptional, execution came to it: what the data flow of
\* verify_dataflow is for.  (The machine would read a zero.)
ReadsAreInitialised ==
    Running => \A r \in ToSet(Instr.args) : Unset \notin ToSet(Reg(r))

\* The machine never meets a value of another kind or type than the verifier
\* assumed, nor misses a dispatch target or the exception of a trap: none of
\* its defensive faults can be reached from a verified artifact.
NoTypingFault == outcome # "fault"

\* The declared types of the components of a register.
ComponentTypes(m, value) ==
    LET key == ResolveType(m, value.ty)
    IN  IF value.k # "inline" THEN <<ResolveValueType(m, value)>>
        ELSE [n \in DOMAIN TypeAt(key).comps |-> ResolveValueType(key[1], TypeAt(key).comps[n])]

\* Whatever is stored is of the type declared for its place, in every frame,
\* object and static field; a null the type excludes is only ever the zero a
\* field or element starts with.
ValuesWellTyped ==
    LET stored(value, type) == value # Null => RuntimeValueMatches(value, type)
    IN  /\ \A n \in DOMAIN frames :
              LET fn == FunctionAt(frames[n].fn)
              IN  \A r \in DOMAIN fn.regs :
                     LET types == ComponentTypes(frames[n].fn[1], fn.regs[r])
                     IN  \A c \in DOMAIN types :
                            LET value == frames[n].regs[r][c]
                            IN  value # Unset => RuntimeValueMatches(value, types[c])
        /\ \A o \in DOMAIN heap :
              CASE TypeAt(heap[o].ty).k = "array" ->
                     stored(heap[o].data[ElementOffset], ElementType(o))
                [] OTHER ->
                     LET layout == ObjectLayout(heap[o].ty).offsets
                     IN  \A f \in DOMAIN layout :
                            stored(heap[o].data[layout[f]], FieldType(f))
        /\ \A f \in DOMAIN statics : stored(statics[f], FieldType(f))

\* A verified program is type safe: what it reads was written, what is stored has the
\* declared type, and no defensive fault of the machine is reached.
TypeSafety == ReadsAreInitialised /\ NoTypingFault /\ ValuesWellTyped

\* The blocks that some path from the entry reaches with register r never
\* written; with r = 0 the blocks some path reaches.
RECURSIVE Closure(_, _, _)
Closure(fn, r, blocks) ==
    LET unwritten(b, k) == r \notin {fn.blocks[b].code[j].dst : j \in 1 .. k} \ {0}
        thrown(b) == {h.block : h \in {h \in ToSet(Protecting(fn, b)) :
                        /\ h.reg # r
                        /\ \E k \in DOMAIN fn.blocks[b].code :
                              MayThrow(fn.blocks[b].code[k]) /\ unwritten(b, k - 1)}}
        ordinary(b) == IF unwritten(b, Len(fn.blocks[b].code))
                       THEN ToSet(TerminatorTargets(fn.blocks[b])) ELSE {}
        more == blocks \cup UNION {thrown(b) \cup ordinary(b) : b \in blocks}
    IN  IF more = blocks THEN blocks ELSE Closure(fn, r, more)

\* When the queue of verify_dataflow is empty, its states say of every block
\* whether a path reaches it and which registers every such path writes,
\* neither more nor less, in whatever order blocks were merged and queued.
FlowIsExact ==
    phase = "flow" /\ queue = <<>> =>
      \A b \in DOMAIN states :
         /\ states[b].reached <=> b \in Closure(Current, 0, {1})
         /\ states[b].reached =>
              states[b].set = {r \in DOMAIN Current.regs :
                                 r <= Current.params \/ b \notin Closure(Current, r, {1})}

\* What the verifier checked is what the image will run: the two resolutions
\* of every symbol of the code agree, and so do the two ways to tell what a
\* value may be used as.
ResolutionAgrees ==
    phase = "admit" =>
      /\ \A f \in FunctionKeys : \A i \in Code(FunctionAt(f)) :
            /\ i.op \in TypeOps => ResolvedType(f[1], i.ref) = ResolveType(f[1], i.ref)
            /\ i.op \in FieldOps => ResolveField(f[1], i.ref) = ResolveFieldIndex(f[1], i.ref)
            /\ i.op \in Calls => ResolveFunction(f[1], i.ref) = ResolveImageFunction(f[1], i.ref)
      /\ \A key \in TypeKeys : Ancestors(key) = AssignableTypes(key)

\* A call through a class or an interface reaches, for every class whose
\* instances may receive it, the concrete override nearest to that class.
DispatchReachesOverride ==
    phase = "admit" /\ Admissible =>
      \A t \in TypeKeys, d \in Declarations :
         HasDispatchEntry(t, d) /\ TypeAt(t).k = "class" /\ ~TypeAt(t).abstract =>
           LET target == DispatchEntry(t, d)
           IN  /\ ~FunctionAt(target).abstract
               /\ OwnerOf(target) \in Ancestors(t)
               /\ \A c \in Ancestors(t) \ {OwnerOf(target)} :
                     TypeAt(c).k = "class" /\ OwnerOf(target) \in Ancestors(c)
                       => Shaped(c, d) = {}

\* The program that was verified is the one that runs: symbols resolve to the same
\* members in verifier and image, and calls dispatch to the nearest override.
LinkingAgrees == ResolutionAgrees /\ DispatchReachesOverride

\* Classes are initialized from the top down and once: a class has left "no"
\* only when its superclass has, and it is running exactly while one frame
\* runs its initializer.
InitializersInOrder ==
    phase = "run" =>
      \A key \in TypeKeys :
         LET super == ResolveType(key[1], TypeAt(key).super)
             active == {n \in DOMAIN frames : frames[n].init = key}
         IN  /\ inits[key] # "no" /\ super # NoKey => inits[super] # "no"
             /\ Cardinality(active) = IF inits[key] = "running" THEN 1 ELSE 0
=============================================================================
