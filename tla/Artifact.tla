------------------------------ MODULE Artifact ------------------------------
(***************************************************************************)
(* A decoded artifact and the operators that the verifier and the          *)
(* admission of an image both build on: references and how they resolve,   *)
(* when two types are the same, when a value may be used as another, and   *)
(* which function a virtual or interface call reaches.                     *)
(*                                                                         *)
(* art.modules is a sequence of modules.  A module has types, functions,   *)
(* fields, imports and exports, each a sequence of records; a reference is *)
(* an integer: r > 0 names the local record r, r < 0 the import -r, and 0  *)
(* is the absent reference (u32::MAX).  A resolved reference is the pair   *)
(* <<module, index>>, NoKey when it does not resolve.  Names are model     *)
(* values or strings; only their equality is used.                         *)
(*                                                                         *)
(* A type record has the fields of every kind of NominalType:              *)
(*   k       "class", "interface", "array", "function" or "inline"         *)
(*   name, abstract, final, super, interfaces                              *)
(*   fields, methods   the ids of the owned range                          *)
(*   init    the initializer's function id, 0 for none                     *)
(*   root    the class is marked as the Throwable root                     *)
(*   role    the runtime exception role, 0 for none                        *)
(*   elem, storage   the element of an array and how it is stored          *)
(*   suspend, result, params   of a function type                          *)
(*   comps   the components of an inline value                             *)
(* A value type is [k, null, ty], k the kind of the value.                 *)
(***************************************************************************)
EXTENDS Integers, Sequences, SequencesExt, FiniteSets, FiniteSetsExt

CONSTANT
    \* the decoded artifacts there are
    Artifacts

VARIABLE
    \* the decoded artifact
    art

NoKey == <<0, 0>>
StringName == "kotlin.String"

Modules == DOMAIN art.modules
TypesOf(m) == art.modules[m].types
FunctionsOf(m) == art.modules[m].functions
TypeKeys == UNION {{m} \X DOMAIN TypesOf(m) : m \in Modules}
FunctionKeys == UNION {{m} \X DOMAIN FunctionsOf(m) : m \in Modules}
FieldKeys == UNION {{m} \X DOMAIN art.modules[m].fields : m \in Modules}
TypeAt(key) == TypesOf(key[1])[key[2]]
FunctionAt(key) == FunctionsOf(key[1])[key[2]]
FieldAt(key) == art.modules[key[1]].fields[key[2]]
Reference(ty, null) == [k |-> "ref", null |-> null, ty |-> ty]

-----------------------------------------------------------------------------
(* Resolution in the verifier                                              *)

\* What an import stands for, given the place of the export found for it.
ExportSymbol(import, found) ==
    IF found = 0 THEN NoKey
    ELSE <<import.module, art.modules[import.module].exports[found].symbol>>

\* A resolved reference, if there is such a record.
Existing(key, keys) == IF key \in keys THEN key ELSE NoKey

\* A type reference: absent, local and in range, or the first type export of
\* the import's name.  A type import's own signature plays no part.
ResolvedType(m, ref) ==
    IF ref >= 0
    THEN IF ref \in DOMAIN TypesOf(m) THEN <<m, ref>> ELSE NoKey
    ELSE IF -ref \notin DOMAIN art.modules[m].imports THEN NoKey
    ELSE LET import == art.modules[m].imports[-ref]
             exports == art.modules[import.module].exports
         IN  IF import.kind # "type" THEN NoKey
             ELSE Existing(ExportSymbol(import, SelectInSeq(exports,
                      LAMBDA e : e.kind = "type" /\ e.name = import.name)), TypeKeys)

\* The same kind, the same nullability, the same nominal type; two arrays are
\* the same when their elements are, wherever they are declared.
RECURSIVE ValueTypesMatch(_, _, _, _), NominalTypesMatch(_, _)
ValueTypesMatch(lm, left, rm, right) ==
    /\ left.k = right.k
    /\ left.null = right.null
    /\ left.k \in {"ref", "inline"} =>
         NominalTypesMatch(ResolvedType(lm, left.ty), ResolvedType(rm, right.ty))

NominalTypesMatch(l, r) ==
    /\ l # NoKey /\ r # NoKey
    /\ IF TypeAt(l).k = "array" /\ TypeAt(r).k = "array"
       THEN /\ TypeAt(l).storage = TypeAt(r).storage
            /\ ValueTypesMatch(l[1], TypeAt(l).elem, r[1], TypeAt(r).elem)
       ELSE l = r

\* Function types are compared by structure, all others by identity.
FunctionTypesMatch(l, r) ==
    /\ l # NoKey /\ r # NoKey
    /\ IF TypeAt(l).k = "function" /\ TypeAt(r).k = "function"
       THEN /\ TypeAt(l).suspend = TypeAt(r).suspend
            /\ Len(TypeAt(l).params) = Len(TypeAt(r).params)
            /\ \A i \in 0 .. Len(TypeAt(l).params) :
                  LET of(t) == IF i = 0 THEN t.result ELSE t.params[i]
                  IN  ValueTypesMatch(l[1], of(TypeAt(l)), r[1], of(TypeAt(r)))
       ELSE l = r

SignaturesMatch(lm, left, rm, right) ==
    FunctionTypesMatch(ResolvedType(lm, left), ResolvedType(rm, right))

\* The export an import stands for.
Provides(m, import, export) ==
    /\ export.kind = import.kind
    /\ export.name = import.name
    /\ SignaturesMatch(m, import.signature, import.module, export.signature)

\* A function or field reference: local, or the first export of the import's
\* kind, name and signature.
ResolveSymbol(m, ref, kind) ==
    IF ref > 0 THEN <<m, ref>>
    ELSE IF ref = 0 \/ -ref \notin DOMAIN art.modules[m].imports THEN NoKey
    ELSE LET import == art.modules[m].imports[-ref]
             exports == art.modules[import.module].exports
         IN  IF import.kind # kind THEN NoKey
             ELSE ExportSymbol(import,
                      SelectInSeq(exports, LAMBDA e : Provides(m, import, e)))

ResolveFunction(m, ref) == Existing(ResolveSymbol(m, ref, "function"), FunctionKeys)
ResolveField(m, ref) == Existing(ResolveSymbol(m, ref, "field"), FieldKeys)

\* The one public kotlin.String of the library modules, final, concrete and
\* without fields.
StringExports ==
    {<<m, e>> \in UNION {{m} \X DOMAIN art.modules[m].exports : m \in Modules} :
        /\ art.modules[m].library
        /\ art.modules[m].exports[e].kind = "type"
        /\ art.modules[m].exports[e].public
        /\ art.modules[m].exports[e].name = StringName}

UsableString(key) ==
    IF /\ key \in TypeKeys
       /\ TypeAt(key).k = "class"
       /\ ~TypeAt(key).abstract
       /\ TypeAt(key).final
       /\ TypeAt(key).fields = {}
    THEN key ELSE NoKey

ExportedKey(x) == <<x[1], art.modules[x[1]].exports[x[2]].symbol>>

ResolveStringType ==
    IF Cardinality(StringExports) # 1 THEN NoKey
    ELSE UsableString(ExportedKey(CHOOSE x \in StringExports : TRUE))

-----------------------------------------------------------------------------
(* Assignability                                                           *)

\* The declared parents of a type.
Parents(key) ==
    LET t == TypeAt(key)
        refs == IF t.k \in {"class", "interface"}
                THEN {t.super} \cup ToSet(t.interfaces)
                ELSE IF t.k = "array" THEN {t.super} ELSE {}
    IN  {ResolvedType(key[1], ref) : ref \in refs} \ {NoKey}

RECURSIVE Ancestors(_)
Ancestors(key) == {key} \cup UNION {Ancestors(p) : p \in Parents(key)}

\* The verifier's walk up the parents of source.  The type graph is acyclic
\* by the time it is used.
NominalAssignable(source, destination) == destination \in Ancestors(source)

RECURSIVE ValueAssignable(_, _, _, _), ReferenceAssignable(_, _)
ValueAssignable(sm, source, dm, destination) ==
    /\ source.k = destination.k
    /\ source.k = "ref" =>
         /\ source.null => destination.null
         /\ ReferenceAssignable(ResolvedType(sm, source.ty), ResolvedType(dm, destination.ty))
    /\ source.k = "inline" =>
         /\ ResolvedType(sm, source.ty) # NoKey
         /\ ResolvedType(sm, source.ty) = ResolvedType(dm, destination.ty)

\* Arrays are invariant: each element is assignable to the other.
ReferenceAssignable(s, d) ==
    /\ s # NoKey /\ d # NoKey
    /\ IF TypeAt(s).k = "array" /\ TypeAt(d).k = "array"
       THEN /\ TypeAt(s).storage = TypeAt(d).storage
            /\ ValueAssignable(s[1], TypeAt(s).elem, d[1], TypeAt(d).elem)
            /\ ValueAssignable(d[1], TypeAt(d).elem, s[1], TypeAt(s).elem)
       ELSE NominalAssignable(s, d)

-----------------------------------------------------------------------------
(* Resolution in the admission of an image                                 *)

\* Admission resolves types as the verifier does, except that the symbol of
\* the export it finds is not compared with the size of the type table.
ResolveType(m, ref) ==
    IF ref >= 0
    THEN IF ref \in DOMAIN TypesOf(m) THEN <<m, ref>> ELSE NoKey
    ELSE IF -ref \notin DOMAIN art.modules[m].imports THEN NoKey
    ELSE LET import == art.modules[m].imports[-ref]
             exports == art.modules[import.module].exports
         IN  IF import.kind # "type" THEN NoKey
             ELSE ExportSymbol(import, SelectInSeq(exports,
                      LAMBDA e : e.kind = "type" /\ e.name = import.name))

ResolveImageFunction(m, ref) ==
    IF ref > 0
    THEN IF ref \in DOMAIN FunctionsOf(m) THEN <<m, ref>> ELSE NoKey
    ELSE IF ref = 0 \/ -ref \notin DOMAIN art.modules[m].imports THEN NoKey
    ELSE LET import == art.modules[m].imports[-ref]
             exports == art.modules[import.module].exports
         IN  IF import.kind # "function" THEN NoKey
             ELSE Existing(ExportSymbol(import, SelectInSeq(exports, LAMBDA e :
                      /\ e.kind = "function" /\ e.name = import.name
                      /\ SignaturesMatch(m, import.signature,
                                         import.module, e.signature))), FunctionKeys)

\* A field import is resolved by its kind and name alone.
ResolveFieldIndex(m, ref) ==
    LET import == art.modules[m].imports[-ref]
        exports == art.modules[import.module].exports
    IN  Existing(IF ref > 0 THEN <<m, ref>>
                 ELSE IF -ref \notin DOMAIN art.modules[m].imports THEN NoKey
                 ELSE IF import.kind # "field" THEN NoKey
                 ELSE ExportSymbol(import, SelectInSeq(exports,
                          LAMBDA e : e.kind = "field" /\ e.name = import.name)), FieldKeys)

\* A value type with its nominal type resolved.
ResolveValueType(m, value) ==
    [k |-> value.k, null |-> value.null,
     ty |-> IF value.k \in {"ref", "inline"} THEN ResolveType(m, value.ty) ELSE NoKey]

\* Every type an object of type actual may be used as.
RECURSIVE AssignableTypes(_)
AssignableTypes(actual) ==
    LET t == TypeAt(actual)
        refs == IF t.k \in {"class", "interface"}
                THEN {t.super} \cup ToSet(t.interfaces)
                ELSE IF t.k = "array" THEN {t.super} ELSE {}
        parents == {ResolveType(actual[1], ref) : ref \in refs} \ {NoKey}
    IN  {actual} \cup UNION {AssignableTypes(p) : p \in parents}

IsAssignable(actual, target) == target \in AssignableTypes(actual)

-----------------------------------------------------------------------------
(* Dispatch                                                                *)

ResultOf(fn) ==
    LET sig == ResolveType(fn[1], FunctionAt(fn).sig)
    IN  ResolveValueType(sig[1], TypeAt(sig).result)

\* An override may return a subtype, and a non-null value for a nullable one.
CovariantResult(declaration, candidate) ==
    \/ declaration = candidate
    \/ /\ declaration.k = "ref" /\ candidate.k = "ref"
       /\ candidate.null => declaration.null
       /\ IsAssignable(candidate.ty, declaration.ty)

\* The same name, a result that may stand for the declared one, as many
\* parameters, at least one, all the same after the receiver.
SameMethodShape(declaration, candidate) ==
    LET d == FunctionAt(declaration)
        c == FunctionAt(candidate)
    IN  /\ d.name = c.name
        /\ CovariantResult(ResultOf(declaration), ResultOf(candidate))
        /\ d.params > 0
        /\ c.params = d.params
        /\ \A i \in 2 .. d.params :
              ResolveValueType(declaration[1], d.regs[i])
                = ResolveValueType(candidate[1], c.regs[i])

\* The methods of a type that have the shape of a declaration.
Shaped(owner, declaration) ==
    {fn \in {owner[1]} \X TypeAt(owner).methods : SameMethodShape(declaration, fn)}

\* Of the interfaces with a method of the shape those that no other of them
\* extends; their method, if it is one.
Unextended(owners) ==
    {o \in owners : \A other \in owners \ {o} : ~IsAssignable(other, o)}

OnlyOne(candidates) ==
    IF Cardinality(candidates) = 1 THEN CHOOSE c \in candidates : TRUE ELSE NoKey

MostSpecificInterfaceMethod(actual, declaration) ==
    OnlyOne(UNION {Shaped(o, declaration) : o \in
        Unextended({o \in AssignableTypes(actual) :
                      TypeAt(o).k = "interface" /\ Shaped(o, declaration) # {}})})

\* The first class up the chain of superclasses with a method of the shape
\* decides, an abstract one by leaving the call without an implementation;
\* only when none has one do the interfaces count.
Concrete(fn) == IF fn = NoKey \/ FunctionAt(fn).abstract THEN NoKey ELSE fn

RECURSIVE FindMethodImplementation(_, _, _)
FindMethodImplementation(actual, owner, declaration) ==
    IF owner = NoKey
    THEN Concrete(MostSpecificInterfaceMethod(actual, declaration))
    ELSE \* the methods of the owner
         LET own(shaped) ==
               IF shaped # {}
               THEN Concrete(CHOOSE fn \in shaped : \A other \in shaped : fn[2] <= other[2])
               ELSE FindMethodImplementation(actual,
                        ResolveType(owner[1], TypeAt(owner).super), declaration)
         IN  own(IF TypeAt(owner).k = "array" THEN {} ELSE Shaped(owner, declaration))

\* The functions a virtual or interface call may name.
Declarations ==
    {fn \in FunctionKeys :
        LET owner == ResolveType(fn[1], FunctionAt(fn).owner)
        IN  \/ FunctionAt(fn).virtual
            \/ owner # NoKey /\ TypeAt(owner).k = "interface"}

OwnerOf(fn) == ResolveType(fn[1], FunctionAt(fn).owner)

\* The dispatch table has an entry for every type with instances and every
\* declaration of a type it may be used as.
HasDispatchEntry(actual, declaration) ==
    /\ TypeAt(actual).k \in {"class", "array"}
    /\ declaration \in Declarations
    /\ OwnerOf(declaration) \in AssignableTypes(actual)

\* Mutant: a declaration with a body needs no search.
DispatchToDeclaration(actual, declaration) ==
    IF ~FunctionAt(declaration).abstract THEN declaration
    ELSE FindMethodImplementation(actual, actual, declaration)

DispatchEntry(actual, declaration) == FindMethodImplementation(actual, actual, declaration)

\* Admission refuses a declaration without an owner and a concrete type that
\* leaves a declaration without an implementation.
DispatchResolves ==
    /\ \A d \in Declarations : OwnerOf(d) # NoKey
    /\ \A t \in TypeKeys, d \in Declarations :
          HasDispatchEntry(t, d) /\ DispatchEntry(t, d) = NoKey => TypeAt(t).abstract
=============================================================================
