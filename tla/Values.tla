------------------------------- MODULE Values -------------------------------
(***************************************************************************)
(* Compile-time values and the type pool (source/value.c, source/type.c).  *)
(*                                                                         *)
(* Everything here is a pure operator.  A type is its TypeID: 0..258 are   *)
(* the ids reserved for integers, 259..270 the built-in types in the order *)
(* setup_builtins registers them, and 271 onwards the types the analysed   *)
(* program creates, whose infos are the sequence `tp`.                     *)
(*                                                                         *)
(* A value keeps its kind, its type and, for a struct object, its fields   *)
(* (HASTE_VL_OBJ is STR or STRUCT here, after the object's own kind).      *)
(* The number inside a scalar and the bytes inside a string are abstracted *)
(* away: nothing the analyser decides here depends on them, except whether *)
(* an operation overflows or divides by zero (see Arith).                  *)
(***************************************************************************)
EXTENDS Integers, Sequences

\* A value or type that was never filled in has TypeID 0.
NoType        == 0
TyInt         == 32
UintBase      == 129
TyUint        == UintBase + 32
BitLimit      == 128
TotalReserved == UintBase + 129
TyType        == 259
TyZero        == 260
TyUnknown     == 261
TyUntypedInt  == 262
TyFloat       == 263
TyUntypedFloat == 264
TyAuto        == 265
TyVoid        == 266
TyUntypedStr  == 267
TyCstr        == 268
TyUsize       == 269
TyString      == 270

ValueKinds == {"NONE", "BAD", "ZERO", "UNINIT", "SCALAR", "RUNTIME", "TYPE",
               "STR", "STRUCT", "CRASH"}

Val(k, t, fs) == [k |-> k, t |-> t, fs |-> fs]
None     == Val("NONE", NoType, <<>>)
Bad      == Val("BAD", NoType, <<>>)
Zero     == Val("ZERO", NoType, <<>>)
Uninit   == Val("UNINIT", NoType, <<>>)
Scalar(t)  == Val("SCALAR", t, <<>>)
Runtime(t) == Val("RUNTIME", t, <<>>)
TypeVal(t) == Val("TYPE", t, <<>>)
StrObj(t)  == Val("STR", t, <<>>)
\* What an operation yields when it runs into unreachable() or an assert.
Crash    == Val("CRASH", NoType, <<>>)

\* An object one of whose fields could not be built was never built.
StructObj(t, fs) ==
  IF \E i \in DOMAIN fs : fs[i].k = "CRASH" THEN Crash ELSE Val("STRUCT", t, fs)

IsBad(v)   == v.k = "BAD"
IsCrash(v) == v.k = "CRASH"
IsType(v)  == v.k = "TYPE"
ComptimeKnown(v) == v.k \in {"SCALAR", "ZERO", "STR", "STRUCT"}

(***************************************************************************)
(* The type pool.                                                          *)
(***************************************************************************)
Field(name, type, hasDefault, default) ==
  [name |-> name, type |-> type, hasDefault |-> hasDefault, default |-> default]

Info(kind, str, fields) == [kind |-> kind, str |-> str, fields |-> fields]

StringFields == << Field("ptr", TyCstr, FALSE, None),
                   Field("len", TyUsize, FALSE, None) >>

BuiltinKind(t) ==
  CASE t = TyInt          -> "INT"
    [] t \in UintBase + 1 .. UintBase + BitLimit -> "UINT"
    [] t = TyType         -> "TYPE"
    [] t = TyUnknown      -> "UNKNOWN"
    [] t = TyUntypedInt   -> "UNTYPED_INT"
    [] t = TyFloat        -> "FLOAT"
    [] t = TyUntypedFloat -> "UNTYPED_FLOAT"
    [] t = TyAuto         -> "AUTO"
    [] t = TyVoid         -> "VOID"
    [] t = TyUntypedStr   -> "UNTYPED_STRING"
    [] t = TyCstr         -> "CSTR"
    [] t = TyUsize        -> "USIZE"
    [] t = TyString       -> "STRUCT"
    [] OTHER              -> "ZERO"   \* a zeroed slot

Kind(tp, t)   == IF t > TyString THEN tp[t - TyString].kind ELSE BuiltinKind(t)
IsStr(tp, t)  == IF t > TyString THEN tp[t - TyString].str
                 ELSE t \in {TyUntypedStr, TyCstr, TyString}
Fields(tp, t) == IF t > TyString THEN tp[t - TyString].fields
                 ELSE IF t = TyString THEN StringFields ELSE <<>>

TypeInfo(tp, t) == Info(Kind(tp, t), IsStr(tp, t), Fields(tp, t))

\* The id type_pool_add gives to the next type, and the last id in use.
NextTypeId(tp) == TyString + Len(tp) + 1
LastTypeId(tp) == TyString + Len(tp)

IsInteger(tp, t) == Kind(tp, t) \in {"INT", "UINT", "UNTYPED_INT", "USIZE"}
IsFloat(tp, t)   == Kind(tp, t) \in {"FLOAT", "UNTYPED_FLOAT"}
IsNumber(tp, t)  == IsInteger(tp, t) \/ IsFloat(tp, t)
IsUntyped(tp, t) == Kind(tp, t) \in {"UNTYPED_INT", "UNTYPED_FLOAT", "UNTYPED_STRING"}
IsStructType(tp, t) == Kind(tp, t) = "STRUCT"
HasFields(tp, t)    == Kind(tp, t) \in {"STRUCT", "AUTO_STRUCT"}

\* type_get_int as analyze_int_bits and analyze_uint_bits call it: unsigned.
IntType(bits) == UintBase + bits

\* typeof_value; a NONE value has no type (the code runs into unreachable()).
TypeOf(v) ==
  CASE v.k = "ZERO"   -> TyZero
    [] v.k = "UNINIT" -> TyUnknown
    [] v.k = "TYPE"   -> TyType
    [] OTHER          -> v.t

\* Index of the first field of that name, 0 when there is none.
FieldIndex(fields, name) ==
  LET hits == {i \in DOMAIN fields : fields[i].name = name}
  IN  IF hits = {} THEN 0 ELSE CHOOSE i \in hits : \A j \in hits : i <= j

UntypedToTyped(t) ==
  CASE t \in {TyUntypedInt, TyZero} -> TyInt
    [] t = TyUntypedFloat -> TyFloat
    [] t = TyUntypedStr   -> TyString
    [] OTHER -> t

(***************************************************************************)
(* default_for_type: a field's type is older than the struct's, so the     *)
(* recursion of make_struct_default goes down in the ids.  A field with a  *)
(* default keeps it; type infos hold it as create_struct would convert it. *)
(***************************************************************************)
DefaultFor(tp, t) ==
  LET default[u \in 0 .. LastTypeId(tp)] ==
        IF IsNumber(tp, u) THEN Scalar(u)
        ELSE IF u = TyCstr THEN StrObj(u)
        ELSE IF IsStructType(tp, u)
             THEN LET fields == Fields(tp, u)
                  IN StructObj(u, [i \in DOMAIN fields |->
                       IF fields[i].hasDefault THEN fields[i].default
                                               ELSE default[fields[i].type]])
        ELSE Crash
  IN  default[t]

\* zero_for_type: every field is reset, those with a default included.
ZeroFor(tp, t) ==
  IF IsStructType(tp, t)
  THEN LET fields == Fields(tp, t)
       IN  StructObj(t, [i \in DOMAIN fields |-> DefaultFor(tp, fields[i].type)])
  ELSE DefaultFor(tp, t)

\* make_value: a struct's fields without a default stay NONE.
MakeValue(tp, t) ==
  IF HasFields(tp, t)
  THEN LET fields == Fields(tp, t)
       IN  StructObj(t, [i \in DOMAIN fields |->
             IF fields[i].hasDefault THEN fields[i].default ELSE None])
  ELSE DefaultFor(tp, t)

(***************************************************************************)
(* Conversions.                                                            *)
(***************************************************************************)
\* Mutant: an untyped number keeps its type.
ImplicitUnchanged(tp, to, v) ==
  LET from == TypeOf(v)
  IN  CASE to = from -> v
        [] to # from /\ from \in {TyUntypedInt, TyUntypedFloat} /\ IsNumber(tp, to) -> v
        [] from = TyUntypedStr /\ to = TyString ->
             StructObj(to, <<StrObj(TyCstr), Scalar(TyUsize)>>)
        [] from = TyUntypedStr /\ to = TyCstr -> StrObj(to)
        [] OTHER -> Bad

\* value_implicit_cast
ImplicitCast(tp, to, v) ==
  LET from == TypeOf(v)
  IN  CASE to = from -> v
        [] to # from /\ from = TyUntypedInt /\ IsNumber(tp, to) -> Scalar(to)
        [] to # from /\ from = TyUntypedFloat /\ IsFloat(tp, to) -> Scalar(to)
        [] from = TyUntypedStr /\ to = TyString ->
             StructObj(to, <<StrObj(TyCstr), Scalar(TyUsize)>>)
        [] from = TyUntypedStr /\ to = TyCstr -> StrObj(to)
        [] OTHER -> Bad

\* The field of v that gives field i of the type `to` its value, 0 if none does.
Giver(tp, to, v, i) == FieldIndex(Fields(tp, v.t), Fields(tp, to)[i].name)

\* Mutant: the fields of the literal are counted, not those of the struct.
CastOwnFields(tp, to, v, cast) ==
  LET start == DefaultFor(tp, to)
  IN  IF IsCrash(start) THEN Crash
      ELSE StructObj(to, [i \in DOMAIN Fields(tp, v.t) |->
             IF Giver(tp, to, v, i) = 0 THEN start.fs[i] ELSE cast[i]])

\* value_cast_auto_struct: fields of `to` are matched by name, the others
\* keep their default; a field that cannot be cast is stored BAD.  cast[i] is
\* the value for field i converted to the field's type.
CastAutoStruct(tp, to, v, cast) ==
  LET start == DefaultFor(tp, to)
  IN  IF IsCrash(start) THEN Crash
      ELSE StructObj(to, [i \in DOMAIN Fields(tp, to) |->
             IF Giver(tp, to, v, i) = 0 THEN start.fs[i] ELSE cast[i]])

\* value_cast for a compile-time value whose implicit conversion failed.
ExplicitCast(tp, to, v, cast) ==
  CASE v.k = "UNINIT" -> DefaultFor(tp, to)
    [] v.k = "ZERO"   -> ZeroFor(tp, to)
    [] v.k = "STR" /\ to = TyString -> StructObj(to, <<StrObj(TyCstr), Scalar(TyUsize)>>)
    [] v.k = "STR" /\ to # TyString /\ IsStr(tp, to) -> StrObj(to)
    [] v.k = "STRUCT" /\ to = TyCstr ->
         LET i == FieldIndex(Fields(tp, v.t), "ptr")
         IN  IF i = 0 THEN Crash ELSE v.fs[i]
    [] v.k = "STRUCT" /\ IsStructType(tp, to) /\ Kind(tp, v.t) = "AUTO_STRUCT" ->
         CastAutoStruct(tp, to, v, cast)
    [] v.k = "SCALAR" /\ IsNumber(tp, to) /\ IsNumber(tp, v.t) -> Scalar(to)
    [] OTHER -> Bad

CastWith(tp, to, v, cast) ==
  IF IsBad(v) THEN v
  ELSE IF v.k = "NONE" \/ IsUntyped(tp, to) THEN Crash
  ELSE IF v.k = "RUNTIME" THEN Runtime(to)
  ELSE IF to = TyAuto THEN v
  ELSE LET implicit == ImplicitCast(tp, to, v)
       IN  IF IsBad(implicit) THEN ExplicitCast(tp, to, v, cast) ELSE implicit

\* The recursion of value_cast is unrolled: anonymous struct literals nested
\* up to three deep are converted as the code does, deeper ones are BAD.
CastFlat(tp, to, v) == CastWith(tp, to, v, [i \in DOMAIN Fields(tp, to) |-> Bad])
CastNested(tp, to, v) ==
  CastWith(tp, to, v, [i \in DOMAIN Fields(tp, to) |->
    CastFlat(tp, Fields(tp, to)[i].type, v.fs[Giver(tp, to, v, i)])])
ValueCast(tp, to, v) ==
  CastWith(tp, to, v, [i \in DOMAIN Fields(tp, to) |->
    CastNested(tp, Fields(tp, to)[i].type, v.fs[Giver(tp, to, v, i)])])

\* value_coerce: make a slot of type `to`, then value_assign into it.
Coerce(tp, to, v) ==
  LET implicit == ImplicitCast(tp, to, v)
  IN  IF IsCrash(MakeValue(tp, to)) THEN Crash
      ELSE IF ~IsBad(implicit) THEN implicit
      ELSE CASE v.k = "ZERO"   -> ZeroFor(tp, to)
             [] v.k = "UNINIT" -> DefaultFor(tp, to)
             [] v.k \notin {"ZERO", "UNINIT"} /\ IsStructType(tp, to)
                  /\ Kind(tp, TypeOf(v)) = "AUTO_STRUCT" -> ValueCast(tp, to, v)
             [] OTHER -> Bad

(***************************************************************************)
(* value_do_arith: the type of the result, NoType when the operands cannot *)
(* be combined.  Overflow and division by zero depend on the numbers and   *)
(* are left to the caller.                                                 *)
(***************************************************************************)
ArithType(tp, lhs, rhs) ==
  LET lt == IF lhs.k = "ZERO" THEN TyUntypedInt ELSE lhs.t
      rt == IF rhs.k = "ZERO" THEN TyUntypedInt ELSE rhs.t
      numeric == /\ {lhs.k, rhs.k} \subseteq {"ZERO", "SCALAR"}
                 /\ IsNumber(tp, lt) /\ IsNumber(tp, rt)
      mixed   == ~IsUntyped(tp, lt) /\ ~IsUntyped(tp, rt) /\ lt # rt
  IN  IF ~numeric \/ mixed THEN NoType
      ELSE IF IsFloat(tp, lt) \/ IsFloat(tp, rt)
           THEN IF IsFloat(tp, lt) \/ Kind(tp, rt) = "UNTYPED_FLOAT"
                THEN TyFloat ELSE TyUntypedFloat
      ELSE IF lt = rt THEN lt ELSE TyUntypedInt
=============================================================================
