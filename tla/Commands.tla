------------------------------ MODULE Commands -------------------------------
(***************************************************************************)
(* Package acbcjson: the registry of commands (register.go, cmdinfo.go)    *)
(* and the codec between a command and the positional parameters of a      *)
(* JSON-RPC request (cmdparse.go).                                         *)
(*                                                                         *)
(* A struct type is the sequence of its fields.  A command is the sequence *)
(* of their values; "nil" is a nil pointer, and what is marshalled from it *)
(* is the JSON null, written "nil" as well.  A value of the wrong type,    *)
(* which json.Unmarshal refuses, is "mismatch".                            *)
(***************************************************************************)
EXTENDS Naturals, FiniteSets, Sequences

CONSTANTS
  Methods,  \* the names a type may be registered under
  Types,    \* the struct types
  Fields,   \* the fields of each of them
  Flags     \* the usage flags they are registered with

\* What RegisterCmd looks at: the form of the field's type, whether it is a
\* pointer, and the jsonrpcdefault tag.
Forms == {"acceptable", "embedded", "unexported", "unsupported"}
Tags  == {"none", "value", "mismatch"}
Field == [form : Forms, ptr : BOOLEAN, tag : Tags]

ASSUME CommandsAssumption ==
  /\ Fields \in [Types -> Seq(Field)]
  /\ Flags \subseteq Nat

\* UFWalletOnly, UFWebsocketOnly and UFNotification are its lower bits.
highestUsageFlagBit == 8

VARIABLES
  methodToConcreteType,
  methodToInfo,
  concreteTypeToMethod

regVars == <<methodToConcreteType, methodToInfo, concreteTypeToMethod>>

RegInit ==
  /\ methodToConcreteType = <<>>
  /\ methodToInfo = <<>>
  /\ concreteTypeToMethod = <<>>

-----------------------------------------------------------------------------
(* RegisterCmd.                                                            *)

\* The checks on field i: it can be encoded, no optional field precedes a
\* required one, and only an optional field has a default, of its own type.
FieldOK(fields, i) ==
  /\ fields[i].form = "acceptable"
  /\ fields[i].ptr \/ \A j \in 1..i : ~fields[j].ptr
  /\ fields[i].tag # "none" => fields[i].ptr
  /\ fields[i].tag # "mismatch"

StructOK(fields) == \A i \in DOMAIN fields : FieldOK(fields, i)

OptFields(fields) == {i \in DOMAIN fields : fields[i].ptr}

Info(fields, flags) ==
  [maxParams    |-> Len(fields),
   numReqParams |-> Len(fields) - Cardinality(OptFields(fields)),
   numOptParams |-> Cardinality(OptFields(fields)),
   defaults     |-> {i \in DOMAIN fields : fields[i].tag # "none"},
   flags        |-> flags]

\* The map f after f[key] = val.
Assign(f, key, val) ==
  [k \in DOMAIN f \cup {key} |-> IF k = key THEN val ELSE f[k]]

\* Mutant: a method that is already registered is overwritten.
RegisterCmdAgain(method, type, flags) ==
  /\ flags < highestUsageFlagBit
  /\ StructOK(Fields[type])
  /\ methodToConcreteType' = Assign(methodToConcreteType, method, type)
  /\ methodToInfo' = Assign(methodToInfo, method, Info(Fields[type], flags))
  /\ concreteTypeToMethod' = Assign(concreteTypeToMethod, type, method)

\* Under registerLock.  A type may be registered under several methods, and is
\* marshalled for the last of them.  An error changes nothing.
RegisterCmd(method, type, flags) ==
  /\ method \notin DOMAIN methodToConcreteType
  /\ flags < highestUsageFlagBit
  /\ StructOK(Fields[type])
  /\ methodToConcreteType' = Assign(methodToConcreteType, method, type)
  /\ methodToInfo' = Assign(methodToInfo, method, Info(Fields[type], flags))
  /\ concreteTypeToMethod' = Assign(concreteTypeToMethod, type, method)

RegNext ==
  \E method \in Methods, type \in Types, flags \in Flags :
    RegisterCmd(method, type, flags)

RegSpec == RegInit /\ [][RegNext]_regVars

-----------------------------------------------------------------------------
(* The codec.  The lookups happen under registerLock.                      *)

\* The value of a field that no parameter and no default has set.
Zero(field) == IF field.ptr THEN "nil" ELSE "zero"

\* makeParams: the fields up to the last one that is not a nil pointer.
makeParams(fields, cmd) ==
  [i \in {i \in DOMAIN fields :
            \E j \in DOMAIN fields : j >= i /\ ~(fields[j].ptr /\ cmd[j] = "nil")}
     |-> cmd[i]]

\* A request without a parameter, or an error; ErrInvalidType is also what a
\* nil command, an unknown version and an id that is none get.
MarshalCmd(type, cmd) ==
  IF type \notin DOMAIN concreteTypeToMethod
    THEN [err |-> "ErrUnregisteredMethod"]
    ELSE [err |-> "", method |-> concreteTypeToMethod[type],
          params |-> makeParams(Fields[type], cmd)]

checkNumParams(numParams, info) ==
  numParams >= info.numReqParams /\ numParams <= info.maxParams

\* The parameters, then populateDefaults for the fields without one.  A null
\* leaves its field as it is.
populateDefaults(params, info, fields) ==
  [i \in 1..info.maxParams |->
     IF i \in DOMAIN params
     THEN IF params[i] = "nil" THEN Zero(fields[i]) ELSE params[i]
     ELSE IF i \in info.defaults THEN "default"
     ELSE Zero(fields[i])]

UnmarshalCmd(method, params) ==
  IF method \notin DOMAIN methodToConcreteType
    THEN [err |-> "ErrUnregisteredMethod"]
  ELSE IF ~checkNumParams(Cardinality(DOMAIN params), methodToInfo[method])
    THEN [err |-> "ErrNumParams"]
  ELSE IF \E i \in DOMAIN params : params[i] = "mismatch"
    THEN [err |-> "ErrInvalidType"]
  ELSE [err |-> "", type |-> methodToConcreteType[method],
        cmd |-> populateDefaults(params, methodToInfo[method],
                                 Fields[methodToConcreteType[method]])]

-----------------------------------------------------------------------------
(* Properties.                                                             *)

\* The commands of a type: every pointer may be nil.
CommandsOf(type) ==
  {cmd \in [DOMAIN Fields[type] -> {"nil", "zero", "value"}] :
     \A i \in DOMAIN Fields[type] : cmd[i] = "nil" => Fields[type][i].ptr}

\* What the other side gets: an optional field that is nil, has a default and
\* is followed by nil pointers only, has that default.
Received(type, cmd) ==
  [i \in DOMAIN Fields[type] |->
     IF /\ Fields[type][i].tag # "none"
        /\ \A j \in DOMAIN Fields[type] : j >= i => cmd[j] = "nil"
     THEN "default" ELSE cmd[i]]

(***************************************************************************)
(* A command of a registered type arrives as that command, under whatever  *)
(* other methods its type and other types were registered meanwhile: the   *)
(* positions of its parameters are kept when optional ones are omitted,    *)
(* their number is accepted, and the omitted ones have their defaults.     *)
(***************************************************************************)
CommandRoundTrip ==
  \A type \in DOMAIN concreteTypeToMethod : \A cmd \in CommandsOf(type) :
    UnmarshalCmd(MarshalCmd(type, cmd).method, MarshalCmd(type, cmd).params)
      = [err |-> "", type |-> type, cmd |-> Received(type, cmd)]

=============================================================================
