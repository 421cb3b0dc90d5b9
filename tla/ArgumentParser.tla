---------------------------- MODULE ArgumentParser ----------------------------
(***************************************************************************)
(* ladder::IArgumentParser: Init goes through the arguments one by one and *)
(* keeps what it has read when it gives up.  An argument is an option (it  *)
(* begins with two dashes and a name) or a value.  fields_options_ and     *)
(* fields_enabled_ are the names with and without a value, each required   *)
(* or not.                                                                 *)
(***************************************************************************)
EXTENDS Naturals, Sequences, FiniteSetsExt

CONSTANTS
    fields_options,   \* fields_options_, a function from names to BOOLEAN
    fields_enabled,   \* fields_enabled_
    Unknown,          \* names in neither
    Values,           \* arguments that are not options
    MaxArgs           \* bound: arguments

ASSUME ArgumentAssumption ==
    /\ DOMAIN fields_options \cap DOMAIN fields_enabled = {}
    /\ Unknown \cap (DOMAIN fields_options \cup DOMAIN fields_enabled) = {}
    /\ MaxArgs \in Nat

VARIABLES
    args,     \* the arguments
    argAt,    \* i
    options,  \* options_, as a set of pairs
    enabled,  \* enabled_
    parsing   \* "no", "loop", "good" or "bad": what Init returns

argVars == <<args, argAt, options, enabled, parsing>>

Names == DOMAIN fields_options \cup DOMAIN fields_enabled \cup Unknown
Arguments == ({TRUE} \X Names) \cup ({FALSE} \X Values)

IsOption(a) == a[1]

ArgInit == args = <<>> /\ argAt = 1 /\ options = {} /\ enabled = {} /\ parsing = "no"

InitCall(given) ==
    /\ parsing = "no" /\ parsing' = "loop" /\ args' = given
    /\ UNCHANGED <<argAt, options, enabled>>

CheckRequired ==
    /\ \A k \in DOMAIN fields_options : fields_options[k] => \E o \in options : o[1] = k
    /\ \A k \in DOMAIN fields_enabled : fields_enabled[k] => k \in enabled

(* std::map::insert keeps the value that is there. *)
Mut_InsertOption(k, v) == {o \in options : o[1] # k} \cup {<<k, v>>}
InsertOption(k, v) == IF \E o \in options : o[1] = k THEN options ELSE options \cup {<<k, v>>}

(* A turn of Init's loop, and what it returns. *)
InitTurn ==
    /\ parsing = "loop"
    /\ IF argAt > Len(args)
       THEN parsing' = (IF CheckRequired THEN "good" ELSE "bad") /\ UNCHANGED <<argAt, options, enabled>>
       ELSE LET a == args[argAt]
                hasValue == argAt < Len(args) /\ ~IsOption(args[argAt + 1])
            IN  \/ /\ ~IsOption(a)
                   /\ argAt' = argAt + 1 /\ UNCHANGED <<options, enabled, parsing>>
                \/ /\ IsOption(a) /\ a[2] \in DOMAIN fields_options /\ hasValue
                   /\ options' = InsertOption(a[2], args[argAt + 1][2])
                   /\ argAt' = argAt + 2 /\ UNCHANGED <<enabled, parsing>>
                \/ /\ IsOption(a) /\ a[2] \in DOMAIN fields_enabled
                   /\ enabled' = enabled \cup {a[2]}
                   /\ argAt' = argAt + 1 /\ UNCHANGED <<options, parsing>>
                \/ /\ IsOption(a) /\ (a[2] \in Unknown \/ (a[2] \in DOMAIN fields_options /\ ~hasValue))
                   /\ parsing' = "bad" /\ UNCHANGED <<argAt, options, enabled>>
    /\ UNCHANGED args

ArgNext == InitTurn \/ \E n \in 0 .. MaxArgs : \E given \in [1 .. n -> Arguments] : InitCall(given)

ArgSpec == ArgInit /\ [][ArgNext]_argVars

(* GetStringArg and GetBoolArg, once Init has returned. *)
GetStringArg(k) == {o[2] : o \in {q \in options : q[1] = k}}
GetBoolArg(k) == k \in enabled

-------------------------------------------------------------------------------
At(k) == {i \in 1 .. Len(args) : args[i] = <<TRUE, k>>}
ValueAfter(i) == i < Len(args) /\ ~IsOption(args[i + 1])

(* A command line whose options are all known, whose valued options have a *)
(* value, and that names all required ones.                                *)
WellFormed ==
    /\ \A k \in Unknown : At(k) = {}
    /\ \A k \in DOMAIN fields_options :
          (fields_options[k] => At(k) # {}) /\ \A i \in At(k) : ValueAfter(i)
    /\ \A k \in DOMAIN fields_enabled : fields_enabled[k] => At(k) # {}

(* Init accepts exactly the well-formed command lines, and the getters     *)
(* then return what was given; the first of two values is kept.            *)
ParsedAsGiven ==
    /\ parsing \in {"good", "bad"} => (parsing = "good" <=> WellFormed)
    /\ parsing = "good" =>
         /\ \A k \in DOMAIN fields_options :
               GetStringArg(k) = IF At(k) = {} THEN {} ELSE {args[Min(At(k)) + 1][2]}
         /\ \A k \in DOMAIN fields_enabled : GetBoolArg(k) <=> At(k) # {}
===============================================================================
