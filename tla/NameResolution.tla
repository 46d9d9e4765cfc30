-------------------------- MODULE NameResolution --------------------------
(***************************************************************************)
(* What the front end promises about identifiers, without a hash table:    *)
(* a symbol is declared, or mentioned before it is bound (dangling), and a *)
(* program is accepted when no mention is left dangling. Compilation       *)
(* implements it while its table has not grown, a symbol being a djb2      *)
(* value.                                                                  *)
(***************************************************************************)
CONSTANTS
    Symbols,   \* what an identifier denotes
    Functions  \* the symbols of the standard functions

VARIABLES
    declared,  \* symbols of the program's scope
    dangling,  \* symbols mentioned and not bound
    parameters,
    verdict

vars == <<declared, dangling, parameters, verdict>>

Verdicts ==
    {"compiling", "accepted", "dangling", "redeclared", "not_found", "malformed"}

TypeOK ==
    /\ declared \subseteq Symbols
    /\ dangling \subseteq Symbols
    /\ parameters \subseteq Symbols
    /\ verdict \in Verdicts

Init ==
    /\ declared = Functions
    /\ dangling = {}
    /\ parameters = {}
    /\ verdict = "compiling"

Compiling == verdict = "compiling"

End(v) == verdict' = v /\ UNCHANGED <<declared, dangling, parameters>>

\* A declaration introduces the symbol, or is refused if it exists.
Declare(s) ==
    /\ Compiling
    /\ \/ /\ s \notin declared
          /\ declared' = declared \cup {s}
          /\ UNCHANGED <<dangling, parameters, verdict>>
       \/ /\ s \in declared
          /\ End("redeclared")

\* A value: it need not exist yet.
Mention(s) ==
    /\ Compiling
    /\ dangling' = IF s \in declared THEN dangling ELSE dangling \cup {s}
    /\ UNCHANGED <<declared, parameters, verdict>>

\* A parameter is a mention until the end of the function binds it.
Parameter(s) ==
    /\ Compiling
    /\ dangling' = IF s \in declared THEN dangling ELSE dangling \cup {s}
    /\ parameters' = parameters \cup {s}
    /\ UNCHANGED <<declared, verdict>>

\* A destination, a file, a returned variable: it must exist.
Require(s) == Compiling /\ s \notin declared /\ End("not_found")

Call(f) == Compiling /\ f \notin Functions /\ End("not_found")

\* The end of a loop binds its variable.
Bind(s) ==
    /\ Compiling
    /\ dangling' = dangling \ {s}
    /\ UNCHANGED <<declared, parameters, verdict>>

\* The end of the function declares its parameters, those still dangling.
BindParameters ==
    /\ Compiling
    /\ declared' = declared \cup (parameters \cap dangling)
    /\ dangling' = dangling \ parameters
    /\ UNCHANGED <<parameters, verdict>>

Judge ==
    /\ Compiling
    /\ parameters \cap dangling = {}
    /\ End(IF dangling = {} THEN "accepted" ELSE "dangling")

\* Nothing is promised of the parse itself.
Malformed == Compiling /\ End("malformed")

Next ==
    \/ \E s \in Symbols :
          Declare(s) \/ Mention(s) \/ Parameter(s) \/ Require(s) \/ Call(s)
          \/ Bind(s)
    \/ BindParameters
    \/ Judge
    \/ Malformed

Spec == Init /\ [][Next]_vars
============================================================================
