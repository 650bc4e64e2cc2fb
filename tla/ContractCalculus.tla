-------------------------- MODULE ContractCalculus --------------------------
(***************************************************************************)
(* The finite typed contract calculus (specatom_hs/contract_calculus.py):  *)
(* the type checker of terms, the check of a contract, its interpretation  *)
(* in a context and its projection to MeTTa.                               *)
(*                                                                         *)
(* A term is a record with an op.  A type is a tuple: <<"Int">>,           *)
(* <<"List", type>>, <<"Option", type>> or <<"Record", fields>>.  A value  *)
(* is a tag and what it tags: as JSON a bool, int, text, unit, list or     *)
(* record, of which the interpreter makes decimals and times.  A text is   *)
(* <<rank, kind, number>>: its place in the order of texts, and the number *)
(* or instant it stands for when its kind is decimal or time.              *)
(* Numbers are whole; names and hashes are taken to be well formed.        *)
(***************************************************************************)
EXTENDS Integers, Sequences, FiniteSets
LOCAL INSTANCE SequencesExt
LOCAL INSTANCE FiniteSetsExt
LOCAL INSTANCE Functions

CONSTANTS
    Contracts,      \* the contracts given to the calculus
    Contexts,       \* the contexts they are interpreted in
    MaxDomain,      \* MAX_QUANTIFIER_DOMAIN
    None

VARIABLES
    contract,       \* the contract at hand, or None
    checked,        \* "unchecked", "checked", "refused" (ValueError) or "crashed" (TypeError)
    context,        \* the context it was interpreted in, or None
    results,        \* the truth values of its predicates, <<Raised>>, or None
    projected       \* whether the contract was made into MeTTa, and which terms it was

vars == <<contract, checked, context, results, projected>>

-----------------------------------------------------------------------------
(* Types. *)

Scalars == {"Bool", "Int", "Text", "Decimal", "Timestamp", "Unit"}

\* canonical_type: what it accepts, recursively.
RECURSIVE IsType(_)
IsType(type) ==
    \/ Len(type) = 1 /\ type[1] \in Scalars
    \/ Len(type) = 2 /\ type[1] \in {"List", "Option"} /\ IsType(type[2])
    \/ Len(type) = 2 /\ type[1] = "Record" /\ DOMAIN type[2] # {}
         /\ \A name \in DOMAIN type[2] : IsType(type[2][name])

Tag(value) == value[1]
Of(value) == value[2]

\* _literal_type: no value is ever of an Option type.
RECURSIVE LiteralIs(_, _)
LiteralIs(value, type) ==
    CASE type[1] = "Bool" -> Tag(value) = "bool"
      [] type[1] = "Int" -> Tag(value) = "int"
      [] type[1] = "Text" -> Tag(value) = "text"
      [] type[1] = "Decimal" -> Tag(value) = "text" /\ Of(value)[2] = "decimal"
      [] type[1] = "Timestamp" -> Tag(value) = "text" /\ Of(value)[2] = "time"
      [] type[1] = "Unit" -> Tag(value) = "unit"
      [] type[1] = "List" ->
           Tag(value) = "list" /\ \A i \in DOMAIN Of(value) : LiteralIs(Of(value)[i], type[2])
      [] type[1] = "Record" ->
           /\ Tag(value) = "record" /\ DOMAIN Of(value) = DOMAIN type[2]
           /\ \A name \in DOMAIN type[2] : LiteralIs(Of(value)[name], type[2][name])
      [] OTHER -> FALSE

-----------------------------------------------------------------------------
(* type_check: the type of a term, Refused for a ValueError, Crashed for the *)
(* TypeError of looking an unhashable type up in a set of names.             *)

Bool == <<"Bool">>
Refused == <<"refused">>
Crashed == <<"crashed">>
Errors == {Refused, Crashed}

Equalities == {"eq", "ne"}
Comparisons == {"lt", "le", "gt", "ge"}
Arithmetic == {"add", "sub", "mul"}
Quantifiers == {"for-all", "exists"}
Scoped(scope, name, type) == [n \in DOMAIN scope \cup {name} |-> IF n = name THEN type ELSE scope[n]]

\* The first error among the types of operands, which are checked in order.
FirstError(types) == types[Min({i \in DOMAIN types : types[i] \in Errors})]

\* Operands of one type out of names, of which the result is made.
Operands(types, names, result) ==
    IF Range(types) \cap Errors # {} THEN FirstError(types)
    ELSE IF Cardinality(Range(types)) > 1 THEN Refused
    ELSE IF Len(types[1]) = 2 THEN Crashed
    ELSE IF types[1][1] \notin names THEN Refused ELSE result

RECURSIVE TypeOf(_, _)
TypeOf(term, scope) ==
    CASE term.op = "literal" ->
           IF IsType(term.type) /\ LiteralIs(term.value, term.type) THEN term.type ELSE Refused
      [] term.op = "var" -> IF term.name \in DOMAIN scope THEN scope[term.name] ELSE Refused
      [] term.op \in {"state", "hole"} -> IF IsType(term.type) THEN term.type ELSE Refused
      [] term.op = "now" -> <<"Timestamp">>
      [] term.op = "field" ->
           LET type == TypeOf(term.record, scope) IN
           IF type \in Errors THEN type
           ELSE IF type[1] = "Record" /\ term.name \in DOMAIN type[2] THEN type[2][term.name] ELSE Refused
      [] term.op \in Equalities ->
           LET types == <<TypeOf(term.left, scope), TypeOf(term.right, scope)>> IN
           IF Range(types) \cap Errors # {} THEN FirstError(types)
           ELSE IF types[1] = types[2] THEN Bool ELSE Refused
      [] term.op \in Comparisons ->
           Operands(<<TypeOf(term.left, scope), TypeOf(term.right, scope)>>,
                    {"Int", "Decimal", "Text", "Timestamp"}, Bool)
      [] term.op \in Arithmetic ->
           LET left == TypeOf(term.left, scope) IN
           Operands(<<left, TypeOf(term.right, scope)>>, {"Int", "Decimal"}, left)
      [] term.op = "approximately" ->
           Operands(<<TypeOf(term.expected, scope), TypeOf(term.observed, scope), TypeOf(term.tolerance, scope)>>,
                    {"Int", "Decimal"}, Bool)
      [] term.op \in {"and", "or"} ->
           LET others == {i \in DOMAIN term.args : TypeOf(term.args[i], scope) # Bool} IN
           IF term.args = <<>> THEN Refused
           ELSE IF others = {} THEN Bool
           ELSE IF TypeOf(term.args[Min(others)], scope) = Crashed THEN Crashed ELSE Refused
      [] term.op = "not" ->
           LET type == TypeOf(term.arg, scope) IN
           IF type \in {Bool, Crashed} THEN type ELSE Refused
      [] term.op \in Quantifiers ->
           LET domain == TypeOf(term.domain, scope)
               predicate == TypeOf(term.predicate, Scoped(scope, term.var, term.type)) IN
           IF ~IsType(term.type) THEN Refused
           ELSE IF domain \in Errors THEN domain
           ELSE IF domain # <<"List", term.type>> THEN Refused
           ELSE IF predicate \in {Bool, Crashed} THEN predicate ELSE Refused
      [] term.op = "trace-count" -> <<"Int">>
      [] term.op \in {"exactly-once", "before", "assumption"} -> Bool
      [] OTHER -> Refused

-----------------------------------------------------------------------------
(* check_contract. *)

Terms(c) == c.preconditions \o c.postconditions \o c.invariants \o c.temporal

Effects == {"pure", "state-read", "state-write", "trace-read", "trace-emit", "time-read"}
Owners == {"reference-interpreter", "metta", "python-grounded"}
Policies == {"deterministic", "explicit-nondeterministic"}
Distinct(seq) == Cardinality(Range(seq)) = Len(seq)

\* The output is the variable "result", whatever an input of that name is.
VariablesOf(c) ==
    LET typed == [name \in {c.inputs[i].name : i \in DOMAIN c.inputs} |->
                    (CHOOSE x \in Range(c.inputs) : x.name = name).type] IN
    Scoped(typed, "result", c.output)

InputsAreGood(c) ==
    /\ \A i, j \in DOMAIN c.inputs : i < j => c.inputs[i].name # c.inputs[j].name
    /\ \A i \in DOMAIN c.inputs : IsType(c.inputs[i].type)
    /\ IsType(c.output)

RestIsGood(c) ==
    /\ Range(c.effects) \subseteq Effects /\ Distinct(c.effects)
    /\ Distinct(c.assumptions)
    /\ \A i \in DOMAIN c.holes : IsType(c.holes[i])
    /\ c.policy \in Policies /\ c.owner \in Owners

CheckContract(c) ==
    LET untyped == {i \in DOMAIN Terms(c) : TypeOf(Terms(c)[i], VariablesOf(c)) # Bool} IN
    IF ~c.valid \/ ~InputsAreGood(c) THEN "refused"
    ELSE IF untyped # {}
    THEN IF TypeOf(Terms(c)[Min(untyped)], VariablesOf(c)) = Crashed THEN "crashed" ELSE "refused"
    ELSE IF RestIsGood(c) THEN "checked" ELSE "refused"

-----------------------------------------------------------------------------
(* Values at run time.  Raised stands for any exception. *)

Raised == <<"raised", 0>>
Truth(b) == <<"bool", b>>
IntOf(n) == <<"int", n>>
TimeOf(n) == <<"time", n>>

Whole(value) == IF Raised \in Range(Of(value)) THEN Raised ELSE value

\* _runtime_value: a decimal is read again as it is, an instant is no text.
RECURSIVE Runtime(_, _)
Runtime(value, type) ==
    CASE type[1] = "Decimal" ->
           IF Tag(value) = "text" THEN <<"decimal", Of(value)[3]>> ELSE value
      [] type[1] = "Timestamp" -> IF Tag(value) = "text" THEN TimeOf(Of(value)[3]) ELSE Raised
      [] type[1] = "List" ->
           Whole(<<"list", [i \in DOMAIN Of(value) |-> Runtime(Of(value)[i], type[2])]>>)
      [] type[1] = "Record" ->
           Whole(<<"record", [n \in DOMAIN type[2] |-> Runtime(Of(value)[n], type[2][n])]>>)
      [] OTHER -> value

Rank(value) == IF Tag(value) = "text" THEN Of(value)[1] ELSE Of(value)
Compare(op, v, w) ==
    CASE op = "eq" -> Truth(v = w)
      [] op = "ne" -> Truth(v # w)
      [] Tag(v) # Tag(w) -> Raised
      [] op = "lt" -> Truth(Rank(v) < Rank(w))
      [] op = "le" -> Truth(Rank(v) <= Rank(w))
      [] op = "gt" -> Truth(Rank(v) > Rank(w))
      [] op = "ge" -> Truth(Rank(v) >= Rank(w))

\* Two texts can be added, to a text that is no number.
Compute(op, v, w) ==
    CASE Tag(v) # Tag(w) \/ (Tag(v) = "text" /\ op # "add") -> Raised
      [] Tag(v) = "text" -> <<"text", <<100 * Of(v)[1] + Of(w)[1], "word", 0>>>>
      [] op = "add" -> <<Tag(v), Of(v) + Of(w)>>
      [] op = "sub" -> <<Tag(v), Of(v) - Of(w)>>
      [] op = "mul" -> <<Tag(v), Of(v) * Of(w)>>

Size(n) == IF n < 0 THEN -n ELSE n
Near(expected, observed, tolerance) ==
    LET apart == Compute("sub", expected, observed) IN
    IF apart = Raised \/ Tag(apart) # Tag(tolerance) THEN Raised
    ELSE Truth(Size(Of(apart)) <= Of(tolerance))

\* Fault: what raises is passed over.
SettleSkipping(values, settled) ==
    Truth(IF settled THEN Truth(TRUE) \in Range(values) ELSE Truth(FALSE) \notin Range(values))

\* all and any stop at the first value that settles them, or at an exception.
Settle(values, settled) ==
    LET ends == {i \in DOMAIN values : values[i] # Truth(~settled)} IN
    IF ends = {} THEN Truth(~settled) ELSE values[Min(ends)]

Named(trace, event) == {i \in DOMAIN trace : trace[i].name = event}

\* Fault: any event of the one name before any of the other.
BeforeAny(trace, first, second) ==
    IF \E i \in Named(trace, first) \cup Named(trace, second) : trace[i].at = None THEN Raised
    ELSE Truth(\E i \in Named(trace, first), j \in Named(trace, second) :
                   trace[i].at < trace[j].at \/ (trace[i].at = trace[j].at /\ i < j))

\* The earliest events of two names, the place in the trace breaking a tie;
\* a time that is not canonical raises.
Before(trace, first, second) ==
    LET Earlier(i, j) == trace[i].at < trace[j].at \/ (trace[i].at = trace[j].at /\ i < j)
        met == Named(trace, first) \cup Named(trace, second) IN
    IF \E i \in met : trace[i].at = None THEN Raised
    ELSE Truth(/\ Named(trace, second) # {}
               /\ \E i \in Named(trace, first) : \A j \in Named(trace, second) : Earlier(i, j))

\* _value: c is the contract, x the context, bound the quantified variables.
RECURSIVE Value(_, _, _, _)
Value(term, c, x, bound) ==
    CASE term.op = "literal" ->
           IF term.type[1] \in {"Decimal", "Timestamp"} THEN Runtime(term.value, term.type) ELSE term.value
      [] term.op = "var" ->
           IF term.name \in DOMAIN bound THEN bound[term.name]
           ELSE Runtime(x.variables[term.name], VariablesOf(c)[term.name])
      [] term.op = "state" ->
           IF term.key \in DOMAIN x.state /\ LiteralIs(x.state[term.key], term.type)
           THEN Runtime(x.state[term.key], term.type) ELSE Raised
      [] term.op = "now" -> IF x.now = None THEN Raised ELSE TimeOf(x.now)
      [] term.op = "field" ->
           LET record == Value(term.record, c, x, bound) IN
           IF record = Raised THEN Raised ELSE Of(record)[term.name]
      [] term.op \in Equalities \cup Comparisons \cup Arithmetic ->
           LET left == Value(term.left, c, x, bound)
               right == Value(term.right, c, x, bound) IN
           IF Raised \in {left, right} THEN Raised
           ELSE IF term.op \in Arithmetic THEN Compute(term.op, left, right) ELSE Compare(term.op, left, right)
      [] term.op = "approximately" ->
           LET values == [part \in {"expected", "observed", "tolerance"} |-> Value(term[part], c, x, bound)] IN
           IF Raised \in Range(values) THEN Raised
           ELSE Near(values.expected, values.observed, values.tolerance)
      [] term.op \in {"and", "or"} ->
           Settle([i \in DOMAIN term.args |-> Value(term.args[i], c, x, bound)], term.op = "or")
      [] term.op = "not" ->
           LET value == Value(term.arg, c, x, bound) IN
           IF value = Raised THEN Raised ELSE Truth(~Of(value))
      [] term.op \in Quantifiers ->
           LET domain == Value(term.domain, c, x, bound)
               item(i) == Runtime(Of(domain)[i], term.type)
               holds(i) == IF item(i) = Raised THEN Raised
                           ELSE Value(term.predicate, c, x, Scoped(bound, term.var, item(i))) IN
           IF domain = Raised THEN Raised
           ELSE IF Len(Of(domain)) > MaxDomain THEN Raised
           ELSE Settle([i \in DOMAIN Of(domain) |-> holds(i)], term.op = "exists")
      [] term.op = "trace-count" -> IntOf(Cardinality(Named(x.trace, term.event)))
      [] term.op = "exactly-once" -> Truth(Cardinality(Named(x.trace, term.event)) = 1)
      [] term.op = "before" -> Before(x.trace, term.first, term.second)
      [] term.op = "assumption" -> Truth(term.ref \in x.assumptions)
      [] OTHER -> Raised

-----------------------------------------------------------------------------
(* interpret_contract and project_contract_to_metta. *)

\* The context approves every assumption and gives every variable a value.
Suits(c, x) ==
    /\ Range(c.assumptions) \subseteq x.assumptions
    /\ \A name \in DOMAIN VariablesOf(c) :
         name \in DOMAIN x.variables /\ LiteralIs(x.variables[name], VariablesOf(c)[name])

InterpretContract(c, x) ==
    LET values == [i \in DOMAIN Terms(c) |-> Value(Terms(c)[i], c, x, <<>>)] IN
    IF c.holes # <<>> \/ ~Suits(c, x) \/ Raised \in Range(values) THEN <<Raised>>
    ELSE values

Satisfied(values) == Range(values) \subseteq {Truth(TRUE)}

\* A subterm of a term, at any depth, the term included.
RECURSIVE Subterms(_)
Subterms(term) ==
    {term} \cup UNION {Subterms(part) :
        part \in {term[field] : field \in DOMAIN term \cap
                    {"record", "left", "right", "arg", "domain", "predicate", "expected", "observed", "tolerance"}}
                 \cup (IF term.op \in {"and", "or"} THEN Range(term.args) ELSE {})}

HasHole(term) == \E part \in Subterms(term) : part.op = "hole"

NoMetta == [made |-> FALSE, terms |-> <<>>]

\* _metta lays a term out as it is, and raises at a hole.
ProjectContract(c) ==
    IF c.holes # <<>> \/ \E term \in Range(Terms(c)) : HasHole(term) THEN NoMetta
    ELSE [made |-> TRUE, terms |-> Terms(c)]

-----------------------------------------------------------------------------
\* One contract: checked, interpreted in some contexts, projected.

Init ==
    contract = None /\ checked = "unchecked" /\ context = None /\ results = None /\ projected = NoMetta

Check(c) ==
    /\ contract = None
    /\ contract' = c /\ checked' = CheckContract(c)
    /\ UNCHANGED <<context, results, projected>>

\* Both check the contract first.
Interpret(x) ==
    /\ contract # None
    /\ context' = x
    /\ results' = IF checked = "checked" THEN InterpretContract(contract, x) ELSE <<Raised>>
    /\ UNCHANGED <<contract, checked, projected>>

Project ==
    /\ contract # None
    /\ projected' = IF checked = "checked" THEN ProjectContract(contract) ELSE NoMetta
    /\ UNCHANGED <<contract, checked, context, results>>

Next ==
    \/ \E c \in Contracts : Check(c)
    \/ \E x \in Contexts : Interpret(x)
    \/ Project

Spec == Init /\ [][Next]_vars

-----------------------------------------------------------------------------
(* Properties. *)

Interpreted == results # None /\ results # <<Raised>>

\* A contract that was checked gives truth values and nothing else, whatever
\* the context; only an order or a sum of compound values crashes the check.
ChecksGiveTruthValues ==
    /\ Interpreted =>
         /\ checked = "checked" /\ Len(results) = Len(Terms(contract))
         /\ Range(results) \subseteq {Truth(TRUE), Truth(FALSE)}
    /\ checked = "crashed" =>
         \E term \in Range(Terms(contract)) : \E part \in Subterms(term) :
             part.op \in Comparisons \cup Arithmetic \cup {"approximately"}

\* What a term means: every value is what its type says from the start, and a
\* conjunction or a quantified predicate holds of all or of some.
Holds(value) == value = Truth(TRUE)

RECURSIVE Meaning(_, _, _, _)
Meaning(term, c, x, bound) ==
    CASE term.op = "literal" -> Runtime(term.value, term.type)
      [] term.op = "field" -> Of(Meaning(term.record, c, x, bound))[term.name]
      [] term.op \in Equalities \cup Comparisons ->
           Compare(term.op, Meaning(term.left, c, x, bound), Meaning(term.right, c, x, bound))
      [] term.op \in Arithmetic ->
           Compute(term.op, Meaning(term.left, c, x, bound), Meaning(term.right, c, x, bound))
      [] term.op = "approximately" ->
           Near(Meaning(term.expected, c, x, bound), Meaning(term.observed, c, x, bound),
                Meaning(term.tolerance, c, x, bound))
      [] term.op = "and" -> Truth(\A arg \in Range(term.args) : Holds(Meaning(arg, c, x, bound)))
      [] term.op = "or" -> Truth(\E arg \in Range(term.args) : Holds(Meaning(arg, c, x, bound)))
      [] term.op = "not" -> Truth(~Holds(Meaning(term.arg, c, x, bound)))
      [] term.op = "for-all" ->
           Truth(\A item \in Range(Of(Meaning(term.domain, c, x, bound))) :
                     Holds(Meaning(term.predicate, c, x, Scoped(bound, term.var, item))))
      [] term.op = "exists" ->
           Truth(\E item \in Range(Of(Meaning(term.domain, c, x, bound))) :
                     Holds(Meaning(term.predicate, c, x, Scoped(bound, term.var, item))))
      [] term.op = "before" ->
           LET times(event) == {<<x.trace[i].at, i>> : i \in Named(x.trace, event)}
               earlier(s, t) == s[1] < t[1] \/ (s[1] = t[1] /\ s[2] < t[2]) IN
           Truth(/\ times(term.second) # {}
                 /\ \E s \in times(term.first) : \A t \in times(term.second) : earlier(s, t))
      [] OTHER -> Value(term, c, x, bound)

Parts(c) == UNION {Subterms(term) : term \in Range(Terms(c))}

\* Nothing the contract asks of the context is missing, and no list is longer
\* than a quantifier may range over.
Complete(c, x) ==
    /\ c.holes = <<>> /\ Suits(c, x)
    /\ \A part \in Parts(c) :
         /\ part.op # "hole"
         /\ part.op = "state" => part.key \in DOMAIN x.state /\ LiteralIs(x.state[part.key], part.type)
         /\ part.op = "now" => x.now # None
         /\ part.op = "before" => \A i \in DOMAIN x.trace : x.trace[i].at # None
    /\ \A value \in Range(x.variables) \cup Range(x.state)
                    \cup {part.value : part \in {part \in Parts(c) : part.op = "literal"}} :
         Tag(value) = "list" => Len(Of(value)) <= MaxDomain

RECURSIVE Mentions(_, _)
Mentions(type, names) ==
    IF Len(type) = 1 THEN type[1] \in names
    ELSE IF type[1] = "Record" THEN \E name \in DOMAIN type[2] : Mentions(type[2][name], names)
    ELSE Mentions(type[2], names)

\* Decimals and times inside a compound literal stay texts, and a quantified
\* time is read as a text a second time.
Misread(part) ==
    \/ part.op = "literal" /\ Len(part.type) = 2 /\ Mentions(part.type, {"Decimal", "Timestamp"})
    \/ part.op \in Quantifiers /\ Mentions(part.type, {"Timestamp"})

\* In a context that has all a checked contract asks for, every predicate gets
\* the value its meaning gives it, and nothing raises: stopping early, reading
\* values as they are needed and shadowing by bound variables change nothing.
\* The terms that are misread are left out; they show where it fails.
EvaluationIsMeaning ==
    /\ ChecksGiveTruthValues
    /\ (results # None /\ checked = "checked" /\ Complete(contract, context)
            /\ ~\E part \in Parts(contract) : Misread(part)) =>
        results = [i \in DOMAIN Terms(contract) |-> Meaning(Terms(contract)[i], contract, context, <<>>)]

\* A term whose Boolean and integer holes are filled in.
Filling(type, n) == IF type = Bool THEN Truth(n = 1) ELSE IntOf(n)
RECURSIVE Filled(_, _)
Filled(term, n) ==
    CASE term.op = "hole" -> [op |-> "literal", type |-> term.type, value |-> Filling(term.type, n)]
      [] term.op \in {"and", "or"} ->
           [term EXCEPT !.args = [i \in DOMAIN term.args |-> Filled(term.args[i], n)]]
      [] term.op = "not" -> [term EXCEPT !.arg = Filled(@, n)]
      [] term.op \in Equalities \cup Comparisons \cup Arithmetic ->
           [term EXCEPT !.left = Filled(@, n), !.right = Filled(@, n)]
      [] term.op \in Quantifiers -> [term EXCEPT !.domain = Filled(@, n), !.predicate = Filled(@, n)]
      [] OTHER -> term

\* "Unsupported meaning ... cannot be evaluated or projected": a contract may
\* be interpreted past a hole that is never reached, but then no filling of it
\* would change any result, and such a contract never becomes MeTTa.
HolesDecideNothing ==
    Interpreted =>
        /\ \A n \in {0, 1} : \A i \in DOMAIN results :
             Value(Filled(Terms(contract)[i], n), contract, context, <<>>) = results[i]
        /\ projected.made => \A part \in Parts(contract) : part.op # "hole"
=============================================================================
