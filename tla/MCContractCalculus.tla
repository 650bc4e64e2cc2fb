------------------------- MODULE MCContractCalculus -------------------------
(* Contracts and contexts for ContractCalculus. *)
EXTENDS ContractCalculus

Int1 == <<"Int">>
Text1 == <<"Text">>
Decimal1 == <<"Decimal">>
Time1 == <<"Timestamp">>
ListOf(type) == <<"List", type>>
RecordOf(type) == <<"Record", [f |-> type]>>

\* Texts: two spellings of one decimal, two times and a word.
One == <<"text", <<1, "decimal", 1>>>>
OnePointZero == <<"text", <<2, "decimal", 1>>>>
Monday == <<"text", <<3, "time", 1>>>>
Tuesday == <<"text", <<4, "time", 2>>>>
Word == <<"text", <<5, "word", 0>>>>

Lit(type, value) == [op |-> "literal", type |-> type, value |-> value]
Var(name) == [op |-> "var", name |-> name]
State(key, type) == [op |-> "state", key |-> key, type |-> type]
Now == [op |-> "now"]
FieldOf(record) == [op |-> "field", record |-> record, name |-> "f"]
Hole(type) == [op |-> "hole", type |-> type]
Binary(op, left, right) == [op |-> op, left |-> left, right |-> right]
Many(op, args) == [op |-> op, args |-> args]
Not(arg) == [op |-> "not", arg |-> arg]
Quantified(op, type, domain, predicate) ==
    [op |-> op, var |-> "v", type |-> type, domain |-> domain, predicate |-> predicate]
Events(op) == [op |-> op, event |-> "start"]
Earlier(first, second) == [op |-> "before", first |-> first, second |-> second]
About(expected, observed, tolerance) ==
    [op |-> "approximately", expected |-> expected, observed |-> observed, tolerance |-> tolerance]
Assume == [op |-> "assumption", ref |-> "clock"]

\* Operands, one or two of each type, and operands that have none.
Atoms ==
    {Lit(Int1, IntOf(1)), Var("n"), State("count", Int1), Events("trace-count"),
     Lit(Decimal1, One), Lit(Decimal1, Word), Var("d"), Lit(Time1, Monday), Now, Var("t"),
     Lit(Text1, Word), Var("nowhere"), FieldOf(Var("r")), FieldOf(Lit(RecordOf(Decimal1), <<"record", [f |-> One]>>)),
     Lit(ListOf(Decimal1), <<"list", <<One>>>>), Var("ds"), Var("r"), Hole(Int1), Hole(Bool)}

True == Lit(Bool, Truth(TRUE))
False == Lit(Bool, Truth(FALSE))
Booleans == {True, Var("v"), Hole(Bool), Lit(Int1, IntOf(1)), Binary("lt", Var("ds"), Var("ds")),
             State("ready", Bool), Not(Assume)}

Bodies ==
    {Binary("eq", Var("v"), Lit(Int1, IntOf(1))), Binary("eq", Var("v"), Lit(Decimal1, OnePointZero)),
     Binary("le", Var("v"), Now), Hole(Bool), Var("v"), FieldOf(Var("v"))}
Domains ==
    {<<Int1, Var("ns")>>, <<Int1, Var("long")>>, <<Decimal1, Var("ds")>>,
     <<Decimal1, Lit(ListOf(Decimal1), <<"list", <<One, OnePointZero>>>>)>>,
     <<Time1, Var("ts")>>, <<Time1, Lit(ListOf(Time1), <<"list", <<Monday>>>>)>>,
     <<Int1, Lit(ListOf(Int1), <<"list", <<>>>>)>>, <<Text1, Var("ns")>>}

Predicates ==
    {Binary(op, left, right) : op \in {"eq", "le"}, left \in Atoms, right \in Atoms}
    \cup {Many(op, args) : op \in {"and", "or"}, args \in {<<>>} \cup (Booleans \X (Booleans \cup {False}))}
    \cup {Not(Many(op, <<a, b>>)) : op \in {"and", "or"}, a \in {True, False}, b \in {Hole(Bool), False}}
    \cup {Quantified(op, pair[1], pair[2], body) : op \in Quantifiers, pair \in Domains, body \in Bodies}
    \cup {Binary("eq", Binary(op, left, left), right) :
            op \in Arithmetic, left \in Atoms, right \in {Var("n"), Var("d"), Var("r")}}
    \cup {About(e, o, Lit(Int1, IntOf(1))) : e \in {Var("n"), Var("d"), Hole(Int1)}, o \in {Var("n"), State("count", Int1)}}
    \cup {Quantified("for-all", Int1, Var("ns"), Quantified("exists", Int1, Var("ns"), Binary(op, Var("v"), Var("n")))) :
            op \in Comparisons \cup Equalities}
    \cup {Earlier("start", "end"), Earlier("start", "start"), Events("exactly-once"), Events("trace-count"),
          [op |-> "exec"]}

Typed(name, type) == [name |-> name, type |-> type]
Base ==
    [inputs |-> <<Typed("n", Int1), Typed("d", Decimal1), Typed("t", Time1), Typed("ns", ListOf(Int1)),
                  Typed("long", ListOf(Int1)), Typed("ds", ListOf(Decimal1)), Typed("ts", ListOf(Time1)),
                  Typed("r", RecordOf(Decimal1))>>,
     output |-> Int1, preconditions |-> <<>>, postconditions |-> <<>>, invariants |-> <<>>, temporal |-> <<>>,
     effects |-> <<"pure">>, assumptions |-> <<>>, holes |-> <<>>, policy |-> "deterministic",
     owner |-> "metta", valid |-> TRUE]

\* One predicate per contract, then two, then everything else that is checked.
MCContracts ==
    {[Base EXCEPT !.postconditions = <<p>>] : p \in Predicates}
    \cup {[Base EXCEPT !.preconditions = <<True>>, !.invariants = <<p>>, !.temporal = <<Events("exactly-once")>>] :
            p \in Booleans \ {Var("v")}}
    \cup {[Base EXCEPT !.assumptions = a, !.holes = h, !.effects = e] :
            a \in {<<>>, <<"clock">>, <<"clock", "clock">>}, h \in {<<>>, <<Bool>>, <<<<"Set">>>>},
            e \in {<<"pure">>, <<"pure", "pure">>, <<"network">>}}
    \cup {[Base EXCEPT !.valid = FALSE], [Base EXCEPT !.owner = "nobody"], [Base EXCEPT !.policy = "any"],
          [Base EXCEPT !.inputs = <<Typed("n", Int1), Typed("n", Int1)>>],
          [Base EXCEPT !.inputs = <<Typed("result", Text1)>>],
          [Base EXCEPT !.inputs = <<Typed("n", <<"Option", Int1>>)>>],
          [Base EXCEPT !.output = <<"Record", <<>>>>]}

\* A full context, and ones that lack or add something.
Full ==
    [variables |-> [n |-> IntOf(1), d |-> One, t |-> Monday, ns |-> <<"list", <<IntOf(1), IntOf(2)>>>>,
                    long |-> <<"list", <<IntOf(1)>>>>, ds |-> <<"list", <<One, OnePointZero>>>>,
                    ts |-> <<"list", <<Monday, Tuesday>>>>, r |-> <<"record", [f |-> OnePointZero]>>,
                    result |-> IntOf(0)],
     state |-> [count |-> IntOf(1), ready |-> Truth(FALSE)], now |-> 2,
     trace |-> <<[name |-> "end", at |-> 3], [name |-> "start", at |-> 2], [name |-> "end", at |-> 2]>>,
     assumptions |-> {"clock"}]
MCContexts ==
    {Full,
     [Full EXCEPT !.now = None, !.assumptions = {},
                  !.trace = <<[name |-> "start", at |-> 1], [name |-> "end", at |-> None]>>],
     [Full EXCEPT !.trace = <<[name |-> "start", at |-> 3], [name |-> "end", at |-> 2], [name |-> "start", at |-> 4],
                              [name |-> "end", at |-> 5]>>,
                  !.variables.ns = <<"list", <<>>>>, !.state.count = Word],
     [Full EXCEPT !.variables.long = <<"list", <<IntOf(1), IntOf(1), IntOf(1)>>>>, !.state = [other |-> Word],
                  !.trace = <<>>],
     [Full EXCEPT !.variables.n = Word]}
=============================================================================
