----------------------------- MODULE MCToolchain ----------------------------
(***************************************************************************)
(* Programs put together from a few statements of main, f and h, where     *)
(*   f(x, n) keeps x in a, writes through it in a loop, hands x on to h,   *)
(*   h(y, k) keeps y in b and writes through it,                           *)
(* and what SVF answers about them.                                        *)
(***************************************************************************)
EXTENDS Toolchain

V(name) == <<name, 0>>

MCNull == V("null")

Op(op, fn, name) ==
  [id |-> V(name), fn |-> Function(fn), op |-> op, callee |-> Function(""), args |-> << >>,
   refs |-> << >>, loop |-> FALSE]

CallTo(callee, fn, name, args) ==
  [Op("call", fn, name) EXCEPT !.callee = Function(callee), !.args = args]

Looped(i) == [i EXCEPT !.loop = TRUE]

\* The functions themselves, and what every program has.
MCCore == {Op("alloca", "main", "buf"), Op("ret", "main", "end"),
           Op("alloca", "f", "a"), Looped(Op("store", "f", "*a=")),
           CallTo("h", "f", "h(x)", <<V("x"), V("n")>>),
           Op("alloca", "main", "p"), Looped(CallTo("malloc", "main", "m", <<V("n")>>)),
           Looped(Op("alloca", "main", "s")), Op("alloca", "main", "t"),
           Op("alloca", "h", "b"), Op("store", "h", "*b="), Op("ret", "h", "endh")}

\* The statements a program may have; each is a set of instructions.
MCScanf   == {CallTo("scanf", "main", "scanf(buf)", <<V("fmt"), V("buf")>>)}
MCScanS   == {Looped(CallTo("__isoc99_scanf", "main", "scanf(s)", <<V("fmt"), V("s")>>))}
MCFscanf  == {CallTo("fscanf", "main", "fscanf(buf)", <<V("in"), V("fmt"), V("buf")>>)}
MCFgetc   == {CallTo("fgetc", "main", "fgetc", <<V("in")>>),
              Op("inttoptr", "main", "ptr"), Op("store", "main", "*ptr=")}
MCStrcpy  == {CallTo("strcpy", "h", "strcpy(y)", <<V("y"), V("buf")>>)}
MCMemcpy  == {Looped(CallTo("memcpy", "f", "memcpy(m)", <<V("m"), V("buf"), V("n")>>))}
MCCallBuf == {CallTo("f", "main", "f(buf)", <<V("buf"), V("n")>>)}
MCCallM   == {CallTo("f", "main", "f(m)", <<V("m"), V("n")>>)}
MCCallS   == {CallTo("h", "main", "h(s)", <<V("s"), V("n")>>)}
MCCallArg == {CallTo("h", "main", "h(argv)", <<V("argv"), V("n")>>),
              CallTo("f", "main", "f(null)", <<MCNull, V("n")>>)}
MCUnkept  == {CallTo("fgetc", "main", "unkept", <<V("in")>>)}             \* an answer never stored
MCIndir   == {Op("icall", "main", "(*fp)()")}

\* Statements the tools are not made for.
MCGets    == {CallTo("gets", "main", "gets(buf)", <<V("buf")>>)}
MCShort   == {CallTo("sscanf", "main", "sscanf()", <<V("in")>>)}
MCCallQ   == {CallTo("h", "main", "h(q)", <<V("q"), V("n")>>),            \* any other call's answer
              CallTo("next", "main", "q", << >>)}
MCCallW   == {CallTo("h", "main", "h(w)", <<V("w"), V("n")>>),            \* malloc kept nowhere
              CallTo("malloc", "main", "w", << >>)}
MCCopyQ   == {CallTo("next", "main", "q", << >>), CallTo("strcpy", "main", "strcpy(q)", <<V("q"), V("buf")>>)}
MCScanQ   == {CallTo("next", "main", "q", << >>), CallTo("scanf", "main", "scanf(q)", <<V("fmt"), V("q")>>)}
MCCallT   == {CallTo("h", "main", "h(t)", <<V("t"), V("n")>>)}            \* a structure without a path
MCStore   == {Op("alloca", "main", "lost"), Op("alloca", "main", "lost2"),
              CallTo("scanf", "main", "scanf(lost)", <<V("fmt"), V("lost")>>),
              Op("store", "main", "*lost=")}

MCStatements ==
  "scanf" :> MCScanf @@ "scanf s" :> MCScanS @@ "fscanf" :> MCFscanf @@ "fgetc" :> MCFgetc @@ "strcpy" :> MCStrcpy
  @@ "memcpy" :> MCMemcpy @@ "call buf" :> MCCallBuf @@ "call m" :> MCCallM @@ "call s" :> MCCallS
  @@ "call argv" :> MCCallArg

MCOdd == "gets" :> MCGets @@ "short" :> MCShort @@ "call q" :> MCCallQ @@ "call w" :> MCCallW
         @@ "strcpy q" :> MCCopyQ @@ "scanf q" :> MCScanQ @@ "call t" :> MCCallT
         @@ "lost" :> MCStore @@ "unkept" :> MCUnkept @@ "indirect" :> MCIndir

MCCode(S) == MCCore \cup UNION {(MCStatements @@ MCOdd)[s] : s \in S}

-----------------------------------------------------------------------------
MCNames == {"buf", "end", "a", "*a=", "h(x)", "b", "*b=", "endh", "scanf(buf)", "scanf(s)", "fscanf(buf)", "fmt", "s",
            "fgetc", "ptr", "*ptr=", "strcpy(y)", "memcpy(m)", "m", "p", "f(buf)", "f(m)",
            "h(s)", "h(argv)", "f(null)", "(*fp)()", "gets(buf)", "sscanf()", "h(q)", "q",
            "h(w)", "w", "strcpy(q)", "scanf(q)", "h(t)", "t", "scanf(lost)", "lost", "lost2", "*lost=", "unkept",
            "g", "null"}

MCValues == MCNames \X (0 .. 2)

MCKind(x) ==
  CASE x \in {V(n) : n \in {"buf", "a", "b", "s", "p", "t", "lost"}} -> "alloca"
    [] x \in {V("m"), V("w")} -> "dyn"
    [] x \in {V("g"), V("fmt")} -> "global"
    [] x = V("q") -> "call"
    [] OTHER -> "other"

\* s and t are structures of a pair, at whose second field is an array.
MCType(x) == CASE x \in {V("s"), V("t")} -> "outer*"
               [] x \in {V("a"), V("b"), V("p"), V("lost")} -> "ptr"
               [] OTHER -> "array"

MCKindOf ==
  [x \in MCValues |-> MCKind(x)]

MCTargetsOf ==
  V("m") :> <<V("p")>>

MCDefsOf ==
  V("buf") :> <<V("buf")>> @@ V("fmt") :> <<V("fmt")>> @@ V("s") :> <<V("s")>> @@ V("got") :> <<V("g")>>
            @@ V("y") :> <<V("b"), V("buf"), V("s")>> @@ V("m") :> <<V("p"), V("m")>>
            @@ V("q") :> <<V("q")>> @@ V("w") :> <<V("w")>> @@ V("t") :> <<V("t")>>
            @@ V("lost") :> <<V("lost")>>

MCStoreDefsOf ==
  V("*a=") :> <<V("a"), V("buf"), V("m")>> @@ V("*b=") :> <<V("buf"), V("b"), V("s")>>
                 @@ V("*ptr=") :> <<V("g")>>

MCStoresOf ==
  V("buf") :> <<V("*a="), V("*b=")>> @@ V("s") :> <<V("*b=")>>
              @@ V("ptr") :> <<V("*ptr="), V("*b=")>> @@ V("g") :> <<V("*a=")>>
              @@ V("lost") :> <<V("*lost=")>>

MCGotOf ==
  V("fgetc") :> V("got")

MCStructOf ==
  {V("s"), V("t")}

MCTypeOf ==
  [x \in MCValues |-> MCType(x)]

MCAllocOf ==
  [x \in MCValues |-> IF MCType(x) = "outer*" THEN "outer" ELSE MCType(x)]

MCFieldsOf ==
  "outer*" :> <<"int", "pair">> @@ "pair" :> <<"int", "array">>

MCPointersOf ==
  {"outer*"}

MCAggregateOf ==
  {"outer", "pair"}

MCSizeOf ==
  "int" :> 4 @@ "ptr" :> 4 @@ "array" :> 6 @@ "pair" :> 12 @@ "outer" :> 16

MCGepsOf ==
  <<V("s"), V("*b=")>> :> << << <<1, 1>> >>, << <<1>>, <<1>> >>, << >> >>
            @@ <<V("s"), V("strcpy(y)")>> :> << << <<1>>, <<Varies, 0>> >> >>
            @@ <<V("s"), V("ptr")>> :> << << <<0>> >> >>
            @@ <<V("s"), V("scanf(s)")>> :> << << <<0>> >> >>
            @@ <<V("s"), V("s")>> :> << << >>, << <<1, 1>> >> >>

MCDominatorsOf ==
  {V("a"), V("b"), V("p"), V("lost")}

MCFirstDomOf ==
  V("*a=") :> V("a") @@ V("*b=") :> V("b") @@ V("strcpy(y)") :> V("b")
                @@ V("*ptr=") :> V("s") @@ V("*lost=") :> V("lost2")

MCAliasesOf ==
  {<<V("x"), "f", "x">>, <<V("y"), "h", "y">>, <<V("argv"), "main", "argv">>,
                <<V("n"), "f", "n">>}

MCArgStoresOf ==
  V("a") :> <<[fn |-> "main", src |-> V("x")], [fn |-> "f", src |-> V("n2")],
                             [fn |-> "f", src |-> V("x")]>>
                 @@ V("b") :> <<[fn |-> "h", src |-> V("y")]>>
                 @@ V("s") :> <<[fn |-> "f", src |-> V("x")]>>

MCCallBlocksOf ==
  V("ptr") :> <<V("fgetc"), V("next")>>

MCSvf ==
  [kind |-> MCKindOf,
   targets |-> MCTargetsOf,
   defs |-> MCDefsOf,
   storeDefs |-> MCStoreDefsOf,
   stores |-> MCStoresOf,
   got |-> MCGotOf,
   struct |-> MCStructOf,
   type |-> MCTypeOf,
   alloc |-> MCAllocOf,
   fields |-> MCFieldsOf,
   pointers |-> MCPointersOf,
   aggregate |-> MCAggregateOf,
   size |-> MCSizeOf,
   geps |-> MCGepsOf,
   dominators |-> MCDominatorsOf,
   firstDom |-> MCFirstDomOf,
   aliases |-> MCAliasesOf,
   argStores |-> MCArgStoresOf,
   callBlocks |-> MCCallBlocksOf]

MCProgram(S) ==
  [functions |-> <<"main", "f", "h">>,
   params |-> "main" :> <<[name |-> "argv", pointer |-> TRUE]>>
              @@ "f" :> <<[name |-> "x", pointer |-> TRUE], [name |-> "n", pointer |-> FALSE]>>
              @@ "h" :> <<[name |-> "y", pointer |-> TRUE], [name |-> "k", pointer |-> FALSE]>>,
   code |-> MCCode(S),
   taken |-> IF "indirect" \in S THEN {"h"} ELSE {},
   values |-> {V("g"), V("fmt")} \cup {i.id : i \in MCCode(S)}
              \cup {<<i.id[1], n>> : i \in {j \in MCCode(S) : j.op = "call"}, n \in 1..2}]

\* Two statements the tools handle, or one of the others.
MCPrograms ==
  {MCProgram({s, t}) : s, t \in DOMAIN MCStatements}
  \cup {MCProgram({"scanf", s}) : s \in DOMAIN MCOdd}
=============================================================================
