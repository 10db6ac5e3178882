--------------------------- MODULE MCServiceCall ---------------------------
(* The service's own interface against itself and against other builds,    *)
(* each of which differs in one of the methods Some.                       *)
EXTENDS ServiceCall, SelfService

Some == {"OpenPrinterW", "WritePrinter", "DocumentPropertiesW", "EnumPrintersW", "CloseUsbPort"}

Plain(m) == Service[m].args # <<>> /\ Service[m].args[1].type # "T_STRUCT"
Structured(m) == Service[m].args # <<>> /\ Service[m].args[1].type = "T_STRUCT"

Differences ==
    {<<"none", "none">>}
    \cup ({"lacks method", "more arguments", "other result"} \X Some)
    \cup ({"fewer arguments", "other argument"} \X {m \in Some : Plain(m)})
    \cup ({"fewer fields"} \X {m \in Some : Structured(m)})
    \cup {<<"other map inside", "EnumPrintersW">>}
    \cup ({"other map"} \X {"OpenPrinterW", "WritePrinter"})

Fewer(fields) == SubSeq(fields, 1, Len(fields) - 1)
Retyped(f) == [f EXCEPT !.type = IF @ = "T_I32" THEN "T_I64" ELSE "T_I32", !.of = <<>>]
WithLast(fields, f) == [fields EXCEPT ![Len(fields)] = f]

Differing(how, m) ==
    LET args == Service[m].args
        WithArgs(a) == [Service EXCEPT ![m].args = a]
    IN CASE how = "none" -> Service
         [] how = "lacks method" -> [x \in DOMAIN Service \ {m} |-> Service[x]]
         [] how = "fewer arguments" -> WithArgs(Fewer(args))
         [] how = "more arguments" -> WithArgs(Append(args, I32("added")))
         [] how = "other argument" -> WithArgs([args EXCEPT ![1] = Retyped(@)])
         [] how = "fewer fields" -> WithArgs(<<[args[1] EXCEPT !.of = Fewer(@)]>>)
         [] how = "other map inside" ->
                WithArgs(<<[args[1] EXCEPT !.of = WithLast(@, Map(@[Len(@)].name, "T_I64"))]>>)
         [] how = "other result" -> [Service EXCEPT ![m].result = Retyped(@)]
         [] how = "other map" -> [Service EXCEPT ![m].result.of = <<"T_STRING">>]

OtherBuilds == [d \in Differences |-> Differing(d[1], d[2])]

=============================================================================
