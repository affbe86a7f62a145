------------------------------ MODULE MCRadix -------------------------------
(* Applications for the router: the files in the order of filepath.Walk,   *)
(* which visits the entries of a directory by name ([ and _ come before    *)
(* the letters, { after them).                                             *)
EXTENDS Radix

Plain(word)      == [form |-> "plain", name |-> word]
Spelt(form, x)   == [form |-> form, name |-> x]
At(dirs, base)   == [dirs |-> dirs, base |-> base]

AA == Plain(<<"a", "a">>)
AB == Plain(<<"a", "b">>)
AC == Plain(<<"a", "c">>)
B  == Plain(<<"b">>)
AP == Plain(Api)
X_ == Spelt("x_", "x")

MCCharacters == {"/", "a", "b", "c", "i", "p"}
MCBraced == [x |-> "{x}", i |-> "{i}"] @@ ("...r" :> "{...r}")
MCParam == ("{x}" :> "x") @@ ("{i}" :> "i") @@ ("{...r}" :> "r")
MCWords == {<<"a">>, <<"a", "b">>, <<"a", "c">>, <<"b">>, Api}

\* Placeholders before and after page.templ, two spellings of one name, a
\* rest, API routes, a private directory, texts that share their beginnings.
MCFiles ==
  << At(<<Spelt("_x", "x")>>, "page.templ"),
     At(<<AA>>, "page.templ"),
     At(<<AB, Spelt("[x]", "x"), Spelt("[x]", "i")>>, "page.templ"),
     At(<<AB, Spelt("[x]", "x")>>, "page.templ"), At(<<AB, B>>, "page.templ"),
     At(<<AB>>, "layout.templ"), At(<<AB>>, "page.templ"),
     At(<<AB, X_, B>>, "page.templ"), At(<<AB, X_>>, "route.go"),
     At(<<AC, Spelt("[x]", "...r")>>, "route.go"),
     At(<<AP>>, "page.templ"),
     At(<<B, Spelt("x_", "i")>>, "page.templ"), At(<<B>>, "page.templ"),
     At(<<>>, "page.templ"), At(<<>>, "route.go"),
     At(<<X_, B>>, "page.templ"), At(<<X_>>, "page.templ"), At(<<X_, X_>>, "route.go") >>
=============================================================================
