------------------------------ MODULE MCDocHealing ------------------------------
(* Three sections in two documents and one in a generated document; the pull   *)
(* request changes one source file.                                            *)
EXTENDS DocHealing

Decl(kind, name, contract, public) ==
  [kind |-> kind, name |-> name, contract |-> contract, public |-> public, special |-> FALSE]

File(language, old, new) ==
  [path |-> language, language |-> language, excluded |-> FALSE, old |-> old, new |-> new]

\* A function's signature changes, and that of a private helper, which nobody
\* documents.
Signature ==
  File("python", <<Decl("python_function", "f", "v1", TRUE), Decl("python_function", "_g", "v1", FALSE)>>,
                 <<Decl("python_function", "f", "v2", TRUE), Decl("python_function", "_g", "v2", FALSE)>>)

Route(name, callee) ==
  [kind |-> "go_route", name |-> name, callee |-> callee, contract |-> "v1", public |-> TRUE,
   special |-> FALSE]

\* The first of two route registrations is removed; a route goes to another mux.
RouteRemoved == File("go", <<Route("/a", "mux"), Route("/b", "mux")>>, <<Route("/b", "mux")>>)
RouteMoved == File("go", <<Route("/a", "mux")>>, <<Route("/a", "admin")>>)

MCDocOf == <<1, 1, 2, 3>>
MCDiffs == {{Signature}, {RouteRemoved}, {RouteMoved}, {File("python", NoFile, Malformed)},
            {[Signature EXCEPT !.excluded = TRUE]}}
MCDocStates == {<<>>, <<"plain", "plain", "long", "plain">>, <<"plain", "long", "open", "plain">>}
MCGenerated == {3}
================================================================================
