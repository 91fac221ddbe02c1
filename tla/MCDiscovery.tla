------------------------------ MODULE MCDiscovery ------------------------------
(***************************************************************************)
(* A small instance of Discovery for TLC: three existing files, the big    *)
(* one not part of most scopes, a new document, a new module and a secret. *)
(* Test modules are the original with a test put in anywhere, with other   *)
(* lines appended, or with its comment or its test taken out.              *)
(***************************************************************************)
EXTENDS Discovery

MCRanked == <<"code", "test", "big">>
MCSize == [code |-> 3, test |-> 2, big |-> 6]

MCNodes == {"import", "fixture", "old", "new", "helper", "loop", "user", "shadow", "assign"}
MCNameOf == [import |-> "lib", fixture |-> "fixture", old |-> "test_old", new |-> "test_new",
            user |-> "test_user",
            helper |-> "helper_new", loop |-> "helper_new", shadow |-> "fixture", assign |-> "lib"]
MCCalls == [fixture |-> {}, old |-> {}, new |-> {"lib"}, user |-> {"helper_new"}, helper |-> {},
            loop |-> {"helper_new"}, shadow |-> {}]
MCOriginal == <<"import", "note", "fixture", "old">>

MCTestModules ==
    {InsertAt(MCOriginal, i, "new") : i \in 1..(Len(MCOriginal) + 1)}
        \cup {Append(MCOriginal, x) : x \in {"shadow", "assign"}}
        \cup {MCOriginal \o <<"user", h>> : h \in {"helper", "loop"}}
        \cup {RemoveAt(MCOriginal, i) : i \in {2, 4}}
MCWrongTests == {<<>>}

MCGuarded == [base |-> "runtime", fix |-> "runtime", grab |-> "grabbed"]
MCReads == [base |-> {"len"}, fix |-> {"len"}, grab |-> {"len"}]
MCPassing == [base |-> {}, fix |-> {"new", "user"}, grab |-> {"new"}]
=============================================================================
