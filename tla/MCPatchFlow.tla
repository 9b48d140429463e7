---------------------------- MODULE MCPatchFlow ----------------------------
(***************************************************************************)
(* An instance of PatchFlow for TLC: files of one name at the root, under  *)
(* src and elsewhere, a directory of the name of a pick, and a conftest;   *)
(* picks with a segment too few, too many or wrong.                        *)
(***************************************************************************)
EXTENDS PatchFlow, TLC

MCPaths == {<<"pay.py">>, <<"src", "pay.py">>, <<"lib", "pay.py">>,
            <<"tests", "conftest.py">>}
MCPicks == {<<"pay.py">>, <<"src", "pay.py">>, <<"app", "pay.py">>,
            <<"app", "src", "pay.py">>, <<"lib", "src", "pay.py">>, <<"src">>}
MCEditSets == {{}, {<<"src", "pay.py">>, <<"tests", "conftest.py">>},
               {<<"pay.py">>, <<"lib", "pay.py">>}}
MCUnseenSets == {{}, {<<"lib", "pay.py">>}}
MCDeleteSets == {{}, {<<"lib", "pay.py">>}}
MCConftests == {<<"tests", "conftest.py">>}
MCFixture == <<"tests", "conftest.py">>
=============================================================================
