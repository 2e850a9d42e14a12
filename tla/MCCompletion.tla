---------------------------- MODULE MCCompletion ----------------------------
(***************************************************************************)
(* One child, a python test command and a node check, one source file and  *)
(* one test file.                                                          *)
(***************************************************************************)
EXTENDS Completion

MCKeys == [c \in {"pytest", "nodecheck", "none"} |->
             CASE c = "pytest" -> {<<"python", "test">>}
               [] c = "nodecheck" -> {<<"javascript", "typecheck">>}
               [] OTHER -> {}]
MCLanguage == [p \in {"app.js", "tests/test_app.py"} |->
                 IF p = "app.js" THEN "javascript" ELSE "python"]
MCKind == [p \in {"app.js", "tests/test_app.py"} |->
             IF p = "app.js" THEN "source" ELSE "test"]

=============================================================================
