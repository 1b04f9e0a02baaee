-------------------------------- MODULE Shapes --------------------------------
(***************************************************************************)
(* The two records most of ps-qa is about: a node of a semantic tree, as   *)
(* the application publishes it, and a check, as a file declares it.       *)
(***************************************************************************)
EXTENDS TLC

None == <<>>        \* the absent value, box or parent

(* A node as the application publishes it.  Its id is the renderer's own   *)
(* handle and does not survive a remount; box is <<x, y, width, height>>.  *)
Node == [id |-> 0, parent |-> 0, role |-> "generic", name |-> <<>>, value |-> None,
         enabled |-> TRUE, focusable |-> FALSE, fixed |-> FALSE, visible |-> TRUE,
         selected |-> FALSE, box |-> None, domId |-> "", slot |-> "", attrs |-> {}]

(* A check as its file declares it: every optional field is None or <<its  *)
(* value>>, every number zero and every flag false unless stated.          *)
Opening == [id |-> "", group |-> "", navigate |-> None, arrival |-> None, open |-> None, prepare |-> None,
            prepareUnless |-> None, prepareKey |-> None, prepareWait |-> 0, prepareUntil |-> None, hover |-> None]
Setup == [setupInto |-> None, setupText |-> None, setupEnv |-> None, setupSecret |-> None]
Action == [click |-> None, typeInto |-> None, text |-> None, key |-> None, keyOn |-> None, keys |-> None,
           scrollOver |-> None, scrollTicks |-> 0, scrollDelta |-> 0, drag |-> None, compare |-> None]
Outcome == [size |-> None, count |-> None, value |-> None, timeout |-> 0, stable |-> 0, textSized |-> FALSE,
            destructive |-> FALSE, subject |-> "", subjectEnv |-> None, subjectSecret |-> None,
            expect |-> "Paints", anyOf |-> None, buffer |-> None]
Blank == Opening @@ Setup @@ Action @@ Outcome
===============================================================================
