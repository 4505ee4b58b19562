------------------------------ MODULE MCConsole ------------------------------
(* A letter, the arrow that shares its code with keypad 8, shift, caps lock *)
(* and F1; page down has no part but its entry.  Messages wrap, go back and *)
(* scroll.                                                                  *)
EXTENDS Console

MCLookup ==
    "x" :> <<"x", "X">> @@ "8" :> <<"8", "8">>
    @@ "pagedown" :> <<"3", "3">> @@ Ack :> <<NoChar, NoChar>>
    @@ "shift" :> <<NoChar, NoChar>> @@ "caps" :> <<NoChar, NoChar>> @@ "f1" :> <<NoChar, NoChar>>
MCNumber ==
    "x" :> 34 @@ "8" :> 117 @@ "pagedown" :> 122 @@ Ack :> 250
    @@ "shift" :> 18 @@ "caps" :> 88 @@ "f1" :> 5
MCKeys == {FALSE} \X (Codes \ {"8", "pagedown", Ack}) \union {<<TRUE, "8">>}
MCMessages == {<<"a", "bs", "c", "nl">>, <<"nl", "a", "d">>}

\* After an echo within a message nothing looks at the text and the pointer into
\* it any more, and only of tested keys at the second bit.
LiveText ==
    <<keyboardVars, ring, handlers, IF mixed /\ main.pc = "write" THEN main.msg ELSE main, echoed, unseen \intersect TestKeys, mixed,
      [kb EXCEPT !.table = [i \in Entries |-> @[i].down]],
      [code \in TestKeys |-> kb.table[keyidx(FALSE, code)].since],
      IF mixed THEN <<>> ELSE <<text, terminal>> >>
=============================================================================
