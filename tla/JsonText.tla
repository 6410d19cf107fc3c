------------------------------- MODULE JsonText -------------------------------
(***************************************************************************)
(* What collector.rs asks serde_json of a text: does it run out of input   *)
(* in the middle of a value?  The collector has the parser ignore what the *)
(* value is (IgnoredAny), so only its shape counts.                        *)
(*                                                                         *)
(* A byte is one of a few classes.  A number or a keyword is one byte, and *)
(* so is a character that begins no value and no escape sequence, such as  *)
(* x; lead and cont are the bytes of a long character that is not a space; *)
(* cr and nl are the line breaks.                                          *)
(***************************************************************************)
EXTENDS Integers, Sequences

Byte == {"{", "}", "[", "]", "quote", "escape", "colon", "comma",
         "number", "char", "blank", "lead", "cont", "cr", "nl"}

Breaks == {"cr", "nl"}
Blanks == {"blank"} \cup Breaks
Pairs  == {<<"{", "}">>, <<"[", "]">>}

\* The parser: what it expects next, and what it is inside of, innermost first
\* (containers, and the name of a member while that is being read).  item and
\* member are value and name right after the opening bracket, which may be
\* closed there.
Modes == {"value", "item", "name", "member", "colon", "string", "escape", "after",
          "done", "bad"}
Inside == {"{", "[", "name"}
ParserState == [mode : Modes, open : Seq(Inside)]

Start == [mode |-> "value", open |-> <<>>]
Bad   == [mode |-> "bad", open |-> <<>>]

\* After a value, or after a name.
Ended(open) ==
    IF open = <<>> THEN [mode |-> "done", open |-> open]
    ELSE IF Head(open) = "name" THEN [mode |-> "colon", open |-> Tail(open)]
    ELSE [mode |-> "after", open |-> open]

ParserMove(s, b) ==
    LET to(mode)           == [s EXCEPT !.mode = mode]
        into(mode, opened) == [mode |-> mode, open |-> <<opened>> \o s.open]
        values             == {"value", "item"}
    IN  CASE s.mode = "string" /\ b = "quote"               -> Ended(s.open)
          [] s.mode = "string" /\ b = "escape"              -> to("escape")
          [] s.mode = "string" /\ b \notin {"quote", "escape"} \cup Breaks -> s
          [] s.mode = "escape" /\ b \in {"quote", "escape"} -> to("string")
          [] s.mode \in values /\ b = "number"              -> Ended(s.open)
          [] s.mode \in values /\ b = "quote"               -> to("string")
          [] s.mode \in values /\ b = "["                   -> into("item", b)
          [] s.mode \in values /\ b = "{"                   -> into("member", b)
          [] s.mode \in {"name", "member"} /\ b = "quote"   -> into("string", "name")
          [] s.mode = "colon" /\ b = "colon"                -> to("value")
          [] s.mode = "after" /\ s.open # <<>> /\ b = "comma" ->
               to(IF Head(s.open) = "[" THEN "value" ELSE "name")
          [] /\ s.mode \in {"after", "item", "member"} /\ s.open # <<>>
             /\ <<Head(s.open), b>> \in Pairs               -> Ended(Tail(s.open))
          [] s.mode \notin {"string", "escape", "bad"} /\ b \in Blanks -> s
          [] OTHER                                          -> Bad

\* As a function, which has its arguments evaluated once.
ParserStep == [s \in ParserState |-> [b \in Byte |-> ParserMove(s, b)]]

\* The parser after each number of bytes of a text.
Parse(text) ==
    LET state[n \in 0..Len(text)] ==
            IF n = 0 THEN Start ELSE ParserStep[state[n - 1]][text[n]]
    IN  state

\* Error::is_eof is false: the value is there, or it is malformed.
Decided(state) == state.mode \in {"done", "bad"}
===============================================================================
