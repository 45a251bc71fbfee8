------------------------------ MODULE MCParser ------------------------------
(* Instances of Parser for TLC: families of lines, each a fixed beginning, *)
(* at most len characters of a small alphabet, and a fixed end.            *)
EXTENDS Parser

Paths == {"MailFrom", "RcptTo"}
Greet == {"Helo", "Ehlo"}
F(first, chars, len, last, cmds) ==
  [first |-> first, chars |-> chars, len |-> len, last |-> last, cmds |-> cmds]

MCFamilies ==
  { F(<<"<">>, {"a", "@", ".", "-", ">"}, 6, <<>>, Paths),
    F(<<"<", "@", "a">>, {"a", "@", ":", ",", "=", ">"}, 5, <<">">>, Paths),
    F(<<"<", "@", "a", ",", "@", "a">>, {"a", "@", ":", "."}, 6, <<">">>, Paths),
    F(<<"<", "\"">>, {"a", "\"", "\\", " "}, 6, <<"\"", "@", "a", ">">>, {"MailFrom"}),
    F(<<"<", "a", "@", "[", "1", ".", "0", ".", "2">>, {"0", "5", "6", ".", "]"}, 5, <<"]", ">">>, {"RcptTo"}),
    F(<<"<", "a", "@", "[", "I", "P", "v", "6", ":">>, {"0", "1", ":"}, 6, <<"]", ">">>, {"RcptTo"}),
    F(<<"<", "a", "@", "[", "I">>, {"1", ":", "]"}, 7, <<"]", ">">>, {"MailFrom"}),
    F(<<"<", "a", "@", "a", ">">>, {" ", "a", "=", "-"}, 7, <<>>, {"MailFrom"}),
    F(<<"<">>, {"postmaster", "Postmaster", "a", "@", "\""}, 5, <<">", " ", "a">>, {"RcptTo"}),
    F(<<>>, {" ", "<", ">", "a", "@"}, 6, <<>>, {"MailFrom", "NewAddress"}),
    F(<<"\"">>, {"a", "\"", " ", "<", "\\"}, 5, <<"a", "@", "a", ">">>, {"NewAddress"}),
    F(<<"a", ":">>, {"a", "@", "<", ">", ",", ";"}, 5, <<">", ";">>, {"NewAddress"}),
    F(<<>>, {" ", "a", ".", "-", ":"}, 5, <<>>, Greet),
    F(<<" ", "[">>, {"1", "0", ".", "]"}, 6, <<".", "1", "]">>, Greet) }

MCSeconds ==
  { <<"MailFrom", <<"<", "a", "@", "a", ">">>>>, <<"MailFrom", <<"<", ">">>>>,
    <<"RcptTo", <<"<", "postmaster", ">">>>>, <<"RcptTo", <<" ">>>>,
    <<"Ehlo", <<>>>>, <<"Helo", <<" ", "a">>>> }
=============================================================================
