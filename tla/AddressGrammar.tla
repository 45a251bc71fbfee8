--------------------------- MODULE AddressGrammar ---------------------------
(***************************************************************************)
(* What an SMTP path, a mail parameter and an address are: the productions *)
(* that the comments of mail/rfc5321/parse.go quote from RFC 5321, stated  *)
(* over whole texts and not as a way to read them.  Parser is compared     *)
(* with these definitions.                                                 *)
(*                                                                         *)
(* A text is a sequence of characters.  A character is a string; the words *)
(* "postmaster" and "Postmaster" are one character each, since every       *)
(* production treats a run of letters as it treats a letter.               *)
(***************************************************************************)
EXTENDS Naturals, FiniteSets, Sequences, SequencesExt

Postmasters == {"postmaster", "Postmaster"}
Digit  == {"0", "1", "2", "5", "6", "9"}
Letter == {"a", "I", "P", "v"} \cup Postmasters

(* The classes of characters of the parser.                                *)
isLetDig == Letter \cup Digit
isAtext  == isLetDig \cup {"-", "="}
Specials == {"<", ">", "@", ":", ";", ",", ".", "[", "]"}
isESMTPValue == (isLetDig \cup {"-", "\"", "\\"}) \cup Specials
Printable == isAtext \cup Specials \cup {"\"", "\\", " "}
isQtext  == Printable \ {"\"", "\\"}

-----------------------------------------------------------------------------
(* The nth smallest of some numbers.                                       *)
Nth(S, n) == CHOOSE i \in S : Cardinality({j \in S : j < i}) = n - 1

(* The texts between the occurrences of a separator.                       *)
Pieces(x, sep) ==
  LET cut == {0, Len(x) + 1} \cup {i \in DOMAIN x : x[i] = sep}
  IN  [n \in 1..(Cardinality(cut) - 1) |-> SubSeq(x, Nth(cut, n) + 1, Nth(cut, n + 1) - 1)]

Join(ps, sep) ==
  FlattenSeq([i \in DOMAIN ps |-> IF i = 1 THEN ps[i] ELSE <<sep>> \o ps[i]])

(* The texts a separator splits in two.                                    *)
Cuts(x, sep) == {<<SubSeq(x, 1, i - 1), SubSeq(x, i + 1, Len(x))>> : i \in {k \in DOMAIN x : x[k] = sep}}

Over(x, chars) == x # <<>> /\ Range(x) \subseteq chars

-----------------------------------------------------------------------------
(* sub-domain *("." sub-domain), Atom *("." Atom), At-domain list          *)
IsSubdomain(x) == Over(x, isLetDig \cup {"-"}) /\ "-" \notin {x[1], Last(x)}
IsDomain(x)    == \A d \in Range(Pieces(x, ".")) : IsSubdomain(d)
IsDotString(x) == \A a \in Range(Pieces(x, ".")) : Over(a, isAtext)
IsADL(x)       == \A a \in Range(Pieces(x, ",")) : a # <<>> /\ a[1] = "@" /\ IsDomain(Tail(a))

(* DQUOTE *(qtextSMTP / quoted-pairSMTP) DQUOTE: a character is escaped    *)
(* after an odd number of backslashes.                                     *)
Escaped(x, i) ==
  Cardinality({k \in 2..(i - 1) : \A j \in k..(i - 1) : x[j] = "\\"}) % 2 = 1

IsQuotedString(x) ==
  /\ Len(x) > 1 /\ x[1] = "\"" /\ Last(x) = "\"" /\ ~Escaped(x, Len(x))
  /\ \A i \in 2..(Len(x) - 1) : x[i] \in Printable /\ (x[i] = "\"" => Escaped(x, i))

Unquote(x) ==
  LET kept == {i \in 2..(Len(x) - 1) : x[i] = "\\" => Escaped(x, i)}
  IN  [n \in 1..Cardinality(kept) |-> x[Nth(kept, n)]]

IsLocalPart(x) == IsDotString(x) \/ IsQuotedString(x)
LocalPartOf(x) == IF x[1] = "\"" THEN Unquote(x) ELSE x

-----------------------------------------------------------------------------
(* net.ParseIP and net.IP.String: the canonical text of an address, or     *)
(* nothing.  A number of an IPv4 address has no leading zero.              *)
Value(d) == CHOOSE n \in 0..9 : d = ToString(n)
Number(x) == FoldLeft(LAMBDA n, d : 10 * n + Value(d), 0, x)
IsByte(x) == Over(x, Digit) /\ Len(x) <= 3 /\ Number(x) <= 255 /\ (x[1] = "0" => Len(x) = 1)
IsIPv4(x) == LET p == Pieces(x, ".") IN Len(p) = 4 /\ \A b \in Range(p) : IsByte(b)

Groups(x) == IF x = <<>> THEN <<>> ELSE Pieces(x, ":")
Stripped(g) ==  \* without leading zeros
  LET z == SelectInSeq(g, LAMBDA d : d # "0") IN IF z = 0 THEN <<"0">> ELSE SubSeq(g, z, Len(g))

(* The groups of an IPv6 address, eight of them, or none if it is not one. *)
EightGroups(x) ==
  LET gaps == {i \in 1..(Len(x) - 1) : x[i] = ":" /\ x[i + 1] = ":"}
      gap  == IF gaps = {} THEN 0 ELSE CHOOSE i \in gaps : TRUE
      left  == Groups(SubSeq(x, 1, gap - 1))
      right == Groups(SubSeq(x, gap + 2, Len(x)))
      all  == IF gap = 0 THEN Groups(x) ELSE left \o right
      fill == [i \in 1..(8 - Len(all)) |-> <<"0">>]
  IN  IF /\ Cardinality(gaps) <= 1
         /\ IF gap = 0 THEN Len(all) = 8 ELSE Len(all) < 8
         /\ \A g \in Range(all) : Over(g, Digit \cup {"a"}) /\ Len(g) <= 4
      THEN LET e == IF gap = 0 THEN all ELSE left \o fill \o right
           IN  [i \in 1..8 |-> Stripped(e[i])]
      ELSE <<>>

(* The first of the longest runs of zero groups is left out.               *)
IPv6Text(gs) ==
  LET runs == {r \in (DOMAIN gs) \X (DOMAIN gs) : r[1] < r[2] /\ \A i \in r[1]..r[2] : gs[i] = <<"0">>}
      best == CHOOSE r \in runs : \A q \in runs :
                 \/ q[2] - q[1] < r[2] - r[1]
                 \/ q[2] - q[1] = r[2] - r[1] /\ r[1] <= q[1]
  IN  IF runs = {} THEN Join(gs, ":")
      ELSE Join(SubSeq(gs, 1, best[1] - 1), ":") \o <<":", ":">> \o Join(SubSeq(gs, best[2] + 1, 8), ":")

ParseIP(x) ==
  IF Contains(x, ":") THEN IPv6Text(EightGroups(x)) ELSE IF IsIPv4(x) THEN x ELSE <<>>

IPv6Tag == <<"I", "P", "v", "6", ":">>
(* The text in the brackets of an address literal.                         *)
LiteralIP(x) ==
  IF IsPrefix(IPv6Tag, x) THEN ParseIP(SubSeq(x, 6, Len(x))) ELSE IF IsIPv4(x) THEN x ELSE <<>>
IsLiteral(x) ==
  Len(x) > 2 /\ x[1] = "[" /\ Last(x) = "]" /\ LiteralIP(SubSeq(x, 2, Len(x) - 1)) # <<>>
LiteralOf(x) == LiteralIP(SubSeq(x, 2, Len(x) - 1))

-----------------------------------------------------------------------------
(* The local part and the domain of a mailbox: the one way to read it, or  *)
(* none.                                                                   *)
Mailboxes(x) ==
  {[local |-> LocalPartOf(c[1]), domain |-> IF IsLiteral(c[2]) THEN LiteralOf(c[2]) ELSE c[2]] :
     c \in {d \in Cuts(x, "@") : IsLocalPart(d[1]) /\ (IsDomain(d[2]) \/ IsLiteral(d[2]))}}

(* [ A-d-l ":" ] Mailbox                                                   *)
Routes(x) ==
  {[adl |-> <<>>, box |-> m] : m \in Mailboxes(x)} \cup
  UNION {{[adl |-> Pieces(c[1], ","), box |-> m] : m \in Mailboxes(c[2])} :
           c \in {d \in Cuts(x, ":") : IsADL(d[1])}}

(* The recipient that needs no domain, in any case of letters.             *)
IsPostmaster(x) == Len(x) = 1 /\ x[1] \in Postmasters

(* esmtp-keyword ["=" esmtp-value]; a keyword does not end with "-".       *)
IsKeyword(x) == Over(x, isLetDig \cup {"-"}) /\ x[1] # "-" /\ Last(x) # "-"
Params(x) ==
  (IF IsKeyword(x) THEN {<<x, <<>>>>} ELSE {}) \cup
  {c \in Cuts(x, "=") : IsKeyword(c[1]) /\ Over(c[2], isESMTPValue)}
IsParameters(x) == \A p \in Range(Pieces(x, " ")) : Params(p) # {}
ParametersOf(x) ==
  LET ps == Pieces(x, " ") IN [i \in DOMAIN ps |-> CHOOSE p \in Params(ps[i]) : TRUE]

(* The text of a line without the space that is tolerated at its front,    *)
(* cut into what is in the brackets and the parameters.                    *)
Unspaced(x) == IF x # <<>> /\ x[1] = " " THEN Tail(x) ELSE x
Lines(x) ==
  LET y == Unspaced(x)
  IN  IF y = <<>> \/ y[1] # "<" THEN {}
      ELSE {[path |-> Tail(c[1]), params |-> IF c[2] = <<>> THEN <<>> ELSE ParametersOf(Tail(c[2]))] :
              c \in {d \in Cuts(y, ">") :
                       d[2] = <<>> \/ (d[2][1] = " " /\ IsParameters(Tail(d[2])))}}
=============================================================================
