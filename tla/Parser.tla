------------------------------- MODULE Parser -------------------------------
(***************************************************************************)
(* The parser of paths and addresses (mail/rfc5321/parse.go, address.go),  *)
(* its use by a client (client.go parsePath) and the text of an address    *)
(* (mail/envelope.go).                                                     *)
(*                                                                         *)
(* A production is an operator from a parser object to the object after    *)
(* it, with `err' what it returned.  pos counts the characters read, which *)
(* is one more than the field of the code.  At the end of the buffer       *)
(* next() returns Nul and leaves ch as it was.                             *)
(*                                                                         *)
(* A client reads a line, character by character, and gives it to a        *)
(* command; then the same parser object reads another line.                *)
(***************************************************************************)
EXTENDS AddressGrammar

CONSTANTS
  Families,       \* [first, chars, last, len, cmds]: the lines that are read
  Seconds,        \* <<command, line>>: what the object reads afterwards
  LimitPath, LimitLocalPart, LimitDomain

ASSUME ParserConstants ==
  /\ \A f \in Families : f.len \in Nat
  /\ LimitPath \in Nat /\ LimitLocalPart \in Nat /\ LimitDomain \in Nat

VARIABLES
  family,
  line,           \* the characters read so far
  obj,            \* the client's parser
  cmd,            \* the command that has parsed the line, or "none"
  out             \* what it returned

vars == <<family, line, obj, cmd, out>>

Nul == "nul"

-----------------------------------------------------------------------------
(* The object, and reading.                                                *)
NewParser ==
  [buf |-> <<>>, pos |-> 0, ch |-> Nul, accept |-> <<>>, ADL |-> <<>>, PathParams |-> <<>>,
   NullPath |-> FALSE, LocalPart |-> <<>>, LocalPartQuotes |-> FALSE, Domain |-> <<>>,
   IP |-> <<>>, err |-> "ok"]

(* set: Reset, which leaves an unused object alone and keeps ch, then the  *)
(* new input.                                                              *)
ResetMutant(s) == [NewParser EXCEPT !.ch = s.ch, !.LocalPartQuotes = s.LocalPartQuotes]
Reset(s) == IF s.pos # 0 THEN [NewParser EXCEPT !.ch = s.ch] ELSE [s EXCEPT !.err = "ok"]
set(s, input) == [Reset(s) EXCEPT !.buf = input]

CharAt(s, i) == IF i <= Len(s.buf) THEN s.buf[i] ELSE Nul
peek(s) == CharAt(s, s.pos + 1)
next(s) ==
  [s EXCEPT !.pos = @ + 1, !.ch = IF s.pos < Len(s.buf) THEN s.buf[s.pos + 1] ELSE @]
Got(s) == CharAt(s, s.pos)      \* what the last next() returned

Write(s, c) == [s EXCEPT !.accept = Append(@, c)]
Fail(s) == [s EXCEPT !.err = "error"]
Ok(s) == s.err = "ok"

(* A production goes on from where another one left the object, unless it  *)
(* failed (Then), whatever it returned (With), or if a condition holds.    *)
With(s, P(_)) == P(s)
Then(s, P(_)) == IF Ok(s) THEN P(s) ELSE s
Require(s, C(_)) == IF Ok(s) /\ ~C(s) THEN Fail(s) ELSE s

(* Reads and accepts the characters of a class that follow.                *)
RunEnd(s, class) ==
  CHOOSE n \in s.pos..(s.pos + Len(s.buf)) :
    /\ \A i \in (s.pos + 1)..n : CharAt(s, i) \in class
    /\ CharAt(s, n + 1) \notin class
ReadTo(s, n) ==
  IF n = s.pos THEN s
  ELSE [s EXCEPT !.pos = n, !.ch = s.buf[n], !.accept = @ \o SubSeq(s.buf, s.pos + 1, n)]
TakeRun(s, class) == ReadTo(s, RunEnd(s, class))

-----------------------------------------------------------------------------
(* Domains.                                                                *)
subdomain(s) ==
  IF peek(s) \in isLetDig
  THEN Require(TakeRun(s, isLetDig \cup {"-"}), LAMBDA t : t.ch # "-")
  ELSE Fail(next(s))

RECURSIVE domain(_)
domain(s) ==
  Then(subdomain(s), LAMBDA t :
    IF peek(t) = "." THEN domain(Write(next(t), "."))
    ELSE Require(t, LAMBDA u : peek(u) \in {":", ",", ">", Nul}))

atDomain(s) ==
  Then(Require(next(s), LAMBDA t : Got(t) = "@"), LAMBDA t : domain(Write(t, "@")))

RECURSIVE adl(_)
adl(s) ==
  Then(atDomain(s), LAMBDA t :
    With([t EXCEPT !.ADL = Append(@, t.accept), !.accept = <<>>], LAMBDA u :
      IF peek(u) = "," THEN adl(next(u)) ELSE u))

-----------------------------------------------------------------------------
(* Local parts.                                                            *)
atom(s) == IF peek(s) \in isAtext THEN next(TakeRun(s, isAtext)) ELSE Fail(next(s))

RECURSIVE dotString(_)
dotString(s) ==
  Then(atom(s), LAMBDA t : IF t.ch = "." THEN dotString(Write(t, ".")) ELSE t)

(* A character of a quoted string; some make quotes necessary.             *)
AcceptQuotedMutant(s, c) == Write(s, c)
AcceptQuoted(s, c) == [Write(s, c) EXCEPT !.LocalPartQuotes = @ \/ c \notin isAtext]

RECURSIVE QcontentSMTP(_)
QcontentSMTP(s) ==
  With(next(s), LAMBDA t :
    CASE Got(t) = "\\" ->
           Then(Require(next(t), LAMBDA u : Got(u) \in Printable),
                LAMBDA u : QcontentSMTP(AcceptQuoted(u, Got(u))))
      [] Got(t) \in isQtext -> QcontentSMTP(AcceptQuoted(t, Got(t)))
      [] OTHER -> t)

Closed(s) == Then(Require(s, LAMBDA t : t.ch = "\""), LAMBDA t : next(t))
quotedString(s) == Closed(QcontentSMTP(next(s)))

localPart(s) ==
  With(IF peek(s) = "\"" THEN quotedString(s) ELSE dotString(s), LAMBDA t :
    IF t.accept = <<>> THEN t ELSE [t EXCEPT !.LocalPart = t.accept, !.accept = <<>>])

-----------------------------------------------------------------------------
(* Address literals.                                                       *)
SnumLimitMutant == 254
SnumLimit == 255
snum(s) ==
  IF RunEnd(s, Digit) - s.pos \in 1..3
  THEN Require(next(TakeRun(s, Digit)),
               LAMBDA t : Number(SubSeq(s.buf, s.pos + 1, t.pos - 1)) <= SnumLimit)
  ELSE Fail(next(s))

RECURSIVE snums(_, _)
snums(s, n) ==
  Then(snum(s), LAMBDA t :
    CASE t.ch # "." -> t
      [] t.ch = "." /\ n = 1 -> Write(t, ".")
      [] OTHER -> snums(Write(t, "."), n - 1))

WithIP(s, ip) == IF ip = <<>> THEN Fail(s) ELSE [s EXCEPT !.IP = ip]

ipv4AddressLiteral(s) == Then(snums(s, 4), LAMBDA t : WithIP(t, ParseIP(t.accept)))

(* What precedes the address is skipped unread, then the address, and the  *)
(* character after it, are read; its canonical text is accepted.           *)
Skip5(s) == next(next(next(next(next(s)))))
ipv6AddressLiteral(s) ==
  Then(With([TakeRun(s, Digit \cup {"a", ":", "."}) EXCEPT !.accept = s.accept], LAMBDA t :
         WithIP(next(t), ParseIP(SubSeq(t.buf, s.pos + 1, t.pos)))),
       LAMBDA t : [t EXCEPT !.accept = @ \o t.IP])

addressLiteral(s) ==
  Require(With(next(s), LAMBDA t :
            CASE peek(t) = "I" -> ipv6AddressLiteral(Skip5(t))
              [] peek(t) \in Digit -> ipv4AddressLiteral(t)
              [] OTHER -> t),
          LAMBDA t : t.ch = "]")

-----------------------------------------------------------------------------
(* Mailbox and path.                                                       *)
Mailbox(s) ==
  Then(localPart(s), LAMBDA t :
    CASE t.ch # "@" -> [t EXCEPT !.err = "atExpected"]
      [] t.ch = "@" /\ peek(t) = "[" -> addressLiteral(t)
      [] OTHER -> domain(t))

ToDomain(s) == IF s.accept = <<>> THEN s ELSE [s EXCEPT !.Domain = s.accept, !.accept = <<>>]
mailbox(s) == ToDomain(Mailbox(s))

(* A list of domains that is not one is no error yet: the mailbox is read  *)
(* from where it was left.                                                 *)
Route(s) ==
  With(adl(s), LAMBDA d :
    IF Ok(d) THEN Require(next(d), LAMBDA c : c.ch = ":") ELSE [d EXCEPT !.err = "ok"])

path(s) ==
  Require(Then(With(next(s), LAMBDA t : IF Got(t) = "<" /\ peek(t) = "@" THEN Route(t) ELSE t),
               LAMBDA t : mailbox(t)),
          LAMBDA t : peek(t) = ">")

-----------------------------------------------------------------------------
(* Parameters: a keyword, what ends it and, if that is "=", a value.       *)
WithParam(s, key) == [s EXCEPT !.accept = <<>>, !.PathParams = Append(@, <<key, s.accept>>)]
NoAccept(s) == [s EXCEPT !.accept = <<>>]

param(s) ==
  IF peek(s) \in isLetDig
  THEN Then(Require(TakeRun(s, isLetDig \cup {"-"}), LAMBDA k : k.ch # "-"), LAMBDA k :
         With(NoAccept(next(k)), LAMBDA e :
           IF Got(e) # "=" THEN WithParam(e, k.accept)
           ELSE Then(Require(TakeRun(e, isESMTPValue), LAMBDA v : v.accept # <<>>),
                     LAMBDA v : WithParam(v, k.accept))))
  ELSE Fail(next(s))

RECURSIVE parameters(_)
parameters(s) ==
  Then(param(s), LAMBDA p :
    With(next(p), LAMBDA t : IF Got(t) = " " THEN parameters(t) ELSE t))

(* [SP parameters], after the character that follows the path; none are    *)
(* kept if one is refused.                                                 *)
KeepParams(s) == IF Ok(s) THEN s ELSE [s EXCEPT !.PathParams = <<>>]
Trailer(s) ==
  Then(s, LAMBDA r :
    With(next(next(r)), LAMBDA t : IF Got(t) = " " THEN KeepParams(parameters(t)) ELSE t))

-----------------------------------------------------------------------------
(* The commands.  The space after the colon is tolerated.                  *)
Tolerate(s) == IF peek(s) = " " THEN next(s) ELSE s

reversePath(s) ==
  With(Tolerate(s), LAMBDA t :
    IF peek(t) = "<" /\ peek(next(t)) = ">" THEN [t EXCEPT !.NullPath = TRUE] ELSE path(t))

MailFrom(s, input) == Trailer(reversePath(set(s, input)))

(* A local part that begins with postmaster is postmaster, and needs no    *)
(* domain.                                                                 *)
forwardPath(s) ==
  With(path(Tolerate(s)), LAMBDA p :
    IF p.err # "error" /\ p.LocalPart # <<>> /\ p.LocalPart[1] \in Postmasters
    THEN [p EXCEPT !.LocalPart = <<"postmaster">>, !.err = "ok"]
    ELSE p)

RcptTo(s, input) == Trailer(forwardPath(set(s, input)))

AfterSpace(s) == Require(next(s), LAMBDA t : t.ch = " ")

Helo(s, input) == Then(AfterSpace(set(s, input)), LAMBDA t : domain(t))

Ehlo(s, input) ==
  Then(AfterSpace(set(s, input)), LAMBDA t :
    IF peek(t) = "[" THEN Require(addressLiteral(t), LAMBDA a : ParseIP(a.accept) # <<>>)
    ELSE domain(t))

(* client.parsePath: the address a command hands to the session.           *)
NoAddress == [User |-> <<>>, Host |-> <<>>, ADL |-> <<>>, PathParams |-> <<>>, Quoted |-> FALSE,
              IP |-> <<>>]
AddressOf(s) ==
  [User |-> s.LocalPart, Host |-> s.Domain, ADL |-> s.ADL, PathParams |-> s.PathParams,
   Quoted |-> s.LocalPartQuotes, IP |-> s.IP]
Fits(s) == Len(s.LocalPart) <= LimitLocalPart /\ Len(s.Domain) <= LimitDomain
parsePath(s) ==
  [ok |-> Ok(s) /\ (s.NullPath \/ Fits(s)),
   addr |-> IF Ok(s) /\ ~s.NullPath /\ Fits(s) THEN AddressOf(s) ELSE NoAddress]

(* Address.String                                                          *)
Escape(c) == IF c \in {"\\", "\""} THEN <<"\\", c>> ELSE <<c>>
Quote(x) == <<"\"">> \o FlattenSeq([i \in DOMAIN x |-> Escape(x[i])]) \o <<"\"">>
String(a) ==
  LET local == IF a.Quoted THEN Quote(a.User) ELSE a.User
      host  == IF a.IP # <<>> THEN <<"[">> \o a.Host \o <<"]">> ELSE a.Host
  IN  CASE a.User = <<>> /\ a.Host = <<>> -> <<>>
        [] a.User = <<"postmaster">> /\ a.Host = <<>> -> a.User
        [] OTHER -> IF a.Host = <<>> THEN local ELSE local \o <<"@">> \o host

-----------------------------------------------------------------------------
(* Addresses of header fields (RFC5322.Address).  The object also has the  *)
(* display name and the list.  A loop that goes on at the end of the       *)
(* buffer, where ch no longer changes, does not end: err is "diverges".    *)
Blank == [name |-> <<>>, nameQuoted |-> FALSE, List |-> <<>>, Group |-> <<>>]
NewRFC5322 == NewParser @@ Blank

AtEnd(s) == s.pos > Len(s.buf)
Diverge(s) == [s EXCEPT !.err = "diverges"]

RECURSIVE skipSpace(_)
skipSpace(s) == IF s.ch # " " THEN s ELSE IF AtEnd(s) THEN Diverge(s) ELSE skipSpace(next(s))

(* Atoms with spaces between them, of which one is kept.                   *)
RECURSIVE atoms(_)
atoms(s) ==
  CASE s.ch \in isAtext /\ AtEnd(s) -> Diverge(s)
    [] s.ch \in isAtext /\ ~AtEnd(s) -> atoms(next(Write(s, s.ch)))
    [] OTHER -> Then(skipSpace(s), LAMBDA t :
                  CASE t.ch \notin isAtext -> t
                    [] t.ch \in isAtext /\ t.pos = s.pos -> atoms(t)
                    [] OTHER -> atoms(Write(t, " ")))

phraseAtom(s) ==
  Then(Require(skipSpace(s), LAMBDA t : t.ch \in isAtext), LAMBDA t : atoms(t))

word(s) ==
  CASE s.ch = "\"" -> Closed(QcontentSMTP([s EXCEPT !.nameQuoted = TRUE]))
    [] s.ch \in isAtext \cup {" "} -> phraseAtom(s)
    [] OTHER -> Fail(s)

(* An error ends the words of a name, or is dropped.                       *)
Forgive(s) == IF s.err = "diverges" THEN s ELSE [s EXCEPT !.err = "ok"]

RECURSIVE words(_)
words(s) ==
  IF s.ch = "\"" /\ AtEnd(s) THEN Diverge(s)
  ELSE With(word(s), LAMBDA w : IF Ok(w) THEN words(w) ELSE Forgive(w))

displayName(s) ==
  With(Then(word(s), LAMBDA w : words(w)), LAMBDA d :
    IF d.accept = <<>> THEN d ELSE [d EXCEPT !.name = d.accept, !.accept = <<>>])

addAddress(s) ==
  [s EXCEPT !.List = Append(@, [User |-> s.LocalPart, Host |-> s.Domain, Quoted |-> s.LocalPartQuotes,
                                IP |-> s.IP, name |-> s.name]),
            !.name = <<>>, !.nameQuoted = FALSE]

angleAddr(s) == Then(mailbox(s), LAMBDA m : skipSpace(m))

nameAddr(s) ==
  Then(Forgive(displayName(s)), LAMBDA d :
    IF d.ch # "<" THEN [d EXCEPT !.err = "notAngle"]
    ELSE Then(angleAddr(d), LAMBDA a :
           Then(Require(next(a), LAMBDA n : n.ch = ">"), LAMBDA n : addAddress(n))))

(* Without brackets the position is set back and an addr-spec is read.     *)
Rewind(s, n) ==
  [n EXCEPT !.name = <<>>, !.nameQuoted = FALSE, !.err = "ok",
            !.pos = s.pos - 1, !.ch = IF s.pos > 1 THEN s.buf[s.pos - 1] ELSE @]

mailbox5322(s) ==
  With(nameAddr(s), LAMBDA n :
    IF n.err = "notAngle" /\ n.ch # ":"
    THEN Then(mailbox(Rewind(s, n)), LAMBDA m : addAddress(m))
    ELSE n)

RECURSIVE moreMailboxes(_)
moreMailboxes(s) ==
  Then(skipSpace(s), LAMBDA c :
    IF c.ch # "," THEN c
    ELSE Then(skipSpace(next(c)), LAMBDA t :
           Then(mailbox5322(t), LAMBDA m : moreMailboxes(next(m)))))

groupList(s) == Then(mailbox5322(s), LAMBDA m : moreMailboxes(next(m)))

GroupName(s) == IF s.name = <<>> THEN displayName(s) ELSE [s EXCEPT !.Group = s.name, !.name = <<>>]
group(s) ==
  Then(Require(GroupName(s), LAMBDA g : g.ch = ":"), LAMBDA g :
    Then(Forgive(groupList(next(g))), LAMBDA l :
      Require(skipSpace(l), LAMBDA e : e.ch = ";")))

Address(input) ==
  With(mailbox5322(next(set(NewParser, input) @@ Blank)), LAMBDA m :
    IF m.err \notin {"ok", "diverges"} /\ m.ch = ":" THEN group([m EXCEPT !.err = "ok"]) ELSE m)

(* NewAddress: the first address of the list.                              *)
First(a) ==
  [ok |-> Ok(a) /\ a.List # <<>>, ends |-> a.err # "diverges",
   addr |-> IF Ok(a) /\ a.List # <<>> THEN a.List[1] ELSE NoAddress]
NewAddress(input) == First(Address(input))

-----------------------------------------------------------------------------
(* A line is read and parsed.                                              *)
Greeting(s) == [ok |-> Ok(s), domain |-> IF Ok(s) THEN s.accept ELSE <<>>]

Parsed(c, s, input) ==
  CASE c = "MailFrom" -> MailFrom(s, input)
    [] c = "RcptTo"   -> RcptTo(s, input)
    [] c = "Helo"     -> Helo(s, input)
    [] c = "Ehlo"     -> Ehlo(s, input)

Outcome(c, s) == IF c \in {"Helo", "Ehlo"} THEN Greeting(s) ELSE parsePath(s)

Refused == [ok |-> FALSE, addr |-> NoAddress]

TypeChar(c) ==
  /\ cmd = "none" /\ Len(line) < Len(family.first) + family.len
  /\ line' = Append(line, c)
  /\ UNCHANGED <<family, obj, cmd, out>>

(* A command parses the line.  A path that is too long is not parsed.      *)
Run(c, input) ==
  /\ line' = input /\ cmd' = c
  /\ IF c \in {"MailFrom", "RcptTo"} /\ Len(input) > LimitPath
     THEN out' = Refused /\ UNCHANGED obj
     ELSE obj' = Parsed(c, obj, input) /\ out' = Outcome(c, obj')
  /\ UNCHANGED family

Command(c) == cmd = "none" /\ c # "NewAddress" /\ Run(c, line \o family.last)

(* The same object parses another line.                                    *)
Again(c, input) == cmd \notin {"none", "NewAddress"} /\ Run(c, input)

(* A header field; the object is made for it.                              *)
Header ==
  /\ cmd = "none"
  /\ line' = line \o family.last /\ cmd' = "NewAddress"
  /\ out' = NewAddress(line \o family.last)
  /\ UNCHANGED <<family, obj>>

Init ==
  /\ family \in Families
  /\ line = family.first /\ obj = NewParser /\ cmd = "none" /\ out = Refused

Next ==
  \/ \E c \in family.chars : TypeChar(c)
  \/ \E c \in family.cmds : Command(c)
  \/ "NewAddress" \in family.cmds /\ Header
  \/ \E s \in Seconds : Again(s[1], s[2])

Spec == Init /\ [][Next]_vars

-----------------------------------------------------------------------------
(* Properties.                                                             *)

PathCommand == cmd \in {"MailFrom", "RcptTo"}

(* The shapes of the object and of what a command returns; a path command  *)
(* leaves nothing accepted behind that it did not hand over.               *)
TypeOK ==
  /\ obj.pos \in Nat /\ obj.ch \in Printable \cup {Nul}
  /\ \A x \in {line, obj.buf, obj.LocalPart, obj.Domain, obj.IP} : Range(x) \subseteq Printable
  /\ obj.err \in {"ok", "error", "atExpected"} /\ obj.NullPath \in BOOLEAN
  /\ out.ok \in BOOLEAN
  /\ PathCommand /\ out.ok => obj.accept = <<>>

(* What the grammar says of a line and this parser is known to read        *)
(* otherwise is left to OnlyPostmaster and ParametersKept: the local parts *)
(* that merely begin with postmaster, and some parameters.                 *)
OnlyBeginsPostmaster(x) == cmd = "RcptTo" /\ Len(x) > 1 /\ x[1] \in Postmasters
FlagBeforeOther(ps) == \E n \in 1..(Len(ps) - 1) : ps[n][2] = <<>>

SameLocal(u, v) == u = v \/ (cmd = "RcptTo" /\ IsPostmaster(u) /\ IsPostmaster(v))

(* Every path of the grammar is accepted, within the limits and not beyond *)
(* them, and read as the grammar reads it: route, local part without       *)
(* quotes and escapes, domain or address, and parameters; the null path    *)
(* and postmaster too (the productions quoted in parse.go).                *)
PathsParsed ==
  PathCommand /\ Len(line) <= LimitPath =>
    \A l \in Lines(line) :
      /\ l.path = <<>> /\ cmd = "MailFrom" =>
           out.ok /\ out.addr.User = <<>> /\ out.addr.Host = <<>>
      /\ IsPostmaster(l.path) /\ cmd = "RcptTo" =>
           out.ok /\ IsPostmaster(out.addr.User) /\ out.addr.Host = <<>>
      /\ \A r \in {q \in Routes(l.path) : ~OnlyBeginsPostmaster(q.box.local)} :
           IF Len(r.box.local) <= LimitLocalPart /\ Len(r.box.domain) <= LimitDomain
           THEN /\ out.ok
                /\ SameLocal(out.addr.User, r.box.local) /\ out.addr.Host = r.box.domain
                /\ out.addr.ADL = r.adl
                /\ FlagBeforeOther(l.params) \/ out.addr.PathParams = l.params
           ELSE ~out.ok

(* A greeting with a domain, or for EHLO an address literal, is accepted   *)
(* and kept; what is kept of any accepted greeting is a domain or an       *)
(* address.                                                                *)
GreetingsParsed ==
  cmd \in {"Helo", "Ehlo"} =>
    /\ \A c \in {d \in Cuts(line, " ") : d[1] = <<>>} :
         /\ IsDomain(c[2]) => out.ok /\ out.domain = c[2]
         /\ cmd = "Ehlo" /\ IsLiteral(c[2]) => out.ok /\ out.domain = LiteralOf(c[2])
    /\ out.ok => IsDomain(out.domain) \/ ParseIP(out.domain) = out.domain

(* The address of a header field, bare or in brackets after a display      *)
(* name, is found (NewAddress, used for every address of a header).        *)
IsPhrase(x) == Range(x) \subseteq isAtext \cup {" "} \/ IsQuotedString(x)
NameAddrs(x) == UNION {Mailboxes(Front(c[2])) :
                         c \in {d \in Cuts(x, "<") : IsPhrase(d[1]) /\ d[2] # <<>> /\ Last(d[2]) = ">"}}
AddressesParsed ==
  cmd = "NewAddress" =>
    \A m \in Mailboxes(line) \cup NameAddrs(line) :
      out.ok /\ out.addr.User = m.local /\ out.addr.Host = m.domain

(* Every line the grammar has, of a command or of a header, is accepted    *)
(* and taken apart as the grammar takes it apart, up to the limits and at  *)
(* the end of the buffer (the productions quoted in parse.go and           *)
(* address.go), but for the two departures named above, of which this      *)
(* says nothing.                                                           *)
LinesParsed == TypeOK /\ PathsParsed /\ GreetingsParsed /\ AddressesParsed

(* The text of an address that was accepted names the same mailbox: it is  *)
(* what processors hash, store, look up and send to.  Not so for an empty  *)
(* local part, for an IPv6 address, whose tag is not written, and after a  *)
(* list of domains, where a broken list can end up in the local part.      *)
Routed == LET x == Unspaced(line) IN Len(x) > 1 /\ x[1] = "<" /\ x[2] = "@"
SameBox(b, a) == b.ok /\ b.addr.User = a.User /\ b.addr.Host = a.Host
Rereads(a) ==
  SameBox(parsePath(Parsed(IF cmd = "RcptTo" THEN cmd ELSE "MailFrom", NewParser,
                           <<"<">> \o String(a) \o <<">">>)), a)
AddressRoundTrips ==
  /\ cmd \in {"MailFrom", "RcptTo", "NewAddress"} /\ out.ok
  /\ Len(out.addr.User) \in 1..LimitLocalPart /\ Len(out.addr.Host) <= LimitDomain
  /\ ~Contains(out.addr.IP, ":") /\ ~Routed
  => Rereads(out.addr)

(* What a command returns does not depend on what the object parsed        *)
(* before, by whichever command, accepted or not: a client's parser serves *)
(* every command of every connection.                                      *)
ParsedAfresh ==
  cmd \in {"MailFrom", "RcptTo", "Helo", "Ehlo"} /\ (PathCommand => Len(line) <= LimitPath) =>
    out = Outcome(cmd, Parsed(cmd, NewParser, line))

(* A header field is parsed or refused, in finite time (the fallback for   *)
(* malformed values at backends/email_address.go:18).                      *)
AddressReturns == cmd = "NewAddress" => out.ends

(* Only postmaster is postmaster (parse.go:136).                           *)
OnlyPostmaster ==
  cmd = "RcptTo" /\ out.ok =>
    \A l \in Lines(line) : \A r \in Routes(l.path) :
      out.addr.User = <<"postmaster">> => IsPostmaster(r.box.local)

(* No parameter of an accepted path is dropped: not one that follows a     *)
(* parameter without a value (parse.go:155, "esmtp-param *(SP              *)
(* esmtp-param)"), nor those of the null path or of <Postmaster>           *)
(* (parse.go:114, 136).                                                    *)
ParametersKept ==
  PathCommand /\ out.ok => \A l \in Lines(line) : out.addr.PathParams = l.params
=============================================================================
