------------------------------ MODULE InviteLink -----------------------------
(***************************************************************************)
(* The text of an invitation: what the server makes of an address and a    *)
(* token (server/api), and what the apps read from it: the Electron client *)
(* (renderer/app.js) and, through gomobile, Android and iOS (core/mobile). *)
(* A text is a sequence of characters; the scheme counts as one.           *)
(***************************************************************************)
EXTENDS Naturals, SequencesExt

Scheme == "hometunnel://"
NoLink == [error |-> TRUE]

Hex == [c \in {":", "=", "&", "+", "%"} |->
          CASE c = ":" -> <<"3", "A">> [] c = "=" -> <<"3", "D">> [] c = "&" -> <<"2", "6">>
            [] c = "+" -> <<"2", "B">> [] OTHER -> <<"2", "5">>]

(* handleInvite.                                                           *)
ServerLink(ip, port, token) ==
    <<Scheme>> \o ip \o <<":">> \o port \o <<"?", "token", "=">> \o token

(* The form that mobile.go:349 documents, escaped as a link has to be.     *)
Escaped(s) ==
    LET from[i \in 1..(Len(s) + 1)] ==
            IF i > Len(s) THEN <<>>
            ELSE (IF s[i] \in DOMAIN Hex THEN <<"%">> \o Hex[s[i]] ELSE <<s[i]>>) \o from[i + 1]
    IN  from[1]
ConnectLink(server, token) ==
    <<Scheme, "connect", "?", "server", "=">> \o Escaped(server) \o <<"&", "token", "=">> \o Escaped(token)
-----------------------------------------------------------------------------
(* from[i] is what the loops below make of the text from place i on.       *)
splitByte(s, sep) ==
    LET from[i \in 1..(Len(s) + 1)] ==
            LET ends == {j \in i..Len(s) : s[j] = sep}
            IN  IF ends = {} THEN << SubSeq(s, i, Len(s)) >>
                ELSE << SubSeq(s, i, Min(ends) - 1) >> \o from[Min(ends) + 1]
    IN  from[1]

(* The escapes of the characters above; others do not occur in a link.     *)
Decoded(s, digits) ==
    LET from[i \in 1..(Len(s) + 1)] ==
            IF i > Len(s) THEN <<>>
            ELSE IF s[i] = "%" /\ i + 2 <= Len(s)
                 THEN << CHOOSE c \in DOMAIN Hex : Hex[c] = <<s[i + 1], s[i + 2]>> >> \o from[i + 1 + digits]
            ELSE << IF s[i] = "+" THEN " " ELSE s[i] >> \o from[i + 1]
    IN  from[1]

(* A mutant: one digit of an escape is read again as a character.          *)
pctDecodeAgain(s) == Decoded(s, 1)

pctDecode(s) == Decoded(s, 2)

(* The pairs that are whole; the last of equal names wins.                 *)
Parameters(pairs) ==
    LET kv(i)    == splitByte(pairs[i], "=")
        name(i)  == pctDecode(kv(i)[1])
        whole    == {i \in DOMAIN pairs : Len(kv(i)) = 2}
        last(n)  == Max({i \in whole : name(i) = n})
    IN  [n \in {name(i) : i \in whole} |-> pctDecode(kv(last(n))[2])]

(* Everything after the first question mark.                               *)
parseQueryString(link) ==
    LET qi == SelectInSeq(link, LAMBDA c : c = "?")
    IN  IF qi = 0 THEN <<>> ELSE Parameters(splitByte(SubSeq(link, qi + 1, Len(link)), "&"))

ParseInviteLink(link) ==
    LET params == parseQueryString(link)
        server == <<"server">>
        token  == <<"token">>
    IN  IF {server, token} \subseteq DOMAIN params /\ params[server] # <<>> /\ params[token] # <<>>
        THEN [server |-> params[server], token |-> params[token]]
        ELSE NoLink

(* The regular expression of app.js: the address is all between the scheme *)
(* and the question mark, without a slash or a hash.                       *)
parseInviteLink(link) ==
    LET qi     == SelectInSeq(link, LAMBDA c : c = "?")
        addr   == SubSeq(link, 2, qi - 1)
        params == parseQueryString(link)
    IN  IF /\ link[1] = Scheme /\ qi > 2 /\ {"/", "#"} \cap ToSet(addr) = {}
           /\ <<"token">> \in DOMAIN params /\ params[<<"token">>] # <<>>
        THEN [server |-> addr, token |-> params[<<"token">>]]
        ELSE NoLink
=============================================================================
