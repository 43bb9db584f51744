------------------------------ MODULE TomlStrings ------------------------------
(* A string of the configuration as tintaview/core/config.py writes it and as tomllib *)
(* reads it back.  Strings are sequences of characters; the loops over them are       *)
(* functions of how far they got.                                                     *)
EXTENDS Integers, Sequences

\* str.replace, of one character.
Replace(s, c, by) ==
    LET done[i \in 0 .. Len(s)] ==
            IF i = 0 THEN <<>> ELSE done[i - 1] \o (IF s[i] = c THEN by ELSE <<s[i]>>)
    IN  done[Len(s)]
Escaped(s) ==
    Replace(Replace(Replace(s, "\\", <<"\\", "\\">>), "\"", <<"\\", "\"">>), "\n", <<"\\", "n">>)

\* _toml_value: literal unless it holds an apostrophe or a newline.
TomlString(s) ==
    IF {"'", "\n"} \cap {s[i] : i \in DOMAIN s} = {} THEN [quoted |-> "'", text |-> s]
    ELSE [quoted |-> "\"", text |-> Escaped(s)]

\* The control characters: the line feed, and two that stand for all the others but the tab.
\* tomllib takes them in a string only as an escape, and _toml_value escapes the first alone.
Controls == {"\n", "\r", "\f"}
Legal(s) == \A i \in DOMAIN s : s[i] \notin Controls \ {"\n"}

\* What a backslash makes of the letter after it; \b, \u and \U are left out.
Escapes == [n |-> "\n", r |-> "\r", f |-> "\f", t |-> "\t"]

\* tomllib, over a basic string: a backslash escapes what follows, and one that ends early,
\* at a bare quote, inside an escape or in one it does not know, or that holds a bare
\* control character, is refused.
Read(r, c) ==
    IF r.at = "escape" /\ c \in DOMAIN Escapes
        THEN [text |-> Append(r.text, Escapes[c]), at |-> "text"]
    ELSE IF r.at = "escape" /\ c \in {"\\", "\""}
        THEN [text |-> Append(r.text, c), at |-> "text"]
    ELSE IF r.at # "text" \/ c \in Controls \cup {"\""} THEN [text |-> r.text, at |-> "refused"]
    ELSE IF c = "\\" THEN [text |-> r.text, at |-> "escape"]
    ELSE [text |-> Append(r.text, c), at |-> "text"]
Scanned(s) ==
    LET read[i \in 0 .. Len(s)] ==
            IF i = 0 THEN [text |-> <<>>, at |-> "text"] ELSE Read(read[i - 1], s[i])
    IN  read[Len(s)]

\* A literal string is what is between its apostrophes; a refused one costs the whole file.
Readable(toml) ==
    IF toml.quoted = "'" THEN (Controls \cup {"'"}) \cap {toml.text[i] : i \in DOMAIN toml.text} = {}
    ELSE Scanned(toml.text).at = "text"
Parsed(toml) == IF toml.quoted = "'" THEN toml.text ELSE Scanned(toml.text).text
================================================================================
