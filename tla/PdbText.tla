------------------------------- MODULE PdbText -------------------------------
(***************************************************************************)
(* The text of a database file (pdb_parse.c, pdb_types.c, str.c): how      *)
(* pdb_write lays an entry out, and how the tokenizer and the loader find  *)
(* entries again in such a file, or in a jass.ini that somebody edited.    *)
(*                                                                         *)
(* A file is a sequence of lexemes.  What is between two double quotes is  *)
(* one of them, for the tokenizer looks at nothing inside; so is a run of  *)
(* blanks, and a comment with all it swallows.  Quoted texts differ from   *)
(* entry to entry, so that no mistake in the reading goes unseen.          *)
(***************************************************************************)
EXTENDS Integers, Sequences, SequencesExt

CONSTANTS MaxEntries,    \* bound: entries and ends of blocks in a file
          MaxLexemes,    \* bound: lexemes in a file written by hand
          LooseComments  \* may a comment end a line that has no ; before it

ASSUME TextAssumption == /\ MaxEntries \in Nat /\ MaxLexemes \in Nat
                         /\ LooseComments \in BOOLEAN

VARIABLES author,   \* who writes the file: "hand" or "pdb_write"
          phase,    \* "writing", "loading" or "loaded"
          text,     \* the file; once loading, what is left to be read
          meant,    \* history: what the author wrote
          open,     \* the blocks the author is in
          part,     \* what the author has written of an entry by hand
          clipped,  \* history: the last byte of the file ends a string
          begun,    \* ws_end: whether blanks count
          tok,      \* sbuf: the quoted texts in the token so far
          stack,    \* the blocks the loader is in, the root first
          loaded    \* what the loader creates

textVars == <<author, phase, text, meant, open, part, clipped,
              begun, tok, stack, loaded>>
writerVars == <<author, meant, open, part, clipped>>
loaderVars == <<begun, tok, stack, loaded>>

\* pdb_types: the tokens of each type
OpenToken == [tree |-> "{", list |-> "(", hash |-> "[", int |-> "'"]
CloseToken == [tree |-> "}", list |-> ")", hash |-> "]"]
Blocks == DOMAIN CloseToken

Lex(is) == [is |-> is, id |-> 0]
Quoted(id) == [is |-> "quoted", id |-> id]    \* id 0: nothing but blanks
Line == Lex("newline")
Term == Lex(";")

Entry(is, id, value) == [is |-> is, id |-> id, value |-> value]
Ended == Entry("end", 0, 0)

TextInit == /\ author \in {"hand", "pdb_write"}
            /\ phase = "writing"
            /\ text = << >> /\ meant = << >> /\ open = << >> /\ part = "fresh"
            /\ clipped = FALSE
            /\ begun = FALSE /\ tok = << >> /\ stack = <<"tree">> /\ loaded = << >>

\* The name of the next entry; minus it, the value.
Next1 == Len(meant) + 1

Put(lexemes, entries) == /\ phase = "writing"
                         /\ Len(meant) + Len(entries) <= MaxEntries
                         /\ text' = text \o lexemes
                         /\ meant' = meant \o entries
                         /\ UNCHANGED <<author, phase, loaderVars>>

-----------------------------------------------------------------------------
(* By hand, in the form that readme.txt and the shipped jass.ini describe   *)

Scribble(lexemes, entries) == /\ author = "hand"
                              /\ Len(text) + Len(lexemes) <= MaxLexemes
                              /\ Put(lexemes, entries)
                              /\ clipped' = (entries # << >> /\ entries[1].is = "string")

Name == part = "fresh" /\ Scribble(<<Quoted(Next1)>>, << >>)
        /\ part' = "named" /\ UNCHANGED open

Value == part = "named"
         /\ \/ Scribble(<<Quoted(-Next1)>>, << >>) /\ part' = "valued"
            \/ Scribble(<<Quoted(0)>>, << >>) /\ part' = "empty"
         /\ UNCHANGED open

\* A string ends with a semicolon or with its line.
Terminate == /\ part # "fresh"
             /\ \E end \in {Term, Line} \cup IF LooseComments THEN {Lex("#")} ELSE {} :
                  Scribble(<<end>>, <<Entry("string", Next1, IF part = "valued" THEN -Next1 ELSE 0)>>)
             /\ part' = "fresh" /\ UNCHANGED open

Number == /\ part = "named"
          /\ Scribble(<<Lex("'"), Lex("number"), Lex("'")>>, <<Entry("int", Next1, 0)>>)
          /\ part' = "fresh" /\ UNCHANGED open

Begin == /\ part = "named"
         /\ \E k \in {"tree", "list"} :
              /\ Scribble(<<Lex(OpenToken[k])>>, <<Entry(k, Next1, 0)>>)
              /\ open' = Append(open, k)
         /\ part' = "fresh"

End == /\ part = "fresh" /\ open # << >>
       /\ Scribble(<<Lex(CloseToken[Last(open)])>>, <<Ended>>)
       /\ open' = Front(open) /\ UNCHANGED part

\* Blanks and block comments anywhere, empty lines and comment lines, but no
\* two alike in a row.
Layout == /\ \E x \in {"blank", "/*"} \cup IF part = "fresh" THEN {";", "newline", "#"} ELSE {} :
               /\ text # << >> => Last(text).is # x
               /\ Scribble(<<Lex(x)>>, << >>)
          /\ UNCHANGED <<open, part>>

-----------------------------------------------------------------------------
(* pdb_write: a line for each entry; links are not written                  *)

Indent(depth) == IF depth = 0 THEN << >> ELSE <<Lex("blank")>>

WriteLine(lexemes, entry) ==
  /\ author = "pdb_write"
  /\ Put(Indent(Len(open)) \o lexemes \o <<Line>>, <<entry>>)
  /\ clipped' = FALSE /\ UNCHANGED part

\* A string without data has no blank before its semicolon.
WriteString == /\ \/ WriteLine(<<Quoted(Next1), Lex("blank"), Quoted(-Next1), Term>>,
                               Entry("string", Next1, -Next1))
                  \/ WriteLine(<<Quoted(Next1), Term>>, Entry("string", Next1, 0))
               /\ UNCHANGED open

WriteInt ==
  /\ WriteLine(<<Quoted(Next1), Lex("blank"), Lex("'"), Lex("number"), Lex("'"), Term>>,
               Entry("int", Next1, 0))
  /\ UNCHANGED open

\* A hash begins with its size, on a line of its own.
HashSize(k) == IF k = "hash" THEN <<Line>> \o Indent(Len(open) + 1) \o <<Lex("number"), Term>>
           ELSE << >>

WriteBlock(k) ==
  /\ WriteLine(<<Quoted(Next1), Lex("blank"), Lex(OpenToken[k])>> \o HashSize(k), Entry(k, Next1, 0))
  /\ open' = Append(open, k)

WriteEnd == /\ open # << >>
            /\ author = "pdb_write"
            /\ Put(Indent(Len(open) - 1) \o <<Lex(CloseToken[Last(open)]), Line>>, <<Ended>>)
            /\ open' = Front(open) /\ clipped' = FALSE /\ UNCHANGED part

\* pdb_load opens the file.
Load == /\ phase = "writing" /\ part = "fresh" /\ open = << >>
        /\ phase' = "loading"
        /\ UNCHANGED <<text, writerVars, loaderVars>>

-----------------------------------------------------------------------------
(* pdb_get_token, one lexeme at a time                                      *)

Byte == Head(text)
Peek == IF Len(text) > 1 THEN text[2] ELSE Lex("eof")

\* mutant: blanks count from the first.
Padding_Never == FALSE

\* Blanks before a token are skipped.
Padding == Byte.is = "blank" /\ ~begun

Comment == Byte.is \in {"#", "/*"}

\* is_opening_tok and is_closing_tok: a blank stands for what follows it.
First == IF Byte.is = "blank" THEN Peek.is ELSE Byte.is

Opening(k) == First = OpenToken[k]
Closing == \E k \in Blocks : First = CloseToken[k]
Terminates == Byte.is \in {";", "newline"}

\* feof: is_opening_tok has peeked past the last byte.
AtEof == Tail(text) = << >>

\* One byte of the file, and what the token buffer is afterwards.
Read(rest, token) == /\ text' = rest
                     /\ tok' = token
                     /\ begun' = (token # << >>)
                     /\ UNCHANGED <<phase, writerVars>>

Reading == phase = "loading" /\ text # << >> /\ stack # << >>
Looking == Reading /\ ~Padding /\ ~Comment

Skip == Reading /\ Padding /\ text' = Tail(text)
        /\ UNCHANGED <<phase, writerVars, loaderVars>>

\* A comment ends with its line, and the token goes on in the next.
SkipComment == /\ Reading /\ Comment
               /\ text' = Tail(text)
               /\ begun' = FALSE
               /\ UNCHANGED <<phase, writerVars, tok, stack, loaded>>

\* An end of token or a beginning of block without a name starts anew.
Nothing == /\ Looking /\ tok = << >>
           /\ (Terminates /\ ~AtEof) \/ \E k \in DOMAIN OpenToken : Opening(k)
           /\ Read(Tail(text), << >>)
           /\ UNCHANGED <<stack, loaded>>

\* An end of token that is the last byte is taken for the end of the file, and
\* the token is lost.
LoseToken == /\ Looking /\ Terminates /\ AtEof
             /\ Read(<< >>, << >>)
             /\ UNCHANGED <<stack, loaded>>

\* pdb_token_parse: where in the token there are quoted texts that are not
\* blank.  The first is the name, the second the value.
Parsed == {i \in DOMAIN tok : tok[i] # 0}
Create(is, value) == loaded' = Append(loaded, Entry(is, tok[Min(Parsed)], value))

LoadString == /\ Looking /\ tok # << >> /\ Terminates /\ ~AtEof
        /\ LET more == Parsed \ {Min(Parsed)}
           IN  Create("string", IF more = {} THEN 0 ELSE tok[Min(more)])
        /\ Read(Tail(text), << >>)
        /\ UNCHANGED stack

\* fscanf: past the lexeme if it is the next one.
Past(is, rest) == IF rest # << >> /\ Head(rest).is = is THEN Tail(rest) ELSE rest

\* pdb_load_int_node_cb; the apostrophe may have been read with the name.
LoadInt == /\ Looking /\ tok # << >> /\ Opening("int")
           /\ Create("int", 0)
           /\ Read(Past("'", Past("number", Past("'", Tail(text)))), << >>)
           /\ UNCHANGED stack

LoadBlock(k) == /\ Looking /\ tok # << >> /\ Opening(k)
                /\ Create(k, 0)
                /\ stack' = Append(stack, k)
                /\ Read(Tail(text), << >>)

\* pdb_load_hash_node_cb skips what it takes for the opening token, and stops
\* the whole load if no size follows.
LoadHash == /\ Looking /\ tok # << >> /\ Opening("hash")
            /\ Create("hash", 0)
            /\ LET size == Past("blank", Past("newline", Tail(Past("blank", Tail(text)))))
               IN  /\ Read(Past(";", Past("number", size)), << >>)
                   /\ stack' = IF size # << >> /\ Head(size).is # "number" THEN << >>
                               ELSE Append(stack, "hash")

\* A closing token ends the block with what is in the token; one of the wrong
\* kind does the same, for the loader takes NULL for the end of its block.
Pop == /\ Looking /\ Closing
       /\ stack' = Front(stack)
       /\ loaded' = IF Len(stack) > 1 THEN Append(loaded, Ended) ELSE loaded
       /\ Read(Tail(text), << >>)

Collect == /\ Looking /\ ~Terminates /\ ~Closing /\ \A k \in DOMAIN OpenToken : ~Opening(k)
           /\ Read(Tail(text), IF Byte.is = "quoted" THEN Append(tok, Byte.id) ELSE tok)
           /\ UNCHANGED <<stack, loaded>>

\* The end of the file, or of the root.
Finish == /\ phase = "loading" /\ (text = << >> \/ stack = << >>)
          /\ phase' = "loaded"
          /\ UNCHANGED <<text, writerVars, loaderVars>>

-----------------------------------------------------------------------------
TextNext == \/ Name \/ Value \/ Terminate \/ Number \/ Begin \/ End \/ Layout
            \/ WriteString \/ WriteInt \/ (\E k \in Blocks : WriteBlock(k)) \/ WriteEnd
            \/ Load
            \/ Skip \/ SkipComment \/ Nothing \/ LoseToken \/ LoadString \/ LoadInt \/ LoadHash
            \/ (\E k \in {"tree", "list"} : LoadBlock(k)) \/ Pop \/ Collect \/ Finish

TextSpec == TextInit /\ [][TextNext]_textVars

-----------------------------------------------------------------------------
\* A file in the form that readme.txt describes, with blanks and comments
\* wherever they may be, and a file that pdb_write wrote, are loaded as what
\* their author meant: each entry once, in its place, with its own name, type
\* and value.  Only a string whose end is the last byte of a file by hand is
\* lost, and nothing but it (pdb_parse.c pdb_get_token, pdb_types.c
\* pdb_standard_load_node).
ReadAsMeant == /\ IsPrefix(loaded, meant)
               /\ phase = "loaded" => loaded = IF clipped THEN Front(meant) ELSE meant

\* "Text after # symbol is ignored by JASS" (jass.ini:3): with a comment behind
\* an entry that ends with its line, as entries of the shipped file do, what is
\* loaded is what was meant, entry by entry (pdb_parse.c pdb_parse_comment).
CommentsIgnored == IsPrefix(loaded, meant)
=============================================================================
