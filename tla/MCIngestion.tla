---------------------------- MODULE MCIngestion ----------------------------
(* A small instance of Ingestion for TLC: d1 is a document of one of three *)
(* types; the source of d2, a web page, may cease to exist, or be emptied  *)
(* to less than the least length.                                          *)
EXTENDS Ingestion

CONSTANTS d1, d2

El(kind, size, shift) == [kind |-> kind, size |-> size, shift |-> shift]

Heading == El("title", 1, FALSE)
Table == El("table", 2, FALSE)
Blanks == El("blank", 3, FALSE)
Sentence(n) == El("sentence", n, FALSE)
Shift(n) == El("sentence", n, TRUE)

\* Text before and behind titles and tables, sections that are empty, several
\* sections, and a document without a table.
Pdfs == {f \in [1..3 -> {Heading, Sentence(5), Table}] : {Heading, Sentence(5)} \subseteq Range(f)}

Texts == {<<Sentence(2), Blanks, Sentence(2)>>, <<Sentence(2), Sentence(2)>>}

\* A page that is blank, one that is too short, one sentence, and topics of all
\* lengths in all orders.
Pages ==
    {<<Blanks>>, <<Sentence(1)>>, <<Sentence(5)>>, <<Sentence(2), Sentence(2), Shift(5)>>,
     <<Shift(2), Shift(2), Shift(2)>>, <<Shift(2), Shift(5)>>, <<Shift(5), Shift(2)>>}

MCContents == [d \in Docs |->
    IF d = d1
    THEN      {[type |-> "pdf", elements |-> f] : f \in Pdfs}
         \cup {[type |-> t, elements |-> f] : t \in {"docx", "txt"}, f \in Texts}
    ELSE {[type |-> "html", elements |-> f] : f \in Pages}]

\* An upload of the first document brings a title.
MCUploadTitle == [d \in Docs |-> IF d = d1 THEN 1 ELSE 0]
=============================================================================
