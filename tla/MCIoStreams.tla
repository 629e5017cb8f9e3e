---------------------------- MODULE MCIoStreams -----------------------------
EXTENDS IoStreams

\* I/O columns of the Registry: irh, i0{6}rh{24}, h013b, urd
L(c) == [c |-> c]
N(n) == [c |-> "#", n |-> n]
MCIoStrings ==
  {<<L("i"), L("r"), L("h")>>,
   <<L("i"), N(0), N(6), L("r"), L("h"), N(24)>>,
   <<L("h"), N(0), N(1), N(3), L("b")>>,
   <<L("u"), L("r"), L("d")>>}

edit(op, typ, id, fields) == [kind |-> "edit", op |-> op, typ |-> typ, id |-> id,
                              fields |-> fields]
blank == [kind |-> "blank"]
comment == [kind |-> "comment"]
text(lines) == [kind |-> "text", lines |-> lines]
none == [kind |-> "none", lines |-> <<>>]
missing == [kind |-> "missing", lines |-> <<>>]

\* Lines without an error
Good == {edit("+", "h", 24, <<"u">>), edit("+", "i", 6, <<"v", "u">>),
         edit("-", "h", 0, <<"u", "v">>), edit("-", "i", 0, <<"u">>)}
\* Lines that change nothing whatever the stream is
Idle == {edit("*", "h", 0, <<"u">>), edit("+", "i", 3, <<>>), edit("-", "h", 1, <<"zz">>)}
Wrong == Idle \union {edit("+", "x", 1, <<"u">>), edit("+", "h", 26, <<"u">>)}

\* Lines that edit another stream than they name
Astray == {edit("+", "h", 25, <<"u">>), edit("-", "i", 25, <<"v">>)}

GoodFiles == {none} \union {text(<<a, b>>) : a, b \in Good \union {comment, blank} \union Astray}
IdleFiles == {missing} \union {text(<<a, b, c>>) : a \in Good, b \in Wrong, c \in Good}
BadFiles == {missing, none} \union {text(<<a, b>>) : a \in Good \union {blank}, b \in Wrong}
EditedFiles == {text(<<a>>) : a \in Good}
settings(files, ignore, mods, edited) ==
  [files |-> files, ignore |-> ignore, mods |-> mods, edited |-> edited]

\* Files without errors; with errors that are ignored; with errors that are
\* fatal; edited while the model runs
MCSetups == {settings(GoodFiles, FALSE, 1000, FALSE), settings(IdleFiles, TRUE, 3, FALSE),
             settings(BadFiles, FALSE, 1000, FALSE), settings(EditedFiles, FALSE, 1000, TRUE)}
MCFields == {"u", "v"}
=============================================================================
