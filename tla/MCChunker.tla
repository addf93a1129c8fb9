----------------------------- MODULE MCChunker -----------------------------
(* Small instances of Chunker: every text of four fragments of six kinds,   *)
(* laid out in blocks, and long texts of ordinary sentences.                *)
EXTENDS Chunker, TLC

Kind(s, n, c, a) == [size |-> s, noise |-> n, capital |-> c, abbreviated |-> a]
Plain == Kind(4, FALSE, TRUE, FALSE)
Title == Kind(4, FALSE, TRUE, TRUE)      \* such as "... of Dr."
Lower == Kind(4, FALSE, FALSE, FALSE)
Advert == Kind(4, TRUE, TRUE, FALSE)
Long == Kind(9, FALSE, TRUE, FALSE)      \* longer than a sentence may be
Tiny == Kind(1, FALSE, TRUE, FALSE)      \* shorter than one

Fragments(text, opening) ==
  [i \in DOMAIN text |-> [id |-> i, opens |-> i \in opening, size |-> text[i].size, noise |-> text[i].noise,
                          capital |-> text[i].capital, abbreviated |-> text[i].abbreviated]]

\* A text laid out in blocks: where each begins, and its level.
Lay(text, begins, levels) ==
  [b \in DOMAIN begins |->
     [level |-> levels[b],
      text |-> SubSeq(Fragments(text, {begins[c] : c \in DOMAIN begins}), begins[b],
                      (IF b = Len(begins) THEN Len(text) ELSE begins[b + 1] - 1))]]

Short == [1..4 -> {Plain, Lower, Advert, Long}]
Odd == [1..3 -> {Plain, Title, Advert, Tiny, Long}]
Many(n, kind) == [i \in 1..n |-> kind]

Settings ==
  {[strategy |-> "fixed", filter |-> f, provider |-> "openai", max_sentences |-> 2] : f \in BOOLEAN}
  \cup {[strategy |-> "semantic", filter |-> f, provider |-> "openai", max_sentences |-> 2] : f \in BOOLEAN}

Call(type, blocks, s) ==
  [type |-> type, blocks |-> blocks, strategy |-> s.strategy, filter |-> s.filter,
   provider |-> s.provider, max_sentences |-> s.max_sentences]

\* Long texts, for every limit that meets the forced breaks differently.  Where
\* Ollama may answer anything, its answers contain OpenAI's.
Limited(text, provider, limit) ==
  Call("text", Lay(text, <<1>>, <<0>>),
       [strategy |-> "semantic", filter |-> FALSE, provider |-> provider, max_sentences |-> limit])
LongCalls ==
  LET limits == {0, 1, 2, 4, 5, 7, 20}
  IN  {Limited(Many(5, Plain), p, m) : p \in {"openai", "ollama"}, m \in limits}
      \cup {Limited(Many(9, Tiny), "ollama", m) : m \in limits}

MCCalls ==
  {Call("text", Lay(t, <<1>>, <<0>>), s) : t \in Short, s \in Settings}
  \cup {Call("text", Lay(t, <<1, 2, 3>>, <<0, 0, 0>>), s) : t \in Odd, s \in Settings}
  \cup {Call("csv", Lay(t, <<1, 2, 3>>, <<0, 0, 0>>), s) : t \in Odd, s \in Settings}
  \cup {Call("docx", Lay(t, <<1, 2>>, <<0, 0>>), s) : t \in Odd, s \in Settings}
  \cup {Call("markdown", Lay(t, <<1, 2, 4>>, <<0, 2, 4>>), s) : t \in Short, s \in Settings}
  \cup {Call("url", Lay(t, <<1, 2, 3>>, <<1, 2, 0>>), s) : t \in Odd, s \in Settings}
  \cup {Call(y, <<>>, s) : y \in {"text", "url"}, s \in Settings}
  \cup LongCalls
=============================================================================
