------------------------------ MODULE MCSanitizer ------------------------------
(* Texts with an entity that comes twice and with a piece that looks like a *)
(* placeholder; answers to requests with no, one and two placeholders.      *)
EXTENDS Sanitizer

a == <<"a">>
b == <<"b">>

MCCharacters == {a, b}
MCTexts == {<<a, b, a, b>>, <<Start, <<"amount", 1>>, End, a>>}

Mapping(type, original) ==
    [placeholder |-> Placeholder(type, 1), original |-> original, type |-> type]

MCAnswers == {<<>>, <<Mapping("person", <<a, b>>)>>,
              <<Mapping("person", <<b>>), Mapping("amount", <<a, b, a>>)>>}
MCAlphabet == {a, Start, End, <<"person", 1>>, <<"amount", 1>>}
=============================================================================
