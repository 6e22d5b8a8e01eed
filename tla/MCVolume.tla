------------------------------- MODULE MCVolume -------------------------------
(* Constants of the model-checking instance of Volume.                     *)
EXTENDS Volume

(* A site, one in the trash two levels below it, and one of its own.       *)
MCLive    == {<<"a">>, <<"c">>}
MCTrashed == {<<"a", "b", "d">>}
MCHome    == <<"a">>
MCNames   == {"a", "b", "c", "d", "@site", "v1", "docs", Index, Llms}

(* Text with runes of all widths; a stray continuation; a binary file.     *)
Prose  == <<1, 3, 0, 0, 4, 0, 0, 0, 1>>
Broken == <<1, 0, 0, 0, 0, 0, 1>>
Image  == <<1, Control>>

At(t, p, d) == [tree |-> t, path |-> p, data |-> d]

(* Everything to move, with files on the way to the nested site; the same  *)
(* after part of it has moved; a site published under the new layout       *)
(* before its old files have moved; the same with a directory in the way;  *)
(* a file with the name of the leaf; and a site that has lost its index,   *)
(* the archive of which is unwrapped when it is published again.           *)
Legacy ==
  {At("sites", <<"a", Index>>, Prose), At("sites", <<"a", "docs", "a">>, <<1>>),
   At("sites", <<"a", "b", "c">>, <<2, 0>>),
   At("deleted", <<"a", "b", "d", Index>>, <<1>>),
   At("versions", <<"a", "v1", Index>>, Image),
   At("versions", <<"a", "b", "d", "v1", Index>>, <<1>>),
   At("sites", <<"c", "@site", Index>>, <<1>>)}
Republished ==
  {At("sites", <<"a", Index>>, <<1>>), At("sites", <<"a", "@site", Index>>, Image)}
Stuck ==
  {At("sites", <<"a", "docs", Index>>, <<1>>),
   At("sites", <<"a", "@site", "docs", Index>>, <<1>>)}
LeafTaken ==
  {At("sites", <<"a", Index>>, <<1>>), At("sites", <<"a", "@site">>, <<1>>)}
NoIndex == {At("sites", <<"a", "docs", Index>>, <<1>>)}
MCVolumes == {Legacy, Republished, Stuck, LeafTaken, NoIndex}

E(n, t, d) == [name |-> n, type |-> t, data |-> d]
F(n, d)    == E(n, "file", d)
Up(k, e)   == [kind |-> k, entries |-> e]

MCUploads ==
  { Up("index", <<F(<<Index>>, Broken)>>),
    Up("index", <<F(<<Index>>, Prose \o Broken)>>),
    Up("tar", <<E(<<"docs", "">>, "dir", << >>), F(<<".", Index>>, Prose),
                F(<<"docs", Index>>, <<1>>)>>),
    Up("tar", <<F(<<Index>>, Prose), F(<<"a">>, <<1, 1, 1, 1>>),
                F(<<"b">>, <<1, 1, 1, 1>>)>>),
    Up("tar", <<F(<<Index>>, <<1>>), E(<<"a">>, "other", << >>),
                F(<<"docs", "..", Index>>, <<1>>)>>),
    Up("tar", <<F(<<Index>>, <<1>>), F(<<"a">>, <<1>>), F(<<"a", "b">>, <<1>>)>>),
    Up("tar", <<F(<<Index>>, <<1>>), E(<<"a">>, "link", << >>)>>),
    Up("tar", <<F(<<"a">>, <<1>>), F(<<"a">>, <<2, 0>>), F(<<Index>>, <<1>>),
                F(<<"b">>, <<1>>), F(<<"c">>, <<1>>)>>),
    Up("tar", <<F(<<"docs", Index>>, <<1>>)>>),
    Up("zip", <<E(<<"a", "">>, "dir", << >>), F(<<"a", Index>>, <<2, 0>>),
                F(<<"a", "docs", Llms>>, Prose)>>),
    Up("zip", <<F(<<Index>>, Image), F(<<"docs", "a">>, <<1>>)>>),
    Up("zip", <<F(<<"", Index>>, <<1>>)>>),
    Up("zip", <<F(<<"a", Index>>, <<1>>), F(<<"b", "a">>, <<1>>)>>),
    Up("files", <<F(<<"docs", "..", Index>>, Prose), F(<<Llms>>, <<1>>)>>),
    Up("files", <<F(<<Index>>, <<1>>), F(<<"docs", "a">>, Prose \o <<1, 1>>)>>),
    Up("files", <<F(<<"..", Index>>, <<1>>)>>) }

R(p, o, l) == [path |-> p, offset |-> o, limit |-> l]

(* Limits below a rune, between pages, and above MaxLimit; offsets at and  *)
(* inside runes, before the file and beyond it.                            *)
MCReads ==
  { R(<<"">>, -1, 0), R(<<"">>, 3, 5), R(<<"docs", "">>, 0, 0),
    R(<<"docs", "a">>, 1, 2), R(<<"docs">>, 0, 99) } \union
  { R(<<Index>>, o, l) : o \in {0, 2, 99}, l \in {1, 5} }
=============================================================================
