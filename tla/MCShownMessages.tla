-------------------------- MODULE MCShownMessages ---------------------------
(* Instance of ShownMessages: the calls of commands of up to four calls, a    *)
(* message of two rows of two, roles 3 and 4 of one name, 4 mentionable.    *)
EXTENDS ShownMessages

NoDict == [style |-> "", url |-> FALSE, label |-> TRUE, emoji |-> FALSE, type |-> "", options |-> <<>>, min |-> 0,
           max |-> 0, id |-> <<>>, fits |-> TRUE]
Arg(is, dict) == [is |-> is, at |-> 0, dict |-> dict]
Ref(n) == [Arg("made", NoDict) EXCEPT !.at = n]
Dict(id) == [NoDict EXCEPT !.id = id]
NoPair == [key |-> "", shape |-> "list", list |-> <<>>, rows |-> <<>>, text |-> Blank, embeds |-> <<>>, reply |-> "",
           mentions |-> [parse |-> <<>>, users |-> <<>>, roles |-> <<>>, replied |-> FALSE, fits |-> TRUE]]
NoInput == [as |-> "text", text |-> Blank, embeds |-> <<>>, pairs |-> <<>>, at |-> 1]
NoRole == [as |-> "name", id |-> 0, name |-> ""]
NoModal == [is |-> "sdict", at |-> 0, id |-> <<>>, fields |-> <<>>, components |-> <<>>, keys |-> {}]
NoCall == [fn |-> "", needs |-> 0, modalsAt |-> {}, arg |-> Ref(0), args |-> <<>>, at |-> 0, id |-> <<>>, input |-> NoInput,
           message |-> 0, role |-> NoRole, accept |-> {}, modal |-> NoModal, text |-> Blank]

Pair(key, shape, list) == [NoPair EXCEPT !.key = key, !.shape = shape, !.list = list]
Hello == [Pair("content", "one", <<>>) EXCEPT !.text.size = 1]
Sends(fn, input) == [NoCall EXCEPT !.fn = fn, !.input = input]
Message(pairs) == [NoInput EXCEPT !.as = "message", !.pairs = pairs]
Edits(n, input) == [Sends("editMessage", input) EXCEPT !.message = n]
Needing(n, c) == [c EXCEPT !.needs = n]

IDs == {<<>>, <<"a">>, <<TemplatePrefix, "a">>, <<"0">>, <<"a", "b">>}
Link == [NoDict EXCEPT !.style = "link", !.url = TRUE]
ButtonArgs == {Arg("button", Dict(id)) : id \in IDs} \cup {Arg("button", Link)}
MenuArgs == {Arg("menu", NoDict), Arg("menu", [Dict(<<"a">>) EXCEPT !.type = "user"])}
OddDicts == {[NoDict EXCEPT !.style = "5"], [NoDict EXCEPT !.label = FALSE], [NoDict EXCEPT !.style = "teal"],
             [NoDict EXCEPT !.fits = FALSE], [NoDict EXCEPT !.options = <<"o", "p">>], [NoDict EXCEPT !.max = 2]}
AllKinds == {Arg("button", NoDict), Arg("button", Link), Arg("menu", NoDict), Arg("other", NoDict)}

Lists(n, of) == UNION {[1 .. k -> of] : k \in 0 .. n}
Sdicts(n) == {[i \in 1 .. k |-> Arg("sdict", NoDict)] : k \in 0 .. n}
SmallLists == {<<Pair("components", "list", l)>> : l \in Lists(2, ButtonArgs \cup MenuArgs)}
BigLists ==
  {<<Pair("components", "list", l)>> : l \in Lists(5, AllKinds \ {Arg("other", NoDict)}) \cup Lists(2, AllKinds)}
  \cup {<<[Pair("components", "rows", <<>>) EXCEPT !.rows = r]>> : r \in Lists(3, {<<Arg("button", NoDict)>>,
          <<Arg("button", NoDict), Arg("button", NoDict)>>,
          <<Arg("menu", NoDict), Arg("other", NoDict)>>, <<Arg("button", NoDict), Arg("menu", NoDict)>>,
          <<Arg("button", NoDict), Arg("menu", [NoDict EXCEPT !.type = "user"]), Arg("other", NoDict)>>})}
  \cup {<<Pair("buttons", "list", l), Pair("menus", "list", k)>> : l \in Sdicts(6), k \in Sdicts(3)}
  \cup {<<Pair(key, "one", <<Arg(is, d)>>)>> : key \in {"components", "buttons", "menus"}, is \in {"sdict", "button"},
           d \in OddDicts \cup {NoDict}}
  \cup {<<Pair("buttons", "list", <<Arg("sdict", NoDict)>>), Pair("components", "list", <<Arg("button", NoDict)>>)>>,
        <<Pair("components", "nil", <<>>), Hello>>, <<Pair("unknown", "one", <<>>)>>}

SingleMakes == {[NoCall EXCEPT !.fn = "cbutton", !.arg = Arg("sdict", d)] : d \in {Dict(id) : id \in IDs} \cup {Link} \cup OddDicts}
          \cup {[NoCall EXCEPT !.fn = "cmenu", !.arg = Arg("sdict", d)] : d \in {NoDict} \cup OddDicts}

Refs == UNION {{l \in [1 .. k -> {Ref(1), Ref(2)}] : TRUE} : k \in 1 .. 2}
SendsMade == {Needing(2, Sends("sendMessage", Message(<<Pair("components", "list", l)>>))) : l \in Refs}
EditsMade ==
  {Needing(1, Edits(n, Message(p))) : n \in 0 .. 1,
     p \in {<<Hello>>, <<Pair("components", "list", <<>>), Hello>>, <<Pair("components", "list", <<Ref(1), Arg("button", NoDict)>>)>>}}

Text(mentions) == [size |-> 1, mentions |-> mentions]
All == Text({Everyone, User(5), RoleOf(3), RoleOf(4)})
Lets(parse, users, roles, replied, fits) ==
  [Pair("allowed_mentions", "one", <<>>) EXCEPT
     !.mentions = [parse |-> parse, users |-> users, roles |-> roles, replied |-> replied, fits |-> fits]]
SendsPings ==
  {Sends(fn, Message(<<[Hello EXCEPT !.text = All]>> \o l \o r)) : fn \in {"sendMessage", "sendMessageNoEscape"},
     l \in {<<>>, <<Pair("allowed_mentions", "nil", <<>>)>>} \cup
           {<<Lets(p, u, o, y, f)>> : p \in {<<>>, <<"everyone">>, <<"roles">>, <<"users", "roles">>, <<"all">>}, u \in {<<>>, <<6, 5>>, <<5>>},
              o \in {<<>>, <<3>>, <<0>>, <<4, 3>>}, y, f \in BOOLEAN},
     r \in {<<[Pair("reply", "one", <<>>) EXCEPT !.reply = x]>> : x \in {"trigger", "own", "bad"}} \cup {<<>>}}
  \cup {Sends("sendMessage", [NoInput EXCEPT !.text = t]) : t \in {Blank, All, [Text({}) EXCEPT !.size = 2]}}
  \cup {Sends("sendMessage", [NoInput EXCEPT !.as = "embeds", !.embeds = e]) : e \in {<<"nil">>, <<"nil", "good">>, <<"empty">>, <<"large">>}}
  \cup {Sends("sendMessage", Message(<<[Pair("embed", "list", <<>>) EXCEPT !.embeds = <<"good", "good">>],
                                       [Pair("file", "one", <<>>) EXCEPT !.text.size = n], Pair("sticker", s, <<>>)>>)) :
        n \in {1, 2}, s \in {"nil", "one"}}

RoleCalls ==
  {[NoCall EXCEPT !.fn = "mentionRole", !.role = [as |-> a, id |-> i, name |-> n], !.accept = x] :
     a \in {"id", "mention", "name", "object", "number"}, i \in {3, 9}, n \in {"mod", "@everyone"},
     x \in {AllInput, {"id"}, {"name"}}}
  \cup {[NoCall EXCEPT !.fn = "mentionEveryone"]}
Ends == {[NoCall EXCEPT !.fn = "end", !.text = t] : t \in {All, Blank}}

LabelArgs == {Arg("label", Dict(id)) : id \in IDs} \cup {Arg("other", NoDict)}
Builders ==
  {[NoCall EXCEPT !.fn = "modalBuilder", !.id = id, !.args = l] : id \in IDs, l \in {<<>>, <<Arg("label", NoDict)>>, <<Arg("other", NoDict)>>}}
  \cup {[NoCall EXCEPT !.fn = "cmodal", !.modal = [NoModal EXCEPT !.id = id, !.components = l, !.keys = {"components"}]] :
          id \in {<<>>, <<"a">>}, l \in Lists(2, LabelArgs)}
  \cup {[NoCall EXCEPT !.fn = "cmodal", !.modal = [NoModal EXCEPT !.fields = l, !.keys = k]] :
          l \in Lists(3, {NoDict, Dict(<<"a">>), Dict(<<"1">>)}), k \in {{"fields"}, {"fields", "components"}}}
ModalCalls ==
  {[NoCall EXCEPT !.fn = fn, !.needs = 1, !.at = n, !.modalsAt = {n}, !.args = l] :
     fn \in {"AddComponents", "Set components"}, n \in {1, 2}, l \in Lists(3, {Arg("label", Dict(<<"a">>)), Arg("other", NoDict)})}
  \cup {[NoCall EXCEPT !.fn = "Set custom_id", !.needs = 1, !.at = 1, !.modalsAt = {1}, !.id = id] : id \in IDs}
SendModals == {Needing(1, [NoCall EXCEPT !.fn = "sendModal", !.modal = [NoModal EXCEPT !.is = "made", !.at = 1]])}
DataSends == {[Sends("sendMessage", [NoInput EXCEPT !.as = "data"]) EXCEPT !.needs = 1, !.modalsAt = {1}]}
LabelCalls == {[NoCall EXCEPT !.fn = "ctextInput", !.arg = Arg("sdict", Dict(<<"a">>))],
               Needing(1, [NoCall EXCEPT !.fn = "clabel", !.arg = Ref(1)])}

GetsFirst == {[NoCall EXCEPT !.fn = "getMessage", !.message = 1]}
SendsRows(lists) == {Sends("sendMessage", Message(p)) : p \in lists}

\* Commands that ping; that lay out rows; that use a value again; that show a modal.
AllShownCalls ==
  << << SendsPings \cup RoleCalls, {[NoCall EXCEPT !.fn = "mentionEveryone"]} \cup GetsFirst \cup Ends, Ends >>,
     << SendsRows(BigLists), Ends >>,
     << SingleMakes, SingleMakes, SendsMade, SendsMade \cup EditsMade >>,
     << SendsRows(SmallLists), GetsFirst, SendsMade, SendsMade \cup EditsMade >>,
     << Builders \cup LabelCalls, ModalCalls \cup LabelCalls \cup DataSends, SendModals, SendModals \cup Ends >> >>
MCShownCalls == AllShownCalls
MCRoles == <<[id |-> 3, name |-> "mod"], [id |-> 4, name |-> "mod"]>>

=============================================================================
