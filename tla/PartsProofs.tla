------------------------------ MODULE PartsProofs ------------------------------
(***************************************************************************)
(* Proofs about the parts, for every screen, machine and disk: the blocks  *)
(* of a frame nest and the essential rows are the last to go, whatever way *)
(* texts wrap and rows are shared out when there are too few; its cursor   *)
(* is in the field; a greeter that is gone leaves a usable terminal; a     *)
(* reading is of the batteries that can be measured; the menu has the      *)
(* sessions that the highest directories decide about; and the shell gets  *)
(* of each the command that the author of its file wrote.                  *)
(***************************************************************************)
EXTENDS Parts, TLAPS, WellFoundedInduction, FiniteSetTheorems, SequenceTheorems

-----------------------------------------------------------------------------
(* Frames *)

(* A rectangle that ends within u16, as the screen and all its parts do.   *)
Area(area) ==
  /\ area = Rect(area.x, area.y, area.width, area.height)
  /\ area.x \in Nat /\ area.y \in Nat /\ area.width \in Nat /\ area.height \in Nat
  /\ Right(area) <= MaxU16 /\ Bottom(area) <= MaxU16


LEMMA Saturation ==
  ASSUME NEW a \in Nat, NEW b \in Nat
  PROVE  /\ Plus(a, b) \in U16 /\ Minus(a, b) \in Nat /\ Minus(a, b) <= a
         /\ a + b <= MaxU16 => Plus(a, b) = a + b
BY MaxAssumption DEF Plus, Minus, Least, U16

(* inset: the part of an area within a margin lies in the area, empty if   *)
(* the margin leaves nothing.                                              *)
LEMMA InsetInside ==
  ASSUME NEW area, Area(area), NEW margin \in Nat
  PROVE  /\ Area(Inset(area, margin)) /\ Inside(Inset(area, margin), area)
         /\ Inset(area, margin).height = Minus(area.height, Plus(margin, margin))
<1>1. /\ Plus(area.x, Least(margin, area.width)) = area.x + Least(margin, area.width)
      /\ Plus(area.y, Least(margin, area.height)) = area.y + Least(margin, area.height)
      /\ Least(margin, area.width) \in Nat /\ Least(margin, area.height) \in Nat
  BY MaxAssumption DEF Area, Right, Bottom, Plus, Least
<1>2. /\ Least(margin, area.width) + Minus(area.width, Plus(margin, margin)) <= area.width
      /\ Minus(area.width, Plus(margin, margin)) \in Nat
  BY MaxAssumption DEF Area, Right, Plus, Least, Minus
<1>3. /\ Least(margin, area.height) + Minus(area.height, Plus(margin, margin)) <= area.height
      /\ Minus(area.height, Plus(margin, margin)) \in Nat
  BY MaxAssumption DEF Area, Bottom, Plus, Least, Minus
<1> QED
  BY <1>1, <1>2, <1>3, MaxAssumption DEF Area, Inside, Inset, Rect, Right, Bottom

(* What is centered in an area that is large enough lies in it.            *)
LEMMA CenteredInside ==
  ASSUME NEW area, Area(area), NEW width \in Nat, NEW height \in Nat,
         width <= area.width, height <= area.height
  PROVE  /\ Area(Centered(area, width, height)) /\ Inside(Centered(area, width, height), area)
         /\ Centered(area, width, height).width = width
         /\ Centered(area, width, height).height = height
<1> DEFINE across == Minus(area.width, width) \div 2
           down == Minus(area.height, height) \div 2
<1>1. across \in Nat /\ across + width <= area.width
  BY DEF Area, Minus
<1>2. down \in Nat /\ down + height <= area.height
  BY DEF Area, Minus
<1>3. Plus(area.x, across) = area.x + across /\ Plus(area.y, down) = area.y + down
  BY <1>1, <1>2, MaxAssumption DEF Area, Plus, Least, Right, Bottom
<1>4. Centered(area, width, height) = Rect(area.x + across, area.y + down, width, height)
  BY <1>3 DEF Centered
<1> HIDE DEF across, down
<1> QED
  BY <1>1, <1>2, <1>4, MaxAssumption DEF Area, Inside, Rect, Right, Bottom

(* The promises of feedback_layout: the box and the message nest in the    *)
(* area, the box keeps its minimum while there is room, and the next two   *)
(* rows go to the newest line and to a gap.                                *)
KeepsPromises(block, area, width, preferred, minimum, requested) ==
  /\ Area(block.container) /\ Inside(block.container, area)
  /\ Area(block.message) /\ Inside(block.message, area)
  /\ Bottom(block.container) <= block.message.y
  /\ block.container.width = Least(width, area.width)
  /\ block.container.height >= Least(Least(minimum, preferred), area.height)
  /\ requested > 0 =>
       /\ block.scroll + block.message.height = requested
       /\ area.height > Least(minimum, preferred) => block.message.height > 0
       /\ area.height > Least(minimum, preferred) + 1 => block.message.y > Bottom(block.container)

(* It keeps them whatever it is asked for. *)
LEMMA FeedbackFits ==
  ASSUME NEW area, Area(area), NEW width \in Nat, NEW preferred \in U16,
         NEW minimum \in U16, NEW requested \in Nat,
         NEW block, block = FeedbackBlock(area, width, preferred, minimum, requested)
  PROVE  KeepsPromises(block, area, width, preferred, minimum, requested)
<1> DEFINE least == Least(Least(minimum, preferred), area.height)
           for_message == Flag(requested > 0 /\ area.height > least)
           for_gap == Flag(for_message > 0 /\ area.height > Plus(least, for_message))
           container == Most(Least(preferred, Minus(Minus(area.height, for_message), for_gap)),
                             least)
           left == Minus(area.height, container)
           gap == Flag(requested > 0 /\ left > 1)
           message == Least(requested, Minus(left, gap))
           all == Centered(area, Least(width, area.width), Plus(Plus(container, gap), message))
<1>0. area.width \in Nat /\ area.height \in Nat /\ area.height <= MaxU16
  BY MaxAssumption DEF Area, Bottom
<1>1. least \in Nat /\ least <= area.height
  BY <1>0 DEF Least, U16
<1>2. for_message \in 0..1 /\ (for_message = 1) = (requested > 0 /\ area.height > least)
  BY DEF Flag
<1>3. for_gap \in 0..1 /\ (for_gap = 1) = (for_message > 0 /\ area.height > least + for_message)
  <2> HIDE DEF least, for_message
  <2> QED BY <1>0, <1>1, <1>2, MaxAssumption DEF Flag, Plus, Least
<1>4. /\ container \in Nat /\ least <= container /\ container <= area.height
      /\ container + for_message + for_gap <= area.height
  <2> HIDE DEF least, for_message, for_gap
  <2> QED BY <1>0, <1>1, <1>2, <1>3 DEF Most, Least, Minus, U16
<1>5. left = area.height - container /\ left \in Nat
  <2> HIDE DEF container
  <2> QED BY <1>0, <1>4 DEF Minus
<1>6. gap \in 0..1 /\ (gap = 1) = (requested > 0 /\ left > 1)
  <2> HIDE DEF left
  <2> QED BY DEF Flag
<1>7. /\ message \in Nat /\ message <= requested /\ message + gap <= left
      /\ (requested > 0 /\ left > 0) => message > 0
  <2> HIDE DEF left, gap
  <2> QED BY <1>5, <1>6 DEF Least, Minus
<1>8. Plus(Plus(container, gap), message) = container + gap + message
  <2> HIDE DEF container, gap, message, left
  <2> QED BY <1>0, <1>4, <1>5, <1>6, <1>7, MaxAssumption DEF Plus, Least
<1>9. /\ Area(all) /\ Inside(all, area) /\ all.width = Least(width, area.width)
      /\ all.height = container + gap + message
  <2>1. Least(width, area.width) \in Nat /\ Least(width, area.width) <= area.width
    BY <1>0 DEF Least
  <2>2. container + gap + message \in Nat /\ container + gap + message <= area.height
    <3> HIDE DEF container, gap, message, left
    <3> QED BY <1>0, <1>4, <1>5, <1>6, <1>7
  <2> HIDE DEF container, gap, message
  <2> QED BY <1>8, <2>1, <2>2, CenteredInside
<1>10. block = [container |-> Rect(all.x, all.y, all.width, container),
                message |-> Rect(all.x, Plus(Plus(all.y, container), gap), all.width, message),
                scroll |-> Minus(requested, message)]
  BY DEF FeedbackBlock
<1> HIDE DEF all, message, gap, left, container, for_gap, for_message, least
<1>11. Plus(Plus(all.y, container), gap) = all.y + container + gap
  BY <1>4, <1>6, <1>7, <1>9, MaxAssumption DEF Area, Bottom, Plus, Least
<1>12. /\ block.container = Rect(all.x, all.y, all.width, container)
       /\ block.message = Rect(all.x, all.y + container + gap, all.width, message)
       /\ block.scroll = Minus(requested, message)
  BY <1>10, <1>11
<1>13. /\ Area(block.container) /\ Inside(block.container, area)
       /\ Area(block.message) /\ Inside(block.message, area)
  BY <1>4, <1>6, <1>7, <1>9, <1>12, MaxAssumption DEF Area, Inside, Rect, Right, Bottom
<1>14. /\ block.message.y = Bottom(block.container) + gap
       /\ block.container.width = Least(width, area.width)
       /\ block.container.height = container /\ block.message.height = message
  BY <1>4, <1>6, <1>9, <1>12 DEF Area, Rect, Bottom
<1>15. requested > 0 => block.scroll + message = requested
  BY <1>7, <1>12 DEF Minus
<1>16. (requested > 0 /\ area.height > Least(minimum, preferred)) => message > 0
  BY <1>0, <1>2, <1>3, <1>4, <1>5, <1>7 DEF least, Least, U16
<1>17. (requested > 0 /\ area.height > Least(minimum, preferred) + 1) => gap = 1
  BY <1>0, <1>1, <1>2, <1>3, <1>4, <1>5, <1>6 DEF least, Least, U16
<1>18. Bottom(block.container) \in Nat
  BY <1>13 DEF Area, Bottom
<1> QED
  BY <1>4, <1>6, <1>13, <1>14, <1>15, <1>16, <1>17, <1>18 DEF least, KeepsPromises

-----------------------------------------------------------------------------
(* The sizes of a screen and of an area are naturals. *)
LEMMA ScreenFields ==
  ASSUME NEW s \in ScreenType
  PROVE  /\ s.padding \in U16 /\ s.prompt_padding \in U16
         /\ s.box_width \in U16 /\ s.window_padding \in U16
         /\ s.padding \in Nat /\ s.prompt_padding \in Nat
         /\ s.box_width \in Nat /\ s.window_padding \in Nat
<1>1. s.padding \in U16 /\ s.prompt_padding \in U16
  BY SMTT(60) DEF ScreenType
<1>2. s.box_width \in U16 /\ s.window_padding \in U16
  BY SMTT(60) DEF ScreenType
<1>3. \A n \in U16 : n \in Nat
  BY MaxAssumption DEF U16
<1> QED
  BY <1>1, <1>2, <1>3

LEMMA AreaFields ==
  ASSUME NEW area, Area(area)
  PROVE  /\ area.width \in Nat /\ area.height \in Nat
         /\ area.width <= MaxU16 /\ area.height <= MaxU16
<1>1. /\ area.x \in Nat /\ area.width \in Nat /\ area.x + area.width <= MaxU16
      /\ area.y \in Nat /\ area.height \in Nat /\ area.y + area.height <= MaxU16
  BY DEF Area, Right, Bottom
<1> QED
  BY <1>1, MaxAssumption

(* The heights that the views ask for are 16 bit numbers, and the paddings *)
(* are in the minimum in full as long as it is a number of rows that a     *)
(* screen can have.                                                        *)
LEMMA HeightsAreU16 ==
  ASSUME NEW s \in ScreenType, NEW greeting \in U16
  PROVE  /\ ContainerPadding(s) \in U16 /\ BothPaddings(s) \in U16
         /\ HeightWithGreeting(s, greeting) \in U16 /\ MinimumHeight(s) \in U16
         /\ BothPaddings(s) = Least(MaxU16, 2 * (s.padding + 1))
         /\ Plus(ContainerPadding(s), ContainerPadding(s)) = BothPaddings(s)
<1>1. s.padding \in Nat /\ s.prompt_padding \in Nat /\ s.padding <= MaxU16
  BY ScreenFields, MaxAssumption DEF U16
<1>2. \A a \in Nat, b \in Nat : Plus(a, b) \in U16
  BY Saturation
<1>3. \A n \in U16 : n \in Nat
  BY MaxAssumption DEF U16
<1>4. ContainerPadding(s) \in U16 /\ BothPaddings(s) \in U16
  BY <1>1, <1>2, <1>3 DEF ContainerPadding, BothPaddings
<1>5. BothPaddings(s) = Least(MaxU16, 2 * (s.padding + 1))
  BY <1>1, MaxAssumption DEF BothPaddings, ContainerPadding, Plus, Least
<1>6. HeightWithGreeting(s, greeting) \in U16
  BY <1>2, <1>3, <1>4, <1>1 DEF HeightWithGreeting
<1>7. MinimumHeight(s) \in U16
  <2>1. Flag(AsksAnswer(s)) \in Nat
    BY DEF Flag
  <2> QED BY <1>2, <1>3, <1>4, <2>1 DEF MinimumHeight
<1> QED
  BY <1>4, <1>5, <1>6, <1>7 DEF BothPaddings

LEMMA RowsAreU16 ==
  ASSUME NEW columns \in Texts \cup {None}, NEW width \in U16, NEW separator \in 0..1
  PROVE  Rows(columns, width, separator) \in U16
<1>1. CASE columns = None \/ width = 0
  BY <1>1, MaxAssumption DEF Rows, U16
<1>2. CASE ~(columns = None \/ width = 0)
  <2>1. Lines(columns, width) \in Nat
    BY <1>2, LinesAssumption
  <2> QED BY <1>2, <2>1, MaxAssumption DEF Rows, Least, U16
<1> QED BY <1>1, <1>2

LEMMA TextHeightsAreU16 ==
  ASSUME NEW s \in ScreenType, NEW width \in U16
  PROVE  /\ GreetingHeight(s, width) \in U16
         /\ MessageHeight(PromptMessage(s), width) \in U16
         /\ MessageHeight(s.warning, width) \in U16
<1>1. /\ s.greeting \in Texts \cup {None} /\ s.warning \in Texts \cup {None}
      /\ PromptMessage(s) \in Texts \cup {None}
  <2>1. s.greeting \in Texts \cup {None} /\ s.warning \in Texts \cup {None}
    BY SMTT(60) DEF ScreenType
  <2>2. s.message \in Texts \cup {None} /\ s.prompt \in Texts \cup {None}
    BY SMTT(60) DEF ScreenType
  <2> QED BY <2>1, <2>2 DEF PromptMessage
<1>2. Flag(~s.blank) \in 0..1 /\ 0 \in 0..1
  BY DEF Flag
<1> QED
  BY <1>1, <1>2, RowsAreU16 DEF GreetingHeight, MessageHeight

(* The box and its content, in the area left for the view. *)
BoxNests(box, area) ==
  /\ box.main = area
  /\ Inside(box.container, area) /\ Inside(box.inner, box.container)
  /\ Inside(box.message, area) /\ Bottom(box.container) <= box.message.y
  /\ Area(box.inner)

(* The rows of the prompt: they fit, and the answer and the name come first. *)
LEMMA PromptRowsFit ==
  ASSUME NEW s \in ScreenType, NEW available \in Nat, NEW greeting \in Nat,
         NEW rows, rows = PromptRows(s, available, greeting)
  PROVE  /\ {rows.greeting, rows.username, rows.gap, rows.answer} \subseteq Nat
         /\ rows.greeting + rows.username + rows.gap + rows.answer <= available
         /\ available >= 1 + Flag(AsksAnswer(s)) =>
              rows.username = 1 /\ rows.answer = Flag(AsksAnswer(s))
<1> DEFINE asked == Flag(AsksAnswer(s))
           answer == Least(asked, available)
           username == Least(1, Minus(available, answer))
           left == Minus(Minus(available, answer), username)
           shown == Least(greeting, left)
           gap == IF AsksAnswer(s) THEN Least(s.prompt_padding, Minus(left, shown)) ELSE 0
<1>1. asked \in 0..1 /\ s.prompt_padding \in Nat
  BY ScreenFields DEF Flag
<1>2. rows = [greeting |-> shown, username |-> username, answer |-> answer, gap |-> gap]
  BY DEF PromptRows
<1> HIDE DEF asked
<1>3. /\ answer \in Nat /\ username \in Nat /\ left \in Nat
      /\ answer + username + left = available
      /\ available >= 1 + asked => username = 1 /\ answer = asked
  BY <1>1 DEF Least, Minus
<1> HIDE DEF answer, username, left
<1>4. shown \in Nat /\ gap \in Nat /\ shown + gap <= left
  BY <1>1, <1>3 DEF Least, Minus
<1> HIDE DEF shown, gap
<1> QED
  BY <1>1, <1>2, <1>3, <1>4 DEF asked

LEMMA PromptFits ==
  ASSUME NEW s \in ScreenType, IsPrompt(s), NEW area, Area(area),
         NEW box, box = Prompt(s, area)
  PROVE  /\ BoxNests(box, area)
         /\ {box.greeting, box.username, box.gap, box.answer} \subseteq Nat
         /\ box.greeting + box.username + box.gap + box.answer <= box.inner.height
         /\ area.height >= EssentialHeight(s) =>
              box.username = 1 /\ box.answer = Flag(AsksAnswer(s))
         /\ LET rows == MessageHeight(PromptMessage(s), box.container.width)
            IN rows > 0 =>
                 /\ box.scroll + box.message.height = rows
                 /\ area.height > EssentialHeight(s) => box.message.height > 0
                 /\ area.height > EssentialHeight(s) + 1 =>
                      box.message.y > Bottom(box.container)
<1> DEFINE width == Least(s.box_width, area.width)
           greeting == GreetingHeight(s, ContentWidth(s, area))
           preferred == HeightWithGreeting(s, greeting)
           requested == MessageHeight(PromptMessage(s), width)
           block == FeedbackBlock(area, width, preferred, MinimumHeight(s), requested)
           inner == Inset(block.container, ContainerPadding(s))
           rows == PromptRows(s, inner.height, greeting)
<1>1. /\ area.width \in Nat /\ area.height \in Nat /\ area.height <= MaxU16
      /\ s.padding \in Nat /\ s.prompt_padding \in Nat /\ s.box_width \in U16
  BY ScreenFields, AreaFields
<1>2. width \in U16 /\ width \in Nat /\ Least(width, area.width) = width
  BY <1>1, MaxAssumption DEF Least, U16
<1>3. greeting \in U16
  <2>1. BothPaddings(s) \in Nat
    <3>1. 0 \in U16
      BY MaxAssumption DEF U16
    <3> QED BY <3>1, HeightsAreU16, MaxAssumption DEF U16
  <2>2. ContentWidth(s, area) \in U16
    BY <1>2, <2>1, MaxAssumption DEF ContentWidth, Minus, U16
  <2> QED BY <2>2, TextHeightsAreU16
<1>4. requested \in U16 /\ requested \in Nat
  BY <1>2, TextHeightsAreU16, MaxAssumption DEF U16
<1>5. preferred \in U16 /\ MinimumHeight(s) \in U16 /\ ContainerPadding(s) \in Nat
  BY <1>3, HeightsAreU16, MaxAssumption DEF U16
<1> HIDE DEF preferred, requested, width, greeting
<1>a. block = FeedbackBlock(area, width, preferred, MinimumHeight(s), requested)
  OBVIOUS
<1> HIDE DEF block
<1>b. KeepsPromises(block, area, width, preferred, MinimumHeight(s), requested)
  BY <1>2, <1>4, <1>5, <1>a, FeedbackFits
<1>6. /\ Area(block.container) /\ Inside(block.container, area)
      /\ Inside(block.message, area)
      /\ Bottom(block.container) <= block.message.y
      /\ block.container.width = width
      /\ block.container.height >= Least(Least(MinimumHeight(s), preferred), area.height)
      /\ requested > 0 =>
           /\ block.scroll + block.message.height = requested
           /\ area.height > Least(MinimumHeight(s), preferred) => block.message.height > 0
           /\ area.height > Least(MinimumHeight(s), preferred) + 1 =>
                block.message.y > Bottom(block.container)
  BY <1>2, <1>b DEF KeepsPromises
<1>7. /\ Area(inner) /\ Inside(inner, block.container)
      /\ inner.height = Minus(block.container.height, BothPaddings(s))
  BY <1>3, <1>5, <1>6, InsetInside, HeightsAreU16
<1>8. /\ box.main = area /\ box.container = block.container /\ box.inner = inner
      /\ box.message = block.message /\ box.scroll = block.scroll
      /\ box.greeting = rows.greeting /\ box.username = rows.username
      /\ box.gap = rows.gap /\ box.answer = rows.answer
  BY <1>a DEF Prompt, Box, block, preferred, requested, width, greeting
<1>9. inner.height \in Nat /\ greeting \in Nat /\ block.container.height \in Nat
  BY <1>3, <1>6, <1>7, MaxAssumption DEF Area, U16
<1> HIDE DEF inner
<1>10. Flag(AsksAnswer(s)) \in 0..1 /\ (AsksAnswer(s) <=> Flag(AsksAnswer(s)) = 1)
  BY DEF Flag
<1>11. /\ {rows.greeting, rows.username, rows.gap, rows.answer} \subseteq Nat
       /\ rows.greeting + rows.username + rows.gap + rows.answer <= inner.height
       /\ inner.height >= 1 + Flag(AsksAnswer(s)) =>
            rows.username = 1 /\ rows.answer = Flag(AsksAnswer(s))
  BY <1>9, PromptRowsFit
<1> HIDE DEF rows
<1>13. EssentialHeight(s) \in Nat /\ EssentialHeight(s) >= 3 + Flag(AsksAnswer(s))
  BY <1>1, <1>10 DEF EssentialHeight
<1>14. area.height >= EssentialHeight(s) =>
         /\ BothPaddings(s) = 2 * (s.padding + 1)
         /\ MinimumHeight(s) = EssentialHeight(s) /\ preferred >= EssentialHeight(s)
  <2> SUFFICES ASSUME area.height >= EssentialHeight(s)
               PROVE  /\ BothPaddings(s) = 2 * (s.padding + 1)
                      /\ MinimumHeight(s) = EssentialHeight(s)
                      /\ preferred >= EssentialHeight(s)
    OBVIOUS
  <2>1. EssentialHeight(s) <= MaxU16
    BY <1>1, <1>13, MaxAssumption
  <2>2. BothPaddings(s) = 2 * (s.padding + 1)
    <3>1. BothPaddings(s) = Least(MaxU16, 2 * (s.padding + 1))
      BY <1>3, HeightsAreU16
    <3> QED BY <1>1, <1>10, <2>1, <3>1, MaxAssumption DEF Least, EssentialHeight
  <2>3. MinimumHeight(s) = EssentialHeight(s)
    BY <1>1, <1>10, <2>1, <2>2, MaxAssumption DEF MinimumHeight, EssentialHeight, Plus, Least
  <2>4. preferred >= EssentialHeight(s)
    <3>1. CASE AsksAnswer(s)
      <4>1. preferred = Plus(Plus(Plus(BothPaddings(s), s.prompt_padding), 2), greeting)
        BY <3>1 DEF preferred, HeightWithGreeting, AsksAnswer
      <4>2. BothPaddings(s) \in Nat /\ BothPaddings(s) + 2 = EssentialHeight(s)
        <5>1. Flag(AsksAnswer(s)) = 1
          BY <3>1 DEF Flag
        <5> QED BY <1>1, <2>2, <5>1 DEF EssentialHeight
      <4>3. Plus(BothPaddings(s), s.prompt_padding) >= BothPaddings(s)
        BY <1>1, <2>1, <4>2, MaxAssumption DEF Plus, Least
      <4>4. Plus(Plus(BothPaddings(s), s.prompt_padding), 2) >= EssentialHeight(s)
        BY <1>1, <2>1, <4>2, <4>3, MaxAssumption DEF Plus, Least
      <4> QED
        BY <1>1, <1>9, <1>13, <2>1, <4>1, <4>2, <4>4, MaxAssumption DEF Plus, Least
    <3>2. CASE ~AsksAnswer(s)
      <4>1. preferred = Plus(Plus(BothPaddings(s), 1), greeting)
        BY <3>2 DEF preferred, HeightWithGreeting, IsPrompt
      <4> QED BY <1>1, <1>9, <1>10, <2>1, <2>2, <3>2, <4>1, MaxAssumption
              DEF EssentialHeight, Plus, Least
    <3> QED BY <3>1, <3>2
  <2> QED BY <2>2, <2>3, <2>4
<1>15. BoxNests(box, area)
  BY <1>6, <1>7, <1>8 DEF BoxNests
<1>16. ASSUME area.height >= EssentialHeight(s)
       PROVE  box.username = 1 /\ box.answer = Flag(AsksAnswer(s))
  <2>1. block.container.height >= EssentialHeight(s)
    BY <1>1, <1>5, <1>6, <1>9, <1>13, <1>14, <1>16, MaxAssumption DEF Least, U16
  <2>2. inner.height >= 1 + Flag(AsksAnswer(s))
    BY <1>1, <1>7, <1>9, <1>10, <1>14, <1>16, <2>1 DEF Minus, EssentialHeight
  <2> QED BY <1>8, <1>11, <2>2
<1>17. ASSUME requested > 0
       PROVE  /\ box.scroll + box.message.height = requested
              /\ area.height > EssentialHeight(s) => box.message.height > 0
              /\ area.height > EssentialHeight(s) + 1 => box.message.y > Bottom(box.container)
  <2>1. area.height > EssentialHeight(s) =>
          Least(MinimumHeight(s), preferred) = EssentialHeight(s)
    BY <1>1, <1>5, <1>13, <1>14, MaxAssumption DEF Least, U16
  <2> QED BY <1>1, <1>6, <1>8, <1>13, <1>17, <2>1
<1>18. requested = MessageHeight(PromptMessage(s), box.container.width)
  BY <1>6, <1>8 DEF requested
<1> QED BY <1>8, <1>11, <1>15, <1>16, <1>17, <1>18

LEMMA HeightIsU16 ==
  ASSUME NEW s \in ScreenType, NEW area, Area(area)
  PROVE  Height(s, area) \in U16 /\ Height(s, area) \in Nat
<1>1. area.width \in Nat /\ s.box_width \in U16 /\ 0 \in U16 /\ \A n \in U16 : n \in Nat
  <2>1. 0 \in U16 /\ \A n \in U16 : n \in Nat
    BY MaxAssumption DEF U16
  <2> QED BY <2>1, ScreenFields, AreaFields
<1>2. ContentWidth(s, area) \in U16
  <2>1. BothPaddings(s) \in Nat
    BY <1>1, HeightsAreU16
  <2> QED BY <1>1, <2>1, MaxAssumption DEF ContentWidth, Minus, Least, U16
<1>3. GreetingHeight(s, ContentWidth(s, area)) \in U16
  BY <1>2, TextHeightsAreU16
<1> QED
  BY <1>1, <1>3, HeightsAreU16 DEF Height

LEMMA CommandFits ==
  ASSUME NEW s \in ScreenType, s.mode = "Command", NEW area, Area(area),
         NEW box, box = Command(s, area)
  PROVE  /\ BoxNests(box, area)
         /\ LET rows == MessageHeight(s.warning, box.container.width)
            IN rows > 0 =>
                 /\ box.scroll + box.message.height = rows
                 /\ area.height > EssentialHeight(s) => box.message.height > 0
                 /\ area.height > EssentialHeight(s) + 1 =>
                      box.message.y > Bottom(box.container)
<1> DEFINE width == Least(s.box_width, area.width)
           height == Height(s, area)
           requested == MessageHeight(s.warning, width)
           block == FeedbackBlock(area, width, height, height, requested)
           inner == Inset(block.container, ContainerPadding(s))
<1>1. /\ area.width \in Nat /\ area.height \in Nat /\ area.height <= MaxU16
      /\ s.padding \in Nat /\ s.box_width \in U16 /\ 0 \in U16
  <2>1. 0 \in U16
    BY MaxAssumption DEF U16
  <2> QED BY <2>1, ScreenFields, AreaFields
<1>2. width \in U16 /\ width \in Nat /\ Least(width, area.width) = width
  BY <1>1, MaxAssumption DEF Least, U16
<1>3. height \in U16 /\ height \in Nat
  BY HeightIsU16
<1>4. requested \in U16 /\ requested \in Nat
  BY <1>2, TextHeightsAreU16, MaxAssumption DEF U16
<1>5. ContainerPadding(s) \in Nat
  BY <1>1, HeightsAreU16, MaxAssumption DEF U16
<1> HIDE DEF width, height, requested
<1>6. KeepsPromises(block, area, width, height, height, requested)
  BY <1>2, <1>3, <1>4, FeedbackFits
<1>7. /\ box.main = area /\ box.container = block.container /\ box.inner = inner
      /\ box.message = block.message /\ box.scroll = block.scroll
  BY DEF Command, Box, width, height, requested
<1> HIDE DEF block
<1>8. Area(block.container) /\ block.container.width = width
  BY <1>2, <1>6 DEF KeepsPromises
<1>9. Area(inner) /\ Inside(inner, block.container)
  BY <1>5, <1>8, InsetInside
<1> HIDE DEF inner
<1>10. BoxNests(box, area)
  BY <1>6, <1>7, <1>9 DEF BoxNests, KeepsPromises
<1>11. EssentialHeight(s) \in Nat
  BY <1>1 DEF EssentialHeight, Flag
<1>12. area.height > EssentialHeight(s) => height = EssentialHeight(s)
  <2> SUFFICES ASSUME area.height > EssentialHeight(s) PROVE height = EssentialHeight(s)
    OBVIOUS
  <2>1. EssentialHeight(s) = 2 * (s.padding + 1) + 1
    BY <1>1 DEF EssentialHeight, Flag, AsksAnswer
  <2>2. BothPaddings(s) = Least(MaxU16, 2 * (s.padding + 1))
    BY <1>1, HeightsAreU16
  <2>3. BothPaddings(s) = 2 * (s.padding + 1)
    BY <1>1, <2>1, <2>2, MaxAssumption DEF Least
  <2>4. height = Plus(BothPaddings(s), 1)
    BY DEF height, Height, HeightWithGreeting, AsksAnswer
  <2> QED BY <1>1, <2>1, <2>3, <2>4, MaxAssumption DEF Plus, Least
<1>13. ASSUME requested > 0
       PROVE  /\ box.scroll + box.message.height = requested
              /\ area.height > EssentialHeight(s) => box.message.height > 0
              /\ area.height > EssentialHeight(s) + 1 => box.message.y > Bottom(box.container)
  <2>1. Least(height, height) = height
    BY DEF Least
  <2>2. /\ block.scroll + block.message.height = requested
        /\ area.height > height => block.message.height > 0
        /\ area.height > height + 1 => block.message.y > Bottom(block.container)
    BY <1>6, <1>13, <2>1 DEF KeepsPromises
  <2> QED BY <1>1, <1>7, <1>11, <1>12, <2>2
<1> QED
  BY <1>7, <1>8, <1>10, <1>13 DEF requested

(* get_rect and what a view without feedback makes of it. *)
LEMMA RectFits ==
  ASSUME NEW s \in ScreenType, NEW area, Area(area), NEW items \in Nat,
         NEW container, container = GetRect(s, area, items),
         NEW inner, inner = Inset(container, ContainerPadding(s))
  PROVE  /\ BoxNests(Box(area, container, inner), area)
         /\ inner.height \in Nat
<1>1. /\ area.width \in Nat /\ area.height \in Nat
      /\ Least(s.box_width, area.width) \in Nat /\ Least(s.box_width, area.width) <= area.width
  <2>1. area.width \in Nat /\ area.height \in Nat /\ s.box_width \in Nat
    BY ScreenFields, AreaFields
  <2> QED BY <2>1 DEF Least
<1> DEFINE height == Least(Plus(Height(s, area), Least(MaxU16, items)), area.height)
<1>2. height \in Nat /\ height <= area.height
  <2>1. Height(s, area) \in Nat
    BY HeightIsU16
  <2> QED BY <1>1, <2>1, MaxAssumption DEF Plus, Least
<1>3. container = Centered(area, Least(s.box_width, area.width), height)
  BY DEF GetRect
<1> HIDE DEF height
<1>4. Area(container) /\ Inside(container, area)
  BY <1>1, <1>2, <1>3, CenteredInside
<1>5. ContainerPadding(s) \in Nat
  <2>1. 0 \in U16
    BY MaxAssumption DEF U16
  <2> QED BY <2>1, HeightsAreU16, MaxAssumption DEF U16
<1>6. Area(inner) /\ Inside(inner, container)
  BY <1>4, <1>5, InsetInside
<1>7. LET message == Rect(container.x, Bottom(container), container.width, 0)
      IN Inside(message, area) /\ Bottom(container) <= message.y
  BY <1>1, <1>4, MaxAssumption DEF Area, Inside, Rect, Right, Bottom
<1> QED
  BY <1>4, <1>6, <1>7 DEF BoxNests, Box, Area

LEMMA MenuFits ==
  ASSUME NEW s \in ScreenType, NEW area, Area(area), NEW box, box = Menu(s, area)
  PROVE  /\ BoxNests(box, area)
         /\ (s.selected < s.options /\ box.list.visible > 0) =>
              /\ box.list.start <= s.selected
              /\ s.selected < box.list.start + box.list.visible
              /\ box.list.start > 0 => box.list.start + box.list.visible <= s.options
<1> DEFINE container == GetRect(s, area, s.options)
           inner == Inset(container, ContainerPadding(s))
<1>1. s.options \in Nat /\ s.selected \in Nat
  BY SMTT(60) DEF ScreenType
<1>2. BoxNests(Box(area, container, inner), area) /\ inner.height \in Nat
  BY <1>1, RectFits
<1>3. box = [Box(area, container, inner) EXCEPT !.list = List(s, inner.height)]
  BY DEF Menu
<1> HIDE DEF container, inner
<1>4. BoxNests(box, area)
  BY <1>2, <1>3 DEF BoxNests, Box
<1>5. box.list = List(s, inner.height)
  BY <1>3 DEF Box
<1> QED
  BY <1>1, <1>2, <1>4, <1>5 DEF List, Least, Minus

LEMMA ProcessingFits ==
  ASSUME NEW s \in ScreenType, NEW area, Area(area)
  PROVE  BoxNests(Processing(s, area), area)
BY RectFits DEF Processing

-----------------------------------------------------------------------------
(* However the rows around the view are shared out, what is left for it is *)
(* inside the window's padding.                                            *)
LEMMA MainInside ==
  ASSUME NEW s \in ScreenType, NEW padded, Area(padded),
         NEW given \in Shares(s, padded.height)
  PROVE  Area(MainArea(padded, given)) /\ Inside(MainArea(padded, given), padded)
<1>1. /\ given \in [info : 0..1, above : 0..1, below : 0..1, clock : 0..1]
      /\ Sum(given) = Least(Sum(Wanted(s)), padded.height)
  BY DEF Shares
<1>2. Sum(Wanted(s)) \in Nat /\ padded.height \in Nat
  BY DEF Sum, Wanted, Flag, Area
<1>3. Sum(given) \in Nat /\ Sum(given) <= padded.height
  BY <1>1, <1>2 DEF Least
<1>4. /\ given.info \in Nat /\ given.above \in Nat /\ given.info + given.above <= Sum(given)
  BY <1>1 DEF Sum
<1> QED
  BY <1>3, <1>4, MaxAssumption DEF Area, Inside, MainArea, Rect, Right, Bottom

LEMMA BoxFits ==
  ASSUME NEW s \in ScreenType, NEW area, Area(area),
         NEW f, f.box = BoxOf(s, area)
  PROVE  /\ BoxNests(f.box, area)
         /\ EssentialsShown(s, f) /\ FeedbackShown(s, f) /\ HighlightShown(s, f)
<1>1. CASE IsPrompt(s)
  <2>1. f.box = Prompt(s, area)
    BY <1>1 DEF BoxOf, IsPrompt
  <2>2. Feedback(s) = PromptMessage(s)
    BY <1>1 DEF Feedback, IsPrompt
  <2>3. BoxNests(f.box, area)
    BY <1>1, <2>1, PromptFits
  <2>4. f.box.main = area
    BY <2>3 DEF BoxNests
  <2>5. EssentialsShown(s, f)
    BY <1>1, <2>1, <2>4, PromptFits DEF EssentialsShown
  <2>6. FeedbackShown(s, f)
    BY <1>1, <2>1, <2>2, <2>4, PromptFits DEF FeedbackShown
  <2>7. HighlightShown(s, f)
    BY <1>1 DEF HighlightShown, IsPrompt
  <2> QED BY <2>3, <2>5, <2>6, <2>7
<1>2. CASE s.mode = "Command"
  <2>1. f.box = Command(s, area) /\ ~IsPrompt(s) /\ Feedback(s) = s.warning
    BY <1>2 DEF BoxOf, IsPrompt, Feedback
  <2>2. BoxNests(f.box, area)
    BY <1>2, <2>1, CommandFits
  <2>3. f.box.main = area
    BY <2>2 DEF BoxNests
  <2>4. FeedbackShown(s, f)
    BY <1>2, <2>1, <2>3, CommandFits DEF FeedbackShown
  <2> QED BY <1>2, <2>1, <2>2, <2>4 DEF EssentialsShown, HighlightShown
<1>3. CASE s.mode \in {"Users", "Sessions", "Power"}
  <2>1. f.box = Menu(s, area) /\ ~IsPrompt(s) /\ s.mode # "Command"
    BY <1>3 DEF BoxOf, IsPrompt
  <2> QED BY <2>1, MenuFits DEF EssentialsShown, FeedbackShown, HighlightShown
<1>4. CASE s.mode = "Processing"
  <2>1. f.box = Processing(s, area) /\ ~IsPrompt(s)
    BY <1>4 DEF BoxOf, IsPrompt
  <2> QED BY <1>4, <2>1, ProcessingFits DEF EssentialsShown, FeedbackShown, HighlightShown
<1>5. s.mode \in Modes
  BY SMTT(60) DEF ScreenType
<1> QED
  BY <1>1, <1>2, <1>3, <1>4, <1>5 DEF Modes, IsPrompt

(* On any terminal, with any paddings and widths and for any text: every   *)
(* frame keeps its blocks inside one another, the rows the login needs are *)
(* the last to go, the newest line of the feedback comes next, and the     *)
(* highlighted option is among the visible ones (draw, feedback_layout).   *)
THEOREM FramesFit == PartsSpec => []LayoutFits
<1> DEFINE Inv == (which = "frame" => screen \in Screens) /\ LayoutFits
<1>1. PartsInit => Inv
  BY DEF PartsInit, Init, NoFrame, LayoutFits
<1>2. Inv /\ [PartsNext]_partsVars => Inv'
  <2> SUFFICES ASSUME Inv, [PartsNext]_partsVars PROVE Inv'
    OBVIOUS
  <2>1. CASE which = "frame" /\ Draw /\ UNCHANGED which
    <3> DEFINE terminal == Rect(0, 0, screen.width, screen.height)
               padded == Inset(terminal, screen.window_padding)
    <3>1. screen' = screen /\ screen \in ScreenType
      BY <2>1, ScreensAssumption DEF Draw
    <3>2. PICK given \in Shares(screen, padded.height) :
            /\ frame'.padded = padded
            /\ frame'.box = BoxOf(screen, MainArea(padded, given))
      BY <2>1 DEF Draw
    <3>3. Area(terminal) /\ screen.window_padding \in Nat
      <4>1. screen.width \in U16 /\ screen.height \in U16
        BY <3>1, SMTT(60) DEF ScreenType
      <4>2. screen.window_padding \in Nat
        BY <3>1, ScreenFields
      <4>3. Area(terminal)
        BY <4>1, MaxAssumption DEF U16, Area, Rect, Right, Bottom
      <4> QED BY <4>2, <4>3
    <3> HIDE DEF terminal
    <3>4. Area(padded) /\ Inside(padded, terminal)
      BY <3>3, InsetInside
    <3> HIDE DEF padded
    <3>5. Area(MainArea(padded, given)) /\ Inside(MainArea(padded, given), padded)
      BY <3>1, <3>2, <3>4, MainInside
    <3>6. /\ BoxNests(frame'.box, MainArea(padded, given))
          /\ EssentialsShown(screen, frame') /\ FeedbackShown(screen, frame')
          /\ HighlightShown(screen, frame')
      BY <3>1, <3>2, <3>5, BoxFits
    <3>7. BlocksNest(screen, frame')
      BY <3>2, <3>4, <3>5, <3>6 DEF BlocksNest, BoxNests, terminal
    <3> QED BY <2>1, <3>1, <3>6, <3>7 DEF LayoutFits
  <2>2. CASE UNCHANGED <<which, screen, frame>>
    BY <2>2 DEF LayoutFits
  <2> QED
    BY <2>1, <2>2 DEF PartsNext, partsVars, layoutVars, Next
<1>3. Inv => LayoutFits
  OBVIOUS
<1> QED
  BY <1>1, <1>2, <1>3, PTL DEF PartsSpec

-----------------------------------------------------------------------------
(* The terminal *)

Untouched == raw = FALSE /\ alternate = FALSE /\ hidden = FALSE

(* No mode changes before signals are listened to, the guard is armed from *)
(* the first mode on, and every restoration step behind the current one is *)
(* done or recorded.                                                       *)
Guarded ==
  /\ ~listening => pc \in {"start", "gone"} /\ Untouched
  /\ pc \in {"start", "enter"} => Untouched
  /\ pc \in {"enable_raw", "enter_screen", "backend", "running", "leaving", "restore"} => active
  /\ pc \in {"clear", "move_home", "show_cursor", "leave_screen", "gone"}
       => (raw => "disable_raw" \in failed)
  /\ pc \in {"leave_screen", "gone"} => (hidden => "show_cursor" \in failed)
  /\ pc = "gone" => (alternate => "leave_screen" \in failed)

TerminalInv == Guard!TypeOK /\ Guarded

(* The untouched terminal needs no guard. *)
LEMMA InitGuarded == Guard!Init => TerminalInv
  BY DEF Guard!Init, TerminalInv, Guard!TypeOK, Guarded, Untouched, Guard!Restoring

(* Every step of run, of a panic or of the restoration keeps the guard.    *)
LEMMA StepGuarded == TerminalInv /\ (Guard!Next \/ UNCHANGED terminalVars) => TerminalInv'
<1> SUFFICES ASSUME TerminalInv, Guard!Next \/ UNCHANGED terminalVars PROVE TerminalInv'
  OBVIOUS
<1> USE DEF TerminalInv, Guard!TypeOK, Guarded, Untouched, Guard!Restoring, Guard!modes
<1>1. CASE Guard!RegisterSignals
  BY <1>1 DEF Guard!RegisterSignals
<1>2. CASE Guard!Arm
  BY <1>2 DEF Guard!Arm
<1>3. CASE Guard!EnableRaw
  BY <1>3 DEF Guard!EnableRaw
<1>4. CASE Guard!EnterScreen
  BY <1>4 DEF Guard!EnterScreen
<1>5. CASE Guard!Backend
  BY <1>5 DEF Guard!Backend
<1>6. CASE Guard!LoopEnds \/ Guard!RunReturns \/ Guard!Panic
  BY <1>6 DEF Guard!LoopEnds, Guard!RunReturns, Guard!Panic
<1>7. CASE Guard!Killed
  BY <1>7 DEF Guard!Killed
<1>8. CASE Guard!Restore
  BY <1>8 DEF Guard!Restore
<1>9. CASE Guard!RestoreStep
  <2>1. /\ listening' = listening /\ active' = active
        /\ failed' = failed \/ failed' = failed \cup {pc}
        /\ pc \in Guard!Restoring /\ pc' \in Guard!Restoring \cup {"gone"}
    BY <1>9 DEF Guard!RestoreStep, Guard!Done, Guard!Fails, Guard!RecordError
  <2>2. failed' \subseteq Guard!Restoring /\ failed \subseteq failed'
    BY <2>1
  <2>3. /\ raw' = raw \/ raw' = FALSE
        /\ alternate' = alternate \/ alternate' = FALSE
        /\ hidden' = hidden \/ hidden' = FALSE
    BY <1>9 DEF Guard!RestoreStep, Guard!Done, Guard!Fails, Guard!RecordError
  <2>4. (Guard!TypeOK)'
    BY <2>1, <2>2, <2>3
  <2>5. /\ pc = "disable_raw" => pc' = "clear" /\ (raw' => "disable_raw" \in failed')
        /\ pc = "clear" => pc' = "move_home"
        /\ pc = "move_home" => pc' = "show_cursor"
        /\ pc = "show_cursor" => pc' = "leave_screen" /\ (hidden' => "show_cursor" \in failed')
        /\ pc = "leave_screen" => pc' = "gone" /\ (alternate' => "leave_screen" \in failed')
    BY <1>9 DEF Guard!RestoreStep, Guard!Done, Guard!Fails, Guard!RecordError
  <2>6. Guarded'
    BY <2>1, <2>2, <2>3, <2>5
  <2> QED
    BY <2>4, <2>6
<1>10. CASE Guard!Gone \/ UNCHANGED terminalVars
  <2>1. /\ pc' = pc /\ listening' = listening /\ active' = active /\ failed' = failed
        /\ raw' = raw /\ alternate' = alternate /\ hidden' = hidden
    BY <1>10 DEF Guard!Gone, Guard!vars, Guard!modes, terminalVars
  <2> QED
    BY <2>1
<1> QED
  BY <1>1, <1>2, <1>3, <1>4, <1>5, <1>6, <1>7, <1>8, <1>9, <1>10 DEF Guard!Next

(* The terminal is usable whenever the greeter is gone, whatever failed    *)
(* and wherever it stopped, unless a signal killed it which it does not    *)
(* listen to (initialize_terminal, restore_terminal).                      *)
THEOREM TerminalRestored == PartsSpec => []TerminalIsUsable
<1> DEFINE Inv == which = "terminal" => TerminalInv
<1>1. PartsInit => Inv
  BY InitGuarded DEF PartsInit
<1>2. Inv /\ [PartsNext]_partsVars => Inv'
  BY StepGuarded DEF PartsNext, partsVars, terminalVars
<1>3. Inv => TerminalIsUsable
  BY DEF TerminalInv, Guarded, TerminalIsUsable, Guard!TerminalIsUsable
<1> QED
  BY <1>1, <1>2, <1>3, PTL DEF PartsSpec

-----------------------------------------------------------------------------
(* Sums over a sequence                                                    *)

(* A set of natural numbers that has 0 and every successor is all of them: *)
(* the least number that is missing would have a predecessor.              *)
LEMMA Induction ==
  ASSUME NEW T, T \subseteq Nat, 0 \in T, \A n \in T : n + 1 \in T
  PROVE  T = Nat
<1> SUFFICES ASSUME Nat \ T # {} PROVE FALSE
  OBVIOUS
<1>1. PICK x \in Nat \ T : \A y \in Nat \ T : ~(<<y, x>> \in OpToRel(<, Nat))
  BY WFMin, NatLessThanWellFounded
<1>2. \A y \in Nat \ T : ~(y < x)
  BY <1>1 DEF OpToRel
<1>3. x - 1 \in T
  BY <1>2
<1> QED BY <1>3

(* A non-empty set of numbers up to n has a greatest one.                  *)
LEMMA MaxIs ==
  ASSUME NEW n \in Nat, NEW s \in SUBSET (1..n), s # {}
  PROVE  Max(s) \in s /\ \A x \in s : Max(s) >= x
<1> DEFINE T == {n - x : x \in s}
<1>1. T \subseteq Nat /\ T # {}
  <2>1. \A x \in s : n - x \in Nat
    OBVIOUS
  <2> QED BY <2>1
<1>2. PICK m \in T : \A y \in T : ~(<<y, m>> \in OpToRel(<, Nat))
  BY <1>1, WFMin, NatLessThanWellFounded
<1>3. \A y \in T : ~(y < m)
  BY <1>1, <1>2 DEF OpToRel
<1>4. PICK x \in s : m = n - x
  OBVIOUS
<1>5. \A y \in s : x >= y
  <2> TAKE y \in s
  <2>1. n - y \in T /\ ~(n - y < n - x)
    BY <1>3, <1>4
  <2> QED BY <2>1
<1> QED BY <1>5 DEF Max

(* What MapThenFoldSet asks of its recursive function, over 1..n.          *)
Iterates(g, n, base, step) ==
  \A s \in SUBSET (1..n) :
    g[s] = IF s = {} THEN base ELSE step[<<Max(s), g[s \ {Max(s)}]>>]

(* There is such a function: the CHOOSE under a fold finds one.            *)
LEMMA FoldExists ==
  ASSUME NEW n \in Nat, NEW V, NEW base \in V, NEW step \in [(1..n) \X V -> V]
  PROVE  \E g \in [SUBSET (1..n) -> V] : Iterates(g, n, base, step)
<1> DEFINE Folds(g, k) ==
             \A s \in SUBSET (1..k) :
               g[s] = IF s = {} THEN base ELSE step[<<Max(s), g[s \ {Max(s)}]>>]
           Good(k) == \E g \in [SUBSET (1..k) -> V] : Folds(g, k)
           T == {k \in Nat : k <= n => Good(k)}
<1>1. 0 \in T
  <2> DEFINE g == [s \in SUBSET (1..0) |-> base]
  <2>1. g \in [SUBSET (1..0) -> V] /\ Folds(g, 0)
    BY DEF Folds
  <2> QED BY <2>1
<1>2. ASSUME NEW k \in T PROVE k + 1 \in T
  <2> SUFFICES ASSUME k + 1 <= n PROVE Good(k + 1)
    <3> HIDE DEF Good
    <3> QED BY <1>2
  <2>0. k \in Nat /\ Good(k)
    <3> HIDE DEF Good
    <3> QED BY <1>2
  <2>1. PICK g \in [SUBSET (1..k) -> V] : Folds(g, k)
    BY <2>0
  <2> DEFINE h == [s \in SUBSET (1..(k + 1)) |->
                     IF k + 1 \in s THEN step[<<k + 1, g[s \ {k + 1}]>>] ELSE g[s]]
  <2>2. \A s \in SUBSET (1..(k + 1)) :
          s \ {k + 1} \in SUBSET (1..k) /\ (k + 1 \notin s => s \in SUBSET (1..k))
    BY <2>0
  <2>3. h \in [SUBSET (1..(k + 1)) -> V]
    <3>1. \A s \in SUBSET (1..(k + 1)) : g[s \ {k + 1}] \in V
      BY <2>1, <2>2
    <3>2. k + 1 \in 1..n
      BY <2>0
    <3>3. \A v \in V : step[<<k + 1, v>>] \in V
      BY <3>2
    <3> QED BY <2>1, <2>2, <3>1, <3>3
  <2>4. ASSUME NEW s \in SUBSET (1..(k + 1))
        PROVE  h[s] = IF s = {} THEN base ELSE step[<<Max(s), h[s \ {Max(s)}]>>]
    <3>1. CASE k + 1 \in s
      <4>1. Max(s) = k + 1
        <5>1. \A x \in s : k + 1 >= x
          BY <2>0
        <5>2. \A x \in s : (\A y \in s : x >= y) => x = k + 1
          BY <2>0, <3>1
        <5> QED BY <3>1, <5>1, <5>2 DEF Max
      <4>2. h[s \ {k + 1}] = g[s \ {k + 1}]
        BY <2>2
      <4> QED BY <3>1, <4>1, <4>2
    <3>2. CASE k + 1 \notin s
      <4>1. s \in SUBSET (1..k) /\ h[s] = g[s] /\ s \ {Max(s)} \in SUBSET (1..k)
        BY <3>2, <2>2
      <4>2. h[s \ {Max(s)}] = g[s \ {Max(s)}]
        BY <3>2, <2>2
      <4>3. g[s] = IF s = {} THEN base ELSE step[<<Max(s), g[s \ {Max(s)}]>>]
        BY <2>1, <4>1
      <4> QED BY <4>1, <4>2, <4>3
    <3> QED BY <3>1, <3>2
  <2> QED BY <2>3, <2>4
<1>3. T = Nat
  <2> HIDE DEF T
  <2>1. T \subseteq Nat
    BY DEF T
  <2> QED BY <1>1, <1>2, <2>1, Induction
<1> QED
  <2>1. n \in Nat /\ n <= n
    OBVIOUS
  <2>2. Good(n)
    <3> HIDE DEF Good
    <3> QED BY <1>3, <2>1
  <2> QED BY <2>2 DEF Iterates

(* The greatest of 1..k, and what is left without it.                      *)
LEMMA Interval ==
  ASSUME NEW k \in Nat, k # 0
  PROVE  Max(1..k) = k /\ (1..k) \ {k} = 1..(k - 1) /\ 1..k # {}
<1>1. \A x \in 1..k : (\A y \in 1..k : x >= y) => x = k
  OBVIOUS
<1> QED BY <1>1 DEF Max

(* The sum of a sequence, as the models write it.                          *)
SumOf(seq) == FoldLeft(LAMBDA sum, n : sum + n, 0, seq)

(* A fold that adds is the last of the partial sums.                       *)
LEMMA SumIs ==
  ASSUME NEW n \in Nat, NEW seq \in [1..n -> Nat]
  PROVE  \E p \in [0..n -> Nat] :
           /\ p[0] = 0 /\ \A k \in 1..n : p[k] = p[k - 1] + seq[k]
           /\ SumOf(seq) = p[n]
<1> DEFINE P(h) == h = [s \in SUBSET (DOMAIN seq) |->
                          IF s = {} THEN 0 ELSE h[s \ {Max(s)}] + seq[Max(s)]]
           H == CHOOSE h : P(h)
           step == [q \in (1..n) \X Nat |-> q[2] + seq[q[1]]]
<1>1. SumOf(seq) = H[DOMAIN seq]
  BY DEF SumOf, FoldLeft, MapThenFoldSet
<1>2. \E g : P(g)
  <2>1. step \in [(1..n) \X Nat -> Nat] /\ 0 \in Nat
    OBVIOUS
  <2>2. PICK g \in [SUBSET (1..n) -> Nat] : Iterates(g, n, 0, step)
    <3> HIDE DEF step
    <3> QED BY <2>1, FoldExists
  <2>3. ASSUME NEW s \in SUBSET (1..n)
        PROVE  g[s] = IF s = {} THEN 0 ELSE g[s \ {Max(s)}] + seq[Max(s)]
    <3>1. CASE s # {}
      <4>1. Max(s) \in 1..n /\ g[s \ {Max(s)}] \in Nat
        BY <3>1, MaxIs
      <4> QED BY <2>2, <3>1, <4>1 DEF Iterates
    <3> QED BY <2>2, <3>1 DEF Iterates
  <2>4. P(g)
    BY <2>3
  <2> QED BY <2>4
<1>3. P(H)
  <2> HIDE DEF P
  <2> QED BY <1>2
<1> HIDE DEF H
<1>4. \A s \in SUBSET (1..n) : H[s] = IF s = {} THEN 0 ELSE H[s \ {Max(s)}] + seq[Max(s)]
  BY <1>3
<1>5. H[1..0] = 0 /\ \A k \in 1..n : H[1..k] = H[1..(k - 1)] + seq[k]
  <2>1. H[1..0] = 0
    <3>1. 1..0 = {} /\ 1..0 \in SUBSET (1..n)
      OBVIOUS
    <3> QED BY <1>4, <3>1
  <2>2. ASSUME NEW k \in 1..n PROVE H[1..k] = H[1..(k - 1)] + seq[k]
    <3>1. /\ 1..k \in SUBSET (1..n) /\ k \in Nat /\ k # 0
      OBVIOUS
    <3>2. /\ 1..k # {} /\ Max(1..k) = k /\ (1..k) \ {k} = 1..(k - 1)
      BY <3>1, Interval
    <3> QED BY <1>4, <3>1, <3>2
  <2> QED BY <2>1, <2>2
<1> DEFINE T == {k \in Nat : k <= n => H[1..k] \in Nat}
<1>6. T = Nat
  <2>1. 0 \in T /\ T \subseteq Nat
    BY <1>5
  <2>2. ASSUME NEW k \in T PROVE k + 1 \in T
    <3>1. CASE k + 1 <= n
      BY <1>5, <3>1
    <3> QED BY <3>1
  <2> HIDE DEF T
  <2> QED BY <2>1, <2>2, Induction
<1> DEFINE p == [k \in 0..n |-> H[1..k]]
<1>7. p \in [0..n -> Nat]
  BY <1>6
<1>8. p[0] = 0 /\ \A k \in 1..n : p[k] = p[k - 1] + seq[k]
  BY <1>5
<1>9. SumOf(seq) = p[n]
  BY <1>1
<1> HIDE DEF p
<1> QED BY <1>7, <1>8, <1>9

(* What holds of every term holds of the sums. *)
LEMMA SumsCompare ==
  ASSUME NEW n \in Nat, n # 0, NEW c \in [1..n -> Nat], NEW f \in [1..n -> Nat],
         NEW k \in Nat, NEW q \in Nat
  PROVE  /\ SumOf(c) \in Nat /\ SumOf(f) \in Nat
         /\ (\A i \in 1..n : q * f[i] <= k * c[i]) => q * SumOf(f) <= k * SumOf(c)
         /\ (\A i \in 1..n : k * c[i] < q * f[i]) => k * SumOf(c) < q * SumOf(f)
<1>1. PICK p \in [0..n -> Nat] :
        /\ p[0] = 0 /\ \A i \in 1..n : p[i] = p[i - 1] + c[i]
        /\ SumOf(c) = p[n]
  BY SumIs
<1>2. PICK r \in [0..n -> Nat] :
        /\ r[0] = 0 /\ \A i \in 1..n : r[i] = r[i - 1] + f[i]
        /\ SumOf(f) = r[n]
  BY SumIs
<1> DEFINE C(i) == k * c[i]
           F(i) == q * f[i]
           P(i) == k * p[i]
           R(i) == q * r[i]
<1>3. ASSUME NEW i \in Nat, i + 1 <= n
      PROVE  /\ i + 1 \in 1..n
             /\ C(i + 1) \in Nat /\ F(i + 1) \in Nat /\ P(i) \in Nat /\ R(i) \in Nat
             /\ P(i + 1) = P(i) + C(i + 1) /\ R(i + 1) = R(i) + F(i + 1)
  <2>1. /\ p[i] \in Nat /\ r[i] \in Nat /\ c[i + 1] \in Nat /\ f[i + 1] \in Nat
        /\ i + 1 \in 1..n /\ (i + 1) - 1 = i
    BY <1>3
  <2>2. p[i + 1] = p[i] + c[i + 1] /\ r[i + 1] = r[i] + f[i + 1]
    BY <1>1, <1>2, <2>1
  <2>3. \A x, y, z \in Nat : x * (y + z) = x * y + x * z
    OBVIOUS
  <2>4. \A x, y \in Nat : x * y \in Nat
    OBVIOUS
  <2>5. k * (p[i] + c[i + 1]) = k * p[i] + k * c[i + 1]
    BY <2>1, <2>3, Zenon
  <2>6. q * (r[i] + f[i + 1]) = q * r[i] + q * f[i + 1]
    BY <2>1, <2>3, Zenon
  <2> QED BY <2>1, <2>2, <2>4, <2>5, <2>6, Zenon
<1>4. P(0) = 0 /\ R(0) = 0
  BY <1>1, <1>2
<1>5. /\ (\A i \in 1..n : q * f[i] <= k * c[i]) <=> \A i \in 1..n : F(i) <= C(i)
      /\ (\A i \in 1..n : k * c[i] < q * f[i]) <=> \A i \in 1..n : C(i) < F(i)
      /\ k * SumOf(c) = P(n) /\ q * SumOf(f) = R(n)
  BY <1>1, <1>2
<1> HIDE DEF C, F, P, R
<1>6. ASSUME \A i \in 1..n : F(i) <= C(i)
      PROVE  R(n) <= P(n)
  <2> DEFINE T == {i \in Nat : i <= n => R(i) <= P(i)}
  <2>1. 0 \in T /\ T \subseteq Nat
    BY <1>4
  <2>2. ASSUME NEW i \in T PROVE i + 1 \in T
    <3>1. CASE i + 1 <= n
      <4>1. i \in Nat /\ R(i) <= P(i) /\ F(i + 1) <= C(i + 1)
        BY <1>3, <1>6, <3>1
      <4>2. /\ C(i + 1) \in Nat /\ F(i + 1) \in Nat /\ P(i) \in Nat /\ R(i) \in Nat
            /\ P(i + 1) = P(i) + C(i + 1) /\ R(i + 1) = R(i) + F(i + 1)
        BY <1>3, <3>1, <4>1
      <4>3. R(i + 1) <= P(i + 1)
        BY <4>1, <4>2
      <4> QED BY <4>1, <4>3
    <3> QED BY <3>1
  <2>3. T = Nat
    <3> HIDE DEF T
    <3> QED BY <2>1, <2>2, Induction
  <2>4. n \in T
    <3> HIDE DEF T
    <3> QED BY <2>3
  <2> QED BY <2>4
<1>7. ASSUME \A i \in 1..n : C(i) < F(i)
      PROVE  P(n) < R(n)
  <2> DEFINE T == {i \in Nat : i + 1 <= n => P(i + 1) < R(i + 1)}
  <2>1. 0 \in T /\ T \subseteq Nat
    BY <1>3, <1>4, <1>7
  <2>2. ASSUME NEW i \in T PROVE i + 1 \in T
    <3>1. CASE (i + 1) + 1 <= n
      <4>1. i + 1 \in Nat /\ P(i + 1) < R(i + 1) /\ C((i + 1) + 1) < F((i + 1) + 1)
        BY <1>3, <1>7, <3>1
      <4> DEFINE j == i + 1
      <4>2. j \in Nat /\ j + 1 <= n
        BY <3>1, <4>1
      <4> HIDE DEF j
      <4>3. /\ C(j + 1) \in Nat /\ F(j + 1) \in Nat /\ P(j) \in Nat /\ R(j) \in Nat
            /\ P(j + 1) = P(j) + C(j + 1) /\ R(j + 1) = R(j) + F(j + 1)
        BY <1>3, <4>2
      <4>4. P(j) < R(j) /\ C(j + 1) < F(j + 1)
        BY <4>1 DEF j
      <4>5. P(j + 1) < R(j + 1)
        BY <4>3, <4>4
      <4> QED BY <4>1, <4>5 DEF j
    <3> QED BY <3>1
  <2>3. T = Nat
    <3> HIDE DEF T
    <3> QED BY <2>1, <2>2, Induction
  <2>4. n - 1 \in Nat /\ (n - 1) + 1 = n
    OBVIOUS
  <2>5. n - 1 \in T
    BY <2>3, <2>4
  <2> QED BY <2>4, <2>5
<1>8. SumOf(c) \in Nat /\ SumOf(f) \in Nat
  BY <1>1, <1>2
<1> QED BY <1>5, <1>6, <1>7, <1>8, Zenon

(* n ones make n.                                                          *)
LEMMA OnesSum ==
  ASSUME NEW n \in Nat, NEW one \in [1..n -> Nat], \A i \in 1..n : one[i] = 1
  PROVE  SumOf(one) = n
<1>1. PICK p \in [0..n -> Nat] :
        /\ p[0] = 0 /\ \A i \in 1..n : p[i] = p[i - 1] + one[i]
        /\ SumOf(one) = p[n]
  BY SumIs
<1> DEFINE T == {i \in Nat : i <= n => p[i] = i}
<1>2. 0 \in T /\ T \subseteq Nat
  BY <1>1
<1>3. ASSUME NEW i \in T PROVE i + 1 \in T
  <2>1. CASE i + 1 <= n
    <3>1. i \in Nat /\ i + 1 \in 1..n /\ p[i] = i
      BY <2>1
    <3>2. p[i + 1] = i + 1
      BY <1>1, <3>1
    <3> QED BY <3>1, <3>2
  <2> QED BY <2>1
<1>4. T = Nat
  <2> HIDE DEF T
  <2> QED BY <1>2, <1>3, Induction
<1>5. n \in T
  <2> HIDE DEF T
  <2> QED BY <1>4
<1> QED BY <1>1, <1>5

(* The total of the battery samples is such a sum.                         *)
LEMMA TotalIsSum == \A numbers : Reading!Total(numbers) = SumOf(numbers)
BY DEF SumOf, Reading!Total, FoldLeft, MapThenFoldSet, Max,
       Reading!FoldLeft, Reading!MapThenFoldSet, Reading!Max

(* The quotient is the greatest multiple that fits.                        *)
LEMMA Quotient ==
  ASSUME NEW a \in Nat, NEW f \in Nat, f # 0, NEW m \in Nat
  PROVE  /\ a \div f \in Nat
         /\ m * f <= a <=> m <= a \div f
<1> DEFINE d == a \div f
           r == a % f
<1>1. d \in Nat /\ r \in Nat /\ r < f /\ a = f * d + r
  OBVIOUS
<1> HIDE DEF d, r
<1>2. \A x, y \in Nat : x <= y => f * x <= f * y
  OBVIOUS
<1>3. ASSUME m <= d PROVE m * f <= a
  <2>1. f * m <= f * d
    BY <1>1, <1>2, <1>3
  <2>2. f * m = m * f /\ f * m \in Nat /\ f * d \in Nat
    BY <1>1
  <2> QED BY <1>1, <2>1, <2>2
<1>4. ASSUME d < m PROVE ~(m * f <= a)
  <2>1. f * (d + 1) <= f * m
    BY <1>1, <1>2, <1>4
  <2>2. f * m = m * f /\ f * m \in Nat /\ f * d \in Nat /\ f * (d + 1) = f * d + f
    BY <1>1
  <2> QED BY <1>1, <2>1, <2>2
<1> QED BY <1>1, <1>3, <1>4 DEF d

-----------------------------------------------------------------------------
(* Batteries *)

(* percentage is at most 100, and at least m exactly when the current      *)
(* value is m hundredths of the full one.                                  *)
LEMMA PercentageIs ==
  ASSUME NEW current \in Nat, NEW full \in Nat, full # 0, NEW m \in Nat
  PROVE  /\ Reading!Percentage(current, full) \in Nat /\ Reading!Percentage(current, full) <= 100
         /\ m <= Reading!Percentage(current, full) <=> m <= 100 /\ m * full <= 100 * current
<1> DEFINE a == current * 100
           d == a \div full
<1>1. a \in Nat /\ a = 100 * current
  OBVIOUS
<1> HIDE DEF a
<1>2. d \in Nat /\ (m * full <= a <=> m <= d)
  BY <1>1, Quotient
<1>3. Reading!Percentage(current, full) = IF d > 100 THEN 100 ELSE d
  BY DEF Reading!Percentage, Reading!AtMost, a
<1> HIDE DEF d
<1> QED BY <1>1, <1>2, <1>3

(* A sample of a battery: the full value is not zero. *)
Sound(sample) ==
  /\ sample \in Reading!Samples /\ sample.full # 0
  /\ sample.unit = "capacity" => sample.current <= 100

(* The own percentage of a sample is a percentage.                         *)
LEMMA OwnPercentageIs ==
  ASSUME NEW sample, Sound(sample)
  PROVE  Reading!OwnPercentage(sample) \in Nat /\ Reading!OwnPercentage(sample) <= 100
<1>1. sample.current \in Nat /\ sample.full \in Nat /\ sample.full # 0 /\ 0 \in Nat
  BY DEF Sound, Reading!Samples
<1>2. /\ Reading!Percentage(sample.current, sample.full) \in Nat
      /\ Reading!Percentage(sample.current, sample.full) <= 100
  BY <1>1, PercentageIs
<1> QED BY <1>1, <1>2 DEF Reading!OwnPercentage, Sound

(* The aggregate lies between the emptiest and the fullest sample, summed  *)
(* over one unit and averaged over mixed ones (aggregate_percentage).      *)
LEMMA AggregateIsBetween ==
  ASSUME NEW n \in Nat, n # 0, NEW taken \in Seq(Reading!Samples), Len(taken) = n,
         \A i \in 1..n : Sound(taken[i]),
         NEW A, A = Reading!Aggregate(taken)
  PROVE  /\ A \in Nat
         /\ \E i \in 1..n : Reading!OwnPercentage(taken[i]) <= A
         /\ \E i \in 1..n : Reading!OwnPercentage(taken[i]) >= A
<1>1. DOMAIN taken = 1..n /\ taken # <<>> /\ Len(taken) = n
  OBVIOUS
<1>2. CASE Reading!AllIn("energy", taken) \/ Reading!AllIn("charge", taken)
  <2> DEFINE c == [i \in DOMAIN taken |-> taken[i].current]
             f == [i \in DOMAIN taken |-> taken[i].full]
             C == SumOf(c)
             F == SumOf(f)
  <2>1. A = Reading!Percentage(C, F)
    BY <1>1, <1>2, TotalIsSum DEF Reading!Aggregate
  <2>2. /\ c \in [1..n -> Nat] /\ f \in [1..n -> Nat]
        /\ \A i \in 1..n : c[i] = taken[i].current /\ f[i] = taken[i].full /\ f[i] # 0
    BY <1>1 DEF Sound, Reading!Samples
  <2>3. \A i \in 1..n : Reading!OwnPercentage(taken[i]) = Reading!Percentage(c[i], f[i])
    BY <1>1, <1>2, <2>2 DEF Reading!AllIn, Reading!OwnPercentage
  <2> HIDE DEF c, f
  <2>4. \A k, q \in Nat :
          /\ C \in Nat /\ F \in Nat
          /\ (\A i \in 1..n : q * f[i] <= k * c[i]) => q * F <= k * C
          /\ (\A i \in 1..n : k * c[i] < q * f[i]) => k * C < q * F
    BY <2>2, SumsCompare
  <2>5. C \in Nat /\ F \in Nat /\ F # 0
    <3>1. \A i \in 1..n : 0 * c[i] < 1 * f[i]
      BY <2>2
    <3>2. 0 \in Nat /\ 1 \in Nat
      OBVIOUS
    <3>3. C \in Nat /\ F \in Nat /\ 0 * C < 1 * F
      BY <2>4, <3>1, <3>2
    <3> QED BY <3>3
  <2> HIDE DEF C, F
  <2>a. A \in Nat /\ A <= 100
    <3>1. 0 \in Nat
      OBVIOUS
    <3> QED BY <2>1, <2>5, <3>1, PercentageIs
  <2>b. \A i \in 1..n : Reading!OwnPercentage(taken[i]) \in Nat
    BY OwnPercentageIs
  <2>6. \A m \in Nat : m <= A <=> m <= 100 /\ m * F <= 100 * C
    <3> TAKE m \in Nat
    <3>1. m <= Reading!Percentage(C, F) <=> m <= 100 /\ m * F <= 100 * C
      BY <2>5, PercentageIs
    <3> QED BY <2>1, <3>1, Zenon
  <2>7. \A i \in 1..n : \A m \in Nat :
          m <= Reading!OwnPercentage(taken[i]) <=> m <= 100 /\ m * f[i] <= 100 * c[i]
    <3> TAKE i \in 1..n
    <3> TAKE m \in Nat
    <3>1. /\ c[i] \in Nat /\ f[i] \in Nat /\ f[i] # 0
          /\ Reading!OwnPercentage(taken[i]) = Reading!Percentage(c[i], f[i])
      BY <2>2, <2>3
    <3>2. m <= Reading!Percentage(c[i], f[i]) <=> m <= 100 /\ m * f[i] <= 100 * c[i]
      BY <3>1, PercentageIs
    <3> QED BY <3>1, <3>2, Zenon
  <2>8. \E i \in 1..n : Reading!OwnPercentage(taken[i]) <= A
    <3> SUFFICES ASSUME \A i \in 1..n : ~(Reading!OwnPercentage(taken[i]) <= A) PROVE FALSE
      OBVIOUS
    <3> DEFINE m == A + 1
    <3>1. m \in Nat /\ ~(m <= A)
      BY <2>a
    <3>2. \A i \in 1..n : m <= Reading!OwnPercentage(taken[i])
      BY <2>a, <2>b
    <3> HIDE DEF m
    <3>3. \A i \in 1..n : m <= 100 /\ m * f[i] <= 100 * c[i]
      BY <2>7, <3>1, <3>2
    <3>4. m * F <= 100 * C
      BY <2>4, <3>1, <3>3
    <3>5. m <= 100
      BY <3>3
    <3> QED BY <2>6, <3>1, <3>4, <3>5
  <2>9. \E i \in 1..n : Reading!OwnPercentage(taken[i]) >= A
    <3> SUFFICES ASSUME \A i \in 1..n : ~(Reading!OwnPercentage(taken[i]) >= A) PROVE FALSE
      OBVIOUS
    <3>1. A \in Nat /\ A <= 100 /\ 100 \in Nat
      BY <2>a
    <3>2. \A i \in 1..n : ~(A <= Reading!OwnPercentage(taken[i]))
      BY <2>a, <2>b
    <3>3. \A i \in 1..n : ~(A * f[i] <= 100 * c[i])
      BY <2>7, <3>1, <3>2
    <3>4. \A i \in 1..n : 100 * c[i] < A * f[i]
      <4> TAKE i \in 1..n
      <4>1. 100 * c[i] \in Nat /\ A * f[i] \in Nat
        BY <2>2, <3>1
      <4> QED BY <3>3, <4>1
    <3>5. 100 * C < A * F
      BY <2>4, <3>1, <3>4
    <3>6. A * F <= 100 * C
      BY <2>6, <3>1
    <3>7. 100 * C \in Nat /\ A * F \in Nat
      BY <2>5, <3>1
    <3> QED BY <3>5, <3>6, <3>7
  <2> QED BY <2>a, <2>8, <2>9
<1>3. CASE ~(Reading!AllIn("energy", taken) \/ Reading!AllIn("charge", taken))
  <2> DEFINE o == [i \in DOMAIN taken |-> Reading!OwnPercentage(taken[i])]
             one == [i \in 1..n |-> 1]
             O == SumOf(o)
  <2>1. A = O \div n
    BY <1>1, <1>3, TotalIsSum DEF Reading!Aggregate
  <2>2. o \in [1..n -> Nat] /\ one \in [1..n -> Nat] /\ \A i \in 1..n : one[i] = 1
    <3>1. \A i \in 1..n : Reading!OwnPercentage(taken[i]) \in Nat
      BY OwnPercentageIs
    <3> QED BY <1>1, <3>1
  <2>3. \A i \in 1..n : o[i] = Reading!OwnPercentage(taken[i])
    BY <1>1
  <2> HIDE DEF o, one
  <2>4. \A q \in Nat :
          /\ O \in Nat
          /\ (\A i \in 1..n : q * one[i] <= 1 * o[i]) => q * SumOf(one) <= 1 * O
          /\ (\A i \in 1..n : 1 * o[i] < q * one[i]) => 1 * O < q * SumOf(one)
    BY <2>2, SumsCompare
  <2>5. SumOf(one) = n
    BY <2>2, OnesSum
  <2>6. O \in Nat /\ 0 \in Nat
    BY <2>4
  <2> HIDE DEF O
  <2>a. A \in Nat
    BY <2>1, <2>6, Quotient
  <2>7. \A m \in Nat : m * n <= O <=> m <= A
    BY <2>1, <2>6, Quotient
  <2>8. \E i \in 1..n : o[i] <= A
    <3> SUFFICES ASSUME \A i \in 1..n : ~(o[i] <= A) PROVE FALSE
      OBVIOUS
    <3> DEFINE m == A + 1
    <3>1. m \in Nat /\ ~(m <= A)
      BY <2>a
    <3>2. \A i \in 1..n : m * one[i] <= 1 * o[i]
      BY <2>2, <2>a
    <3> HIDE DEF m
    <3>3. m * n <= O
      BY <2>4, <2>5, <2>6, <3>1, <3>2
    <3> QED BY <2>7, <3>1, <3>3
  <2>9. \E i \in 1..n : o[i] >= A
    <3> SUFFICES ASSUME \A i \in 1..n : ~(o[i] >= A) PROVE FALSE
      OBVIOUS
    <3>1. \A i \in 1..n : 1 * o[i] < A * one[i]
      BY <2>2, <2>a
    <3>2. 1 * O < A * n
      BY <2>4, <2>5, <2>a, <3>1
    <3>3. A * n <= O
      BY <2>7, <2>a
    <3>4. A * n \in Nat
      BY <2>a
    <3> QED BY <2>6, <3>2, <3>3, <3>4
  <2> QED BY <2>3, <2>a, <2>8, <2>9
<1> QED BY <1>2, <1>3

(* A pair of files is a ratio if both are readable and the full value is   *)
(* not zero.                                                               *)
IsRatio(ratio, current, full) ==
  /\ (ratio # None) <=> (current # None /\ full \notin {None, 0})
  /\ ratio # None => /\ ratio.current = current /\ ratio.full = full
                     /\ current \in Nat /\ full \in Nat /\ full # 0

(* raw_ratio gives such a pair, and nothing else.                          *)
LEMMA RawRatioIs ==
  ASSUME NEW current \in Nat \cup {None}, NEW full \in Nat \cup {None}
  PROVE  IsRatio(Reading!RawRatio(current, full), current, full)
<1> DEFINE ratio == Reading!RawRatio(current, full)
<1>1. CASE current = None \/ full = None \/ full = 0
  BY <1>1 DEF Reading!RawRatio, IsRatio
<1>2. CASE ~(current = None \/ full = None \/ full = 0)
  <2>1. ratio = [current |-> current, full |-> full] /\ ratio \in Reading!Ratios
    BY <1>2 DEF Reading!RawRatio, Reading!Ratios
  <2>2. ratio # None
    BY <2>1, NoneIsApart
  <2> QED BY <1>2, <2>1, <2>2 DEF IsRatio
<1> QED BY <1>1, <1>2

(* A sample has the fields it was made of, and is not None.                *)
LEMMA SampleIs ==
  ASSUME NEW unit \in {"energy", "charge", "capacity"}, NEW current \in Nat, NEW full \in Nat,
         NEW sample, sample = Reading!Sample(unit, current, full)
  PROVE  /\ sample \in Reading!Samples /\ sample # None
         /\ sample.unit = unit /\ sample.current = current /\ sample.full = full
<1>1. sample = [unit |-> unit, current |-> current, full |-> full]
  BY DEF Reading!Sample
<1>2. sample \in Reading!Samples
  BY <1>1 DEF Reading!Samples
<1> QED BY <1>1, <1>2, NoneIsApart

(* The best sample of a supply is one of its fills, and there is one if    *)
(* the supply says anything.                                               *)
LEMMA BestSampleIs ==
  ASSUME NEW supply \in Supplies, NEW sample, sample = Reading!BestSample(supply)
  PROVE  /\ sample # None =>
              Sound(sample) /\ Reading!OwnPercentage(sample) \in Reading!FillsOf(supply)
         /\ (sample # None /\ Reading!IsBattery(supply)) <=> Reading!Measurable(supply)
<1> DEFINE energy == Reading!RawRatio(supply.energy_now, supply.energy_full)
           charge == Reading!RawRatio(supply.charge_now, supply.charge_full)
<1>1. /\ supply.energy_now \in Nat \cup {None} /\ supply.energy_full \in Nat \cup {None}
      /\ supply.charge_now \in Nat \cup {None} /\ supply.charge_full \in Nat \cup {None}
      /\ supply.capacity \in Nat \cup {None}
  BY BatteryAssumption
<1>a. /\ IsRatio(energy, supply.energy_now, supply.energy_full)
      /\ IsRatio(charge, supply.charge_now, supply.charge_full)
  BY <1>1, RawRatioIs
<1>4. sample = CASE energy # None -> Reading!Sample("energy", energy.current, energy.full)
                 [] energy = None /\ charge # None ->
                      Reading!Sample("charge", charge.current, charge.full)
                 [] energy = None /\ charge = None /\ supply.capacity # None ->
                      Reading!Sample("capacity", Reading!AtMost(100, supply.capacity), 100)
                 [] OTHER -> None
  BY DEF Reading!BestSample
<1> HIDE DEF energy, charge
<1>2. /\ (energy # None) <=> (supply.energy_now # None /\ supply.energy_full \notin {None, 0})
      /\ energy # None => /\ energy.current = supply.energy_now /\ energy.full = supply.energy_full
                          /\ supply.energy_now \in Nat /\ supply.energy_full \in Nat
                          /\ supply.energy_full # 0
  BY <1>a DEF IsRatio
<1>3. /\ (charge # None) <=> (supply.charge_now # None /\ supply.charge_full \notin {None, 0})
      /\ charge # None => /\ charge.current = supply.charge_now /\ charge.full = supply.charge_full
                          /\ supply.charge_now \in Nat /\ supply.charge_full \in Nat
                          /\ supply.charge_full # 0
  BY <1>a DEF IsRatio
<1> DEFINE pairs == {<<supply.energy_now, supply.energy_full>>,
                     <<supply.charge_now, supply.charge_full>>, <<supply.capacity, 100>>}
<1>5. \A current, full : <<current, full>> \in pairs /\ current # None /\ full \notin {None, 0}
                        => Reading!Percentage(current, full) \in Reading!FillsOf(supply)
  <2> TAKE current, full
  <2>1. <<current, full>>[1] = current /\ <<current, full>>[2] = full
    OBVIOUS
  <2> QED BY <2>1 DEF Reading!FillsOf
<1>6. CASE energy # None
  <2>1. sample = Reading!Sample("energy", supply.energy_now, supply.energy_full)
    BY <1>2, <1>4, <1>6
  <2>2. /\ sample \in Reading!Samples /\ sample # None /\ sample.unit = "energy"
        /\ sample.current = supply.energy_now /\ sample.full = supply.energy_full
    BY <1>2, <1>6, <2>1, SampleIs
  <2>3. Sound(sample)
    BY <1>2, <1>6, <2>2 DEF Sound
  <2>4. Reading!OwnPercentage(sample) \in Reading!FillsOf(supply)
    BY <1>2, <1>5, <1>6, <2>2 DEF Reading!OwnPercentage
  <2> QED BY <1>2, <1>6, <2>2, <2>3, <2>4 DEF Reading!Measurable, Reading!IsBattery
<1>7. CASE energy = None /\ charge # None
  <2>1. sample = Reading!Sample("charge", supply.charge_now, supply.charge_full)
    BY <1>3, <1>4, <1>7
  <2>2. /\ sample \in Reading!Samples /\ sample # None /\ sample.unit = "charge"
        /\ sample.current = supply.charge_now /\ sample.full = supply.charge_full
    BY <1>3, <1>7, <2>1, SampleIs
  <2>3. Sound(sample)
    BY <1>3, <1>7, <2>2 DEF Sound
  <2>4. Reading!OwnPercentage(sample) \in Reading!FillsOf(supply)
    BY <1>3, <1>5, <1>7, <2>2 DEF Reading!OwnPercentage
  <2> QED BY <1>3, <1>7, <2>2, <2>3, <2>4 DEF Reading!Measurable, Reading!IsBattery
<1>8. CASE energy = None /\ charge = None /\ supply.capacity # None
  <2> DEFINE current == Reading!AtMost(100, supply.capacity)
  <2>1. sample = Reading!Sample("capacity", current, 100) /\ supply.capacity \in Nat
    BY <1>1, <1>4, <1>8
  <2>2. current \in Nat /\ current <= 100
    BY <2>1 DEF Reading!AtMost
  <2>3. /\ sample \in Reading!Samples /\ sample # None /\ sample.unit = "capacity"
        /\ sample.current = current /\ sample.full = 100
    <3> HIDE DEF current
    <3>1. 100 \in Nat
      OBVIOUS
    <3> QED BY <2>1, <2>2, <3>1, SampleIs
  <2>4. Sound(sample)
    BY <2>2, <2>3 DEF Sound
  <2>5. Reading!Percentage(supply.capacity, 100) = current
    <3>1. (supply.capacity * 100) \div 100 = supply.capacity
      BY <2>1
    <3> QED BY <3>1 DEF Reading!Percentage
  <2>6. 100 \notin {None, 0}
    BY NoneAssumption
  <2>7. Reading!OwnPercentage(sample) \in Reading!FillsOf(supply)
    BY <1>5, <1>8, <2>3, <2>5, <2>6 DEF Reading!OwnPercentage
  <2> QED BY <1>8, <2>3, <2>4, <2>7 DEF Reading!Measurable, Reading!IsBattery
<1>9. CASE energy = None /\ charge = None /\ supply.capacity = None
  <2>1. sample = None
    BY <1>4, <1>9
  <2> QED BY <1>2, <1>3, <1>9, <2>1 DEF Reading!Measurable, Reading!IsBattery
<1> QED BY <1>6, <1>7, <1>8, <1>9

(* What the loop has read before position n, and what it has made of it.   *)
Read(list, n) == {i \in DOMAIN list : i < n /\ Reading!Measurable(list[i])}

Taken(list, n, taken, mark) ==
  /\ list \in Seq(Supplies) /\ taken \in Seq(Reading!Samples) /\ mark \in BOOLEAN
  /\ (taken = <<>>) <=> (Read(list, n) = {})
  /\ mark <=> \E i \in Read(list, n) : list[i].status = "Charging"
  /\ \A k \in DOMAIN taken :
       /\ Sound(taken[k])
       /\ \E i \in Read(list, n) :
            Reading!OwnPercentage(taken[k]) \in Reading!FillsOf(list[i])

(* The loop has taken what it has read, and a finished reading is of it.   *)
BatteryInv ==
  /\ position \in Nat /\ position # 0 /\ position <= Len(entries) + 2
  /\ Taken(entries, position, samples, charging)
  /\ Reading!ReadingIsOfMeasured

(* An entry that says nothing changes nothing.                             *)
LEMMA SkippedIsTaken ==
  ASSUME NEW list, NEW n \in Nat, NEW taken, NEW mark, Taken(list, n, taken, mark),
         n \notin DOMAIN list \/ ~Reading!Measurable(list[n])
  PROVE  Taken(list, n + 1, taken, mark)
<1>1. Read(list, n + 1) = Read(list, n)
  <2>1. DOMAIN list \subseteq Nat
    BY DEF Taken
  <2> QED BY <2>1 DEF Read
<1> QED BY <1>1 DEF Taken

(* A battery that is sampled joins both the samples and the charging mark. *)
LEMMA SampledIsTaken ==
  ASSUME NEW list, NEW n \in Nat, NEW taken, NEW mark, Taken(list, n, taken, mark),
         n \in DOMAIN list, Reading!IsBattery(list[n]),
         NEW sample, sample = Reading!BestSample(list[n]), sample # None
  PROVE  Taken(list, n + 1, Append(taken, sample), mark \/ list[n].status = "Charging")
<1>1. /\ list \in Seq(Supplies) /\ taken \in Seq(Reading!Samples) /\ mark \in BOOLEAN
      /\ list[n] \in Supplies /\ DOMAIN list \subseteq Nat
  BY DEF Taken
<1>2. /\ Sound(sample) /\ Reading!OwnPercentage(sample) \in Reading!FillsOf(list[n])
      /\ Reading!Measurable(list[n])
  BY <1>1, BestSampleIs
<1>3. Read(list, n + 1) = Read(list, n) \cup {n}
  BY <1>1, <1>2 DEF Read
<1>4. sample \in Reading!Samples
  BY <1>2 DEF Sound
<1>5. /\ Append(taken, sample) \in Seq(Reading!Samples) /\ Append(taken, sample) # <<>>
      /\ DOMAIN Append(taken, sample) = DOMAIN taken \cup {Len(taken) + 1}
      /\ Append(taken, sample)[Len(taken) + 1] = sample
      /\ \A k \in DOMAIN taken : Append(taken, sample)[k] = taken[k]
  BY <1>1, <1>4
<1>6. (mark \/ list[n].status = "Charging") <=>
        \E i \in Read(list, n + 1) : list[i].status = "Charging"
  BY <1>3 DEF Taken
<1>7. ASSUME NEW k \in DOMAIN Append(taken, sample)
      PROVE  /\ Sound(Append(taken, sample)[k])
             /\ \E i \in Read(list, n + 1) :
                  Reading!OwnPercentage(Append(taken, sample)[k]) \in Reading!FillsOf(list[i])
  <2>1. CASE k \in DOMAIN taken
    BY <1>3, <1>5, <2>1 DEF Taken
  <2>2. CASE k = Len(taken) + 1
    BY <1>2, <1>3, <1>5, <2>2
  <2> QED BY <1>5, <2>1, <2>2
<1>8. Read(list, n + 1) # {}
  BY <1>3
<1> QED BY <1>1, <1>5, <1>6, <1>7, <1>8 DEF Taken

(* What is made of the samples at the end. *)
LEMMA FinishedIsMeasured ==
  ASSUME BatteryInv, Reading!Finish
  PROVE  Reading!ReadingIsOfMeasured'
<1> DEFINE A == Reading!Aggregate(samples)
<1>1. /\ entries' = entries /\ position = Len(entries) + 1 /\ position' = Len(entries) + 2
      /\ info' = IF A = None THEN None ELSE [percentage |-> A, charging |-> charging]
      /\ entries \in Seq(Supplies) /\ samples \in Seq(Reading!Samples) /\ charging \in BOOLEAN
  BY DEF Reading!Finish, BatteryInv, Taken
<1>2. Read(entries, position) = Reading!Measured /\ Reading!Measured' = Reading!Measured
  BY <1>1 DEF Read, Reading!Measured
<1>3. CASE samples = <<>>
  <2>1. A = None
    BY <1>3 DEF Reading!Aggregate
  <2> QED BY <1>1, <1>2, <1>3, <2>1 DEF Reading!ReadingIsOfMeasured, BatteryInv, Taken
<1>4. CASE samples # <<>>
  <2> DEFINE n == Len(samples)
  <2>1. n \in Nat /\ n # 0 /\ DOMAIN samples = 1..n
    BY <1>1, <1>4
  <2>2. /\ A \in Nat
        /\ \E i \in 1..n : Reading!OwnPercentage(samples[i]) <= A
        /\ \E i \in 1..n : Reading!OwnPercentage(samples[i]) >= A
    <3>1. \A i \in 1..n : Sound(samples[i])
      BY <2>1 DEF BatteryInv, Taken
    <3> HIDE DEF n
    <3> QED BY <1>1, <2>1, <3>1, AggregateIsBetween DEF n
  <2>3. \A k \in 1..n : \E i \in Reading!Measured :
          Reading!OwnPercentage(samples[k]) \in Reading!FillsOf(entries[i])
    BY <1>2, <2>1 DEF BatteryInv, Taken
  <2> HIDE DEF A, n
  <2>4. info' = [percentage |-> A, charging |-> charging] /\ info' # None
    <3>1. A # None
      BY <2>2, NoneAssumption
    <3>2. [percentage |-> A, charging |-> charging] \in Reading!Readings
      BY <1>1, <2>2 DEF Reading!Readings
    <3> QED BY <1>1, <3>1, <3>2, NoneIsApart
  <2>5. /\ Reading!Measured # {}
        /\ charging <=> \E i \in Reading!Measured : entries[i].status = "Charging"
    BY <1>2, <1>4 DEF BatteryInv, Taken
  <2>6. \E i \in Reading!Measured : \E fill \in Reading!FillsOf(entries[i]) : fill <= A
    BY <2>2, <2>3
  <2>7. \E i \in Reading!Measured : \E fill \in Reading!FillsOf(entries[i]) : fill >= A
    BY <2>2, <2>3
  <2>8. info'.percentage = A /\ info'.charging = charging /\ entries' = entries
    BY <1>1, <2>4
  <2>9. (info' = None) = (Reading!Measured' = {})
    BY <1>2, <2>4, <2>5
  <2>10. info'.charging = \E i \in Reading!Measured' : entries'[i].status = "Charging"
    BY <1>1, <1>2, <2>5, <2>8
  <2> QED BY <1>2, <2>6, <2>7, <2>8, <2>9, <2>10 DEF Reading!ReadingIsOfMeasured
<1> QED BY <1>3, <1>4

(* Nothing is read at the start.                                           *)
LEMMA InitMeasured == Reading!Init => BatteryInv
<1> SUFFICES ASSUME Reading!Init PROVE BatteryInv
  OBVIOUS
<1>1. PICK n \in 0..Slots : entries \in [1..n -> Supplies]
  BY DEF Reading!Init
<1>2. n \in Nat /\ entries \in Seq(Supplies) /\ Len(entries) = n
  BY <1>1, BatteryAssumption
<1>3. Read(entries, 1) = {}
  BY <1>2 DEF Read
<1>4. position = 1 /\ samples = <<>> /\ charging = FALSE
  BY DEF Reading!Init
<1>5. Taken(entries, 1, <<>>, FALSE)
  <2>1. <<>> \in Seq(Reading!Samples) /\ DOMAIN <<>> = {}
    OBVIOUS
  <2> QED BY <1>2, <1>3, <2>1 DEF Taken
<1>6. ~Reading!Done
  BY <1>2, <1>4 DEF Reading!Done
<1>7. Reading!ReadingIsOfMeasured
  BY <1>6 DEF Reading!ReadingIsOfMeasured
<1>8. position \in Nat /\ position # 0 /\ position <= Len(entries) + 2
  BY <1>2, <1>4
<1> QED BY <1>4, <1>5, <1>7, <1>8, Zenon DEF BatteryInv

(* Every step of the loop keeps that.                                      *)
LEMMA StepMeasured == BatteryInv /\ (Reading!Next \/ UNCHANGED batteryVars) => BatteryInv'
<1> SUFFICES ASSUME BatteryInv, Reading!Next \/ UNCHANGED batteryVars PROVE BatteryInv'
  OBVIOUS
<1>1. /\ position \in Nat /\ position # 0 /\ entries \in Seq(Supplies)
      /\ Len(entries) \in Nat /\ DOMAIN entries = 1..Len(entries)
  BY DEF BatteryInv, Taken
<1>2. CASE Reading!SkipSupply
  <2>1. /\ position <= Len(entries) /\ ~Reading!IsBattery(entries[position])
        /\ position' = position + 1 /\ entries' = entries
        /\ samples' = samples /\ charging' = charging
    BY <1>2 DEF Reading!SkipSupply
  <2>2. ~Reading!Measurable(entries[position])
    BY <2>1 DEF Reading!Measurable, Reading!IsBattery
  <2>3. Taken(entries, position + 1, samples, charging)
    BY <1>1, <2>2, SkippedIsTaken DEF BatteryInv
  <2>4. ~Reading!Done'
    BY <1>1, <2>1 DEF Reading!Done
  <2>5. Reading!ReadingIsOfMeasured'
    BY <2>4 DEF Reading!ReadingIsOfMeasured
  <2>6. position' \in Nat /\ position' # 0 /\ position' <= Len(entries') + 2
    BY <1>1, <2>1
  <2> QED BY <2>1, <2>3, <2>5, <2>6 DEF BatteryInv
<1>3. CASE Reading!ReadSupply
  <2> DEFINE sample == Reading!BestSample(entries[position])
  <2>1. /\ position <= Len(entries) /\ Reading!IsBattery(entries[position])
        /\ position' = position + 1 /\ entries' = entries
        /\ sample = None => samples' = samples /\ charging' = charging
        /\ sample # None => /\ samples' = Append(samples, sample)
                            /\ charging' = (charging \/ entries[position].status = "Charging")
    BY <1>3 DEF Reading!ReadSupply
  <2>2. position \in DOMAIN entries /\ entries[position] \in Supplies
    BY <1>1, <2>1
  <2>3. Taken(entries, position + 1, samples', charging')
    <3>1. CASE sample = None
      <4>1. ~Reading!Measurable(entries[position])
        BY <2>2, <3>1, BestSampleIs
      <4> QED BY <1>1, <2>1, <3>1, <4>1, SkippedIsTaken DEF BatteryInv
    <3>2. CASE sample # None
      <4>1. Taken(entries, position + 1, Append(samples, sample),
                  charging \/ entries[position].status = "Charging")
        BY <1>1, <2>1, <2>2, <3>2, SampledIsTaken DEF BatteryInv
      <4> QED BY <2>1, <3>2, <4>1
    <3> QED BY <3>1, <3>2
  <2>4. ~Reading!Done'
    BY <1>1, <2>1 DEF Reading!Done
  <2>5. Reading!ReadingIsOfMeasured'
    BY <2>4 DEF Reading!ReadingIsOfMeasured
  <2>6. position' \in Nat /\ position' # 0 /\ position' <= Len(entries') + 2
    BY <1>1, <2>1
  <2> QED BY <2>1, <2>3, <2>5, <2>6 DEF BatteryInv
<1>4. CASE Reading!Finish
  <2>1. /\ position = Len(entries) + 1 /\ position' = position + 1
        /\ entries' = entries /\ samples' = samples /\ charging' = charging
    BY <1>4 DEF Reading!Finish
  <2>2. Taken(entries, position + 1, samples, charging)
    BY <1>1, <2>1, SkippedIsTaken DEF BatteryInv
  <2> QED BY <1>1, <1>4, <2>1, <2>2, FinishedIsMeasured DEF BatteryInv
<1>5. CASE UNCHANGED batteryVars
  BY <1>5 DEF batteryVars, BatteryInv, Reading!ReadingIsOfMeasured, Reading!Done, Reading!Measured
<1> QED BY <1>2, <1>3, <1>4, <1>5 DEF Reading!Next

(* The reading is of the batteries that can be measured, for every list of *)
(* supplies and whatever their files say (read_battery_info).              *)
THEOREM ReadingsHold == PartsSpec => []ReadingIsOfMeasured
<1> DEFINE Inv == which = "battery" => BatteryInv
<1>1. PartsInit => Inv
  BY InitMeasured DEF PartsInit
<1>2. Inv /\ [PartsNext]_partsVars => Inv'
  BY StepMeasured DEF PartsNext, partsVars, batteryVars
<1>3. Inv => ReadingIsOfMeasured
  BY DEF BatteryInv, ReadingIsOfMeasured
<1> QED
  BY <1>1, <1>2, <1>3, PTL DEF PartsSpec

-----------------------------------------------------------------------------
(* Walks over the session files *)

(* The step of Distinct. *)
Keep(kept, path) == IF path \in ToSet(kept) THEN kept ELSE Append(kept, path)

(* What is kept of a list grows by one path at a time. *)
LEMMA DistinctGrows ==
  ASSUME NEW P, NEW n \in Nat, NEW seq \in [1..n -> P]
  PROVE  \E p \in [0..n -> Seq(P)] :
           /\ p[0] = <<>> /\ \A k \in 1..n : p[k] = Keep(p[k - 1], seq[k])
           /\ Walk!Distinct(seq) = p[n]
<1> DEFINE F(h) == h = [s \in SUBSET (DOMAIN seq) |->
                          IF s = {} THEN <<>> ELSE Keep(h[s \ {Max(s)}], seq[Max(s)])]
           H == CHOOSE h : F(h)
           step == [q \in (1..n) \X Seq(P) |-> Keep(q[2], seq[q[1]])]
<1>0. \A kept \in Seq(P), path \in P : Keep(kept, path) \in Seq(P)
  BY DEF Keep
<1>1. Walk!Distinct(seq) = H[DOMAIN seq]
  BY DEF Walk!Distinct, Walk!FoldLeft, Walk!MapThenFoldSet, Walk!Max, Walk!ToSet, Max, ToSet, Keep
<1>2. \E g : F(g)
  <2>1. step \in [(1..n) \X Seq(P) -> Seq(P)] /\ <<>> \in Seq(P)
    BY <1>0
  <2>2. PICK g \in [SUBSET (1..n) -> Seq(P)] : Iterates(g, n, <<>>, step)
    <3> HIDE DEF step
    <3> QED BY <2>1, FoldExists
  <2>3. ASSUME NEW s \in SUBSET (1..n)
        PROVE  g[s] = IF s = {} THEN <<>> ELSE Keep(g[s \ {Max(s)}], seq[Max(s)])
    <3>1. CASE s # {}
      <4>1. Max(s) \in 1..n /\ g[s \ {Max(s)}] \in Seq(P)
        BY <3>1, MaxIs
      <4> QED BY <2>2, <3>1, <4>1 DEF Iterates
    <3> QED BY <2>2, <3>1 DEF Iterates
  <2>4. F(g)
    BY <2>3
  <2> QED BY <2>4
<1>3. F(H)
  <2> HIDE DEF F
  <2> QED BY <1>2
<1> HIDE DEF H
<1>4. \A s \in SUBSET (1..n) : H[s] = IF s = {} THEN <<>> ELSE Keep(H[s \ {Max(s)}], seq[Max(s)])
  BY <1>3
<1>5. H[1..0] = <<>> /\ \A k \in 1..n : H[1..k] = Keep(H[1..(k - 1)], seq[k])
  <2>1. H[1..0] = <<>>
    <3>1. 1..0 = {} /\ 1..0 \in SUBSET (1..n)
      OBVIOUS
    <3> QED BY <1>4, <3>1
  <2>2. ASSUME NEW k \in 1..n PROVE H[1..k] = Keep(H[1..(k - 1)], seq[k])
    <3>1. /\ 1..k \in SUBSET (1..n) /\ k \in Nat /\ k # 0
      OBVIOUS
    <3>2. /\ 1..k # {} /\ Max(1..k) = k /\ (1..k) \ {k} = 1..(k - 1)
      BY <3>1, Interval
    <3> QED BY <1>4, <3>1, <3>2
  <2> QED BY <2>1, <2>2
<1> DEFINE T == {k \in Nat : k <= n => H[1..k] \in Seq(P)}
<1>6. T = Nat
  <2>1. 0 \in T /\ T \subseteq Nat
    <3>1. H[1..0] \in Seq(P)
      BY <1>5
    <3> QED BY <3>1
  <2>2. ASSUME NEW k \in T PROVE k + 1 \in T
    <3>1. CASE k + 1 <= n
      <4>1. k + 1 \in 1..n /\ (k + 1) - 1 = k /\ H[1..k] \in Seq(P)
        BY <3>1
      <4>2. H[1..(k + 1)] = Keep(H[1..k], seq[k + 1]) /\ seq[k + 1] \in P
        BY <1>5, <4>1
      <4> QED BY <1>0, <4>1, <4>2
    <3> QED BY <3>1
  <2> HIDE DEF T
  <2> QED BY <2>1, <2>2, Induction
<1> DEFINE p == [k \in 0..n |-> H[1..k]]
<1>7. p \in [0..n -> Seq(P)]
  BY <1>6
<1>8. p[0] = <<>> /\ \A k \in 1..n : p[k] = Keep(p[k - 1], seq[k])
  BY <1>5
<1>9. Walk!Distinct(seq) = p[n]
  BY <1>1
<1> HIDE DEF p
<1> QED BY <1>7, <1>8, <1>9

(* x is the first element of a sequence that is in s. *)
FirstIn(seq, s, x) ==
  /\ x \in s
  /\ \E i \in DOMAIN seq : seq[i] = x /\ \A j \in DOMAIN seq : j < i => seq[j] \notin s

(* One more element is the first in s only if none before it is. *)
LEMMA FirstOfAppend ==
  ASSUME NEW P, NEW seq \in Seq(P), NEW r \in P, NEW s \in SUBSET P, NEW x \in P
  PROVE  FirstIn(Append(seq, r), s, x)
           <=> FirstIn(seq, s, x) \/ (r = x /\ x \in s /\ \A y \in ToSet(seq) : y \notin s)
<1> DEFINE longer == Append(seq, r)
           n == Len(seq)
<1>1. /\ DOMAIN longer = 1..(n + 1) /\ DOMAIN seq = 1..n /\ n \in Nat
      /\ longer[n + 1] = r /\ \A i \in 1..n : longer[i] = seq[i]
  OBVIOUS
<1> HIDE DEF longer, n
<1>2. ASSUME FirstIn(seq, s, x) PROVE FirstIn(longer, s, x)
  <2>1. PICK i \in 1..n : seq[i] = x /\ \A j \in 1..n : j < i => seq[j] \notin s
    BY <1>1, <1>2 DEF FirstIn
  <2>2. \A j \in 1..(n + 1) : j < i => longer[j] \notin s
    BY <1>1, <2>1
  <2>3. i \in 1..(n + 1) /\ longer[i] = x
    BY <1>1, <2>1
  <2> QED BY <1>1, <1>2, <2>2, <2>3 DEF FirstIn
<1>3. ASSUME r = x, x \in s, \A y \in ToSet(seq) : y \notin s PROVE FirstIn(longer, s, x)
  <2>1. \A j \in 1..(n + 1) : j < n + 1 => longer[j] \notin s
    BY <1>1, <1>3 DEF ToSet
  <2>2. n + 1 \in 1..(n + 1)
    BY <1>1
  <2> QED BY <1>1, <1>3, <2>1, <2>2 DEF FirstIn
<1>4. ASSUME FirstIn(longer, s, x)
      PROVE  FirstIn(seq, s, x) \/ (r = x /\ x \in s /\ \A y \in ToSet(seq) : y \notin s)
  <2>1. PICK i \in 1..(n + 1) : longer[i] = x /\ \A j \in 1..(n + 1) : j < i => longer[j] \notin s
    BY <1>1, <1>4 DEF FirstIn
  <2>2. CASE i = n + 1
    BY <1>1, <1>4, <2>1, <2>2 DEF FirstIn, ToSet
  <2>3. CASE i # n + 1
    <3>1. i \in 1..n
      BY <1>1, <2>3
    <3>2. seq[i] = x /\ \A j \in 1..n : j < i => seq[j] \notin s
      BY <1>1, <2>1, <3>1
    <3> QED BY <1>1, <1>4, <3>1, <3>2 DEF FirstIn
  <2> QED BY <2>2, <2>3
<1> QED BY <1>2, <1>3, <1>4 DEF longer

(* The first of a sequence is its head or, if that is not in s, of its     *)
(* tail.                                                                   *)
LEMMA FirstOfTail ==
  ASSUME NEW P, NEW seq \in Seq(P), seq # <<>>, NEW s \in SUBSET P, NEW x \in P
  PROVE  FirstIn(seq, s, x)
           <=> IF Head(seq) \in s THEN x = Head(seq) ELSE FirstIn(Tail(seq), s, x)
<1> DEFINE rest == Tail(seq)
           n == Len(rest)
<1>1. /\ DOMAIN seq = 1..(n + 1) /\ DOMAIN rest = 1..n /\ n \in Nat
      /\ Head(seq) = seq[1] /\ \A i \in 1..n : rest[i] = seq[i + 1]
  OBVIOUS
<1> HIDE DEF rest, n
<1>2. CASE seq[1] \in s
  <2>1. 1 \in 1..(n + 1) /\ \A j \in 1..(n + 1) : ~(j < 1)
    BY <1>1
  <2>2. \A i \in 1..(n + 1) : (\A j \in 1..(n + 1) : j < i => seq[j] \notin s) => i = 1
    BY <1>1, <1>2, <2>1
  <2> QED BY <1>1, <1>2, <2>1, <2>2 DEF FirstIn
<1>3. CASE seq[1] \notin s
  <2>1. ASSUME FirstIn(rest, s, x) PROVE FirstIn(seq, s, x)
    <3>1. PICK i \in 1..n : rest[i] = x /\ \A j \in 1..n : j < i => rest[j] \notin s
      BY <1>1, <2>1 DEF FirstIn
    <3>2. ASSUME NEW j \in 1..(n + 1), j < i + 1 PROVE seq[j] \notin s
      <4>1. CASE j = 1
        BY <1>3, <4>1
      <4>2. CASE j # 1
        <5>1. j - 1 \in 1..n /\ j - 1 < i /\ (j - 1) + 1 = j
          BY <1>1, <3>1, <3>2, <4>2
        <5> QED BY <1>1, <3>1, <5>1
      <4> QED BY <4>1, <4>2
    <3>3. i + 1 \in 1..(n + 1) /\ seq[i + 1] = x
      BY <1>1, <3>1
    <3> QED BY <1>1, <2>1, <3>2, <3>3 DEF FirstIn
  <2>2. ASSUME FirstIn(seq, s, x) PROVE FirstIn(rest, s, x)
    <3>1. PICK i \in 1..(n + 1) : seq[i] = x /\ \A j \in 1..(n + 1) : j < i => seq[j] \notin s
      BY <1>1, <2>2 DEF FirstIn
    <3>2. i # 1 /\ x \in s
      BY <1>3, <2>2, <3>1 DEF FirstIn
    <3>3. i - 1 \in 1..n /\ (i - 1) + 1 = i
      BY <1>1, <3>1, <3>2
    <3>4. \A j \in 1..n : j < i - 1 => j + 1 \in 1..(n + 1) /\ j + 1 < i
      BY <1>1, <3>1
    <3>5. \A j \in 1..n : j < i - 1 => rest[j] \notin s
      BY <1>1, <3>1, <3>4
    <3> QED BY <1>1, <3>1, <3>2, <3>3, <3>5 DEF FirstIn
  <2> QED BY <1>1, <1>3, <2>1, <2>2 DEF rest
<1> QED BY <1>1, <1>2, <1>3

(* Leaving out what occurred before does not change who is first. *)
LEMMA DistinctKeepsFirst ==
  ASSUME NEW P, NEW seq \in Seq(P)
  PROVE  /\ Walk!Distinct(seq) \in Seq(P)
         /\ \A s \in SUBSET P, x \in P :
              FirstIn(Walk!Distinct(seq), s, x) <=> FirstIn(seq, s, x)
<1> DEFINE n == Len(seq)
           First(k, s, x) ==
             x \in s /\ \E i \in 1..k : seq[i] = x /\ \A j \in 1..k : j < i => seq[j] \notin s
<1>1. n \in Nat /\ seq \in [1..n -> P] /\ DOMAIN seq = 1..n
  OBVIOUS
<1> HIDE DEF n
<1>2. PICK p \in [0..n -> Seq(P)] :
        /\ p[0] = <<>> /\ \A k \in 1..n : p[k] = Keep(p[k - 1], seq[k])
        /\ Walk!Distinct(seq) = p[n]
  <2>1. \A m \in Nat : \A list \in [1..m -> P] :
          \E q \in [0..m -> Seq(P)] :
            /\ q[0] = <<>> /\ \A k \in 1..m : q[k] = Keep(q[k - 1], list[k])
            /\ Walk!Distinct(list) = q[m]
    BY DistinctGrows
  <2> QED BY <1>1, <2>1
<1> DEFINE Same(k) ==
             /\ \A y : y \in ToSet(p[k]) <=> \E i \in 1..k : seq[i] = y
             /\ \A s \in SUBSET P, x \in P : FirstIn(p[k], s, x) <=> First(k, s, x)
           T == {k \in Nat : k <= n => Same(k)}
<1>3. Same(0)
  BY <1>2 DEF ToSet, FirstIn
<1>4. ASSUME NEW k \in Nat, k + 1 <= n, Same(k) PROVE Same(k + 1)
  <2> DEFINE r == seq[k + 1]
  <2>1. k + 1 \in 1..n /\ k \in 0..n /\ (k + 1) - 1 = k /\ r \in P /\ p[k] \in Seq(P)
    BY <1>1, <1>2, <1>4
  <2>2. p[k + 1] = Keep(p[k], r)
    BY <1>2, <2>1
  <2>3. \A i : i \in 1..(k + 1) <=> i \in 1..k \/ i = k + 1
    BY <2>1
  <2>4. ASSUME NEW s \in SUBSET P, NEW x \in P
        PROVE  First(k + 1, s, x)
                 <=> First(k, s, x) \/ (r = x /\ x \in s /\ \A i \in 1..k : seq[i] \notin s)
    <3>1. ASSUME First(k, s, x) PROVE First(k + 1, s, x)
      <4>1. PICK i \in 1..k : seq[i] = x /\ \A j \in 1..k : j < i => seq[j] \notin s
        BY <3>1
      <4>2. \A j \in 1..(k + 1) : j < i => j \in 1..k
        BY <4>1
      <4> QED BY <2>3, <3>1, <4>1, <4>2
    <3>2. ASSUME r = x, x \in s, \A i \in 1..k : seq[i] \notin s PROVE First(k + 1, s, x)
      <4>1. \A j \in 1..(k + 1) : j < k + 1 => j \in 1..k
        BY <2>1
      <4> QED BY <2>3, <3>2, <4>1
    <3>3. ASSUME First(k + 1, s, x)
          PROVE  First(k, s, x) \/ (r = x /\ x \in s /\ \A i \in 1..k : seq[i] \notin s)
      <4>1. PICK i \in 1..(k + 1) : seq[i] = x /\ \A j \in 1..(k + 1) : j < i => seq[j] \notin s
        BY <3>3
      <4>2. CASE i = k + 1
        <5>1. \A j \in 1..k : j \in 1..(k + 1) /\ j < k + 1
          BY <2>1
        <5> QED BY <3>3, <4>1, <4>2, <5>1
      <4>3. CASE i \in 1..k
        BY <2>3, <3>3, <4>1, <4>3
      <4> QED BY <2>3, <4>1, <4>2, <4>3
    <3> QED BY <3>1, <3>2, <3>3
  <2>5. CASE r \in ToSet(p[k])
    <3>1. p[k + 1] = p[k]
      BY <2>2, <2>5 DEF Keep
    <3>2. \E i \in 1..k : seq[i] = r
      BY <1>4, <2>5
    <3>3. \A y : y \in ToSet(p[k + 1]) <=> \E i \in 1..(k + 1) : seq[i] = y
      BY <1>4, <2>3, <3>1, <3>2
    <3>4. \A s \in SUBSET P, x \in P : FirstIn(p[k + 1], s, x) <=> First(k + 1, s, x)
      <4> TAKE s \in SUBSET P, x \in P
      <4>1. ~(r = x /\ x \in s /\ \A i \in 1..k : seq[i] \notin s)
        BY <3>2
      <4>2. FirstIn(p[k], s, x) <=> First(k, s, x)
        BY <1>4
      <4> HIDE DEF First
      <4> QED BY <2>4, <3>1, <4>1, <4>2
    <3> QED BY <3>3, <3>4
  <2>6. CASE r \notin ToSet(p[k])
    <3>1. p[k + 1] = Append(p[k], r)
      BY <2>2, <2>6 DEF Keep
    <3>2. \A y : y \in ToSet(p[k + 1]) <=> y \in ToSet(p[k]) \/ y = r
      <4> DEFINE v == p[k]
      <4>1. v \in Seq(P) /\ r \in P
        BY <2>1
      <4> HIDE DEF v, r
      <4>2. \A y : y \in ToSet(Append(v, r)) <=> y \in ToSet(v) \/ y = r
        <5>1. /\ DOMAIN Append(v, r) = 1..(Len(v) + 1) /\ DOMAIN v = 1..Len(v) /\ Len(v) \in Nat
              /\ Append(v, r)[Len(v) + 1] = r /\ \A i \in 1..Len(v) : Append(v, r)[i] = v[i]
          BY <4>1
        <5>2. \A i : i \in 1..(Len(v) + 1) <=> i \in 1..Len(v) \/ i = Len(v) + 1
          BY <5>1
        <5> QED BY <5>1, <5>2 DEF ToSet
      <4> QED BY <3>1, <4>2 DEF v
    <3>3. \A y : y \in ToSet(p[k + 1]) <=> \E i \in 1..(k + 1) : seq[i] = y
      BY <1>4, <2>3, <3>2
    <3>4. ASSUME NEW s \in SUBSET P, NEW x \in P
          PROVE  FirstIn(p[k + 1], s, x) <=> First(k + 1, s, x)
      <4>1. FirstIn(p[k + 1], s, x)
              <=> FirstIn(p[k], s, x) \/ (r = x /\ x \in s /\ \A y \in ToSet(p[k]) : y \notin s)
        <5> DEFINE v == p[k]
        <5>1. v \in Seq(P) /\ r \in P
          BY <2>1
        <5> HIDE DEF v, r
        <5>2. FirstIn(Append(v, r), s, x)
                <=> FirstIn(v, s, x) \/ (r = x /\ x \in s /\ \A y \in ToSet(v) : y \notin s)
          BY <5>1, FirstOfAppend
        <5> QED BY <3>1, <5>2 DEF v
      <4>2. (\A y \in ToSet(p[k]) : y \notin s) <=> \A i \in 1..k : seq[i] \notin s
        BY <1>4
      <4>3. FirstIn(p[k], s, x) <=> First(k, s, x)
        BY <1>4
      <4> HIDE DEF First
      <4> QED BY <2>4, <4>1, <4>2, <4>3
    <3> QED BY <3>3, <3>4
  <2> QED BY <2>5, <2>6
<1>5. T = Nat
  <2> HIDE DEF Same
  <2>1. 0 \in T /\ T \subseteq Nat
    BY <1>3
  <2>2. \A k \in T : k + 1 \in T
    BY <1>1, <1>4
  <2> HIDE DEF T
  <2> QED BY <2>1, <2>2, Induction
<1>6. Same(n)
  <2> HIDE DEF Same
  <2> QED BY <1>1, <1>5
<1>7. \A s \in SUBSET P, x \in P : FirstIn(seq, s, x) <=> First(n, s, x)
  BY <1>1 DEF FirstIn
<1>8. p[n] \in Seq(P)
  BY <1>1, <1>2
<1> HIDE DEF First
<1> QED BY <1>2, <1>6, <1>7, <1>8

(* The image of a finite set is finite. *)
LEMMA ImageIsFinite ==
  ASSUME NEW S, IsFiniteSet(S), NEW f, DOMAIN f = S
  PROVE  IsFiniteSet({f[x] : x \in S})
<1> DEFINE T == {f[x] : x \in S}
           g == [x \in S |-> f[x]]
<1>1. g \in [S -> T] /\ \A y \in T : \E x \in S : g[x] = y
  OBVIOUS
<1>2. g \in Surjection(S, T)
  <2> HIDE DEF g, T
  <2> QED BY <1>1 DEF Surjection
<1> HIDE DEF g, T
<1>3. IsFiniteSet(T)
  BY <1>2, FS_Surjection
<1> QED BY <1>3 DEF T

(* A relation that orders a set strictly and totally. *)
Orders(R, F) ==
  /\ \A a \in F : <<a, a>> \notin R
  /\ \A a, b, c \in F : <<a, b>> \in R /\ <<b, c>> \in R => <<a, c>> \in R
  /\ \A a, b \in F : a # b => <<a, b>> \in R \/ <<b, a>> \in R

(* A list that has, at each place, an element with as many before it. *)
ByRank(list, R, F) ==
  /\ DOMAIN list = 1..Cardinality(F)
  /\ \A i \in DOMAIN list :
       (\E a \in F : Cardinality({b \in F : <<b, a>> \in R}) = i - 1)
         => list[i] \in F /\ Cardinality({b \in F : <<b, list[i]>> \in R}) = i - 1

(* Placing each element by the number of those before it lists all of them *)
(* once and in order, for any strict total order of a finite set.          *)
LEMMA RanksList ==
  ASSUME NEW F, IsFiniteSet(F), NEW R, Orders(R, F), NEW list, ByRank(list, R, F)
  PROVE  /\ {list[i] : i \in DOMAIN list} = F
         /\ \A i, j \in DOMAIN list : list[i] = list[j] => i = j
         /\ \A i, j \in DOMAIN list : i < j => <<list[i], list[j]>> \in R
<1> DEFINE n == Cardinality(F)
           B(a) == {b \in F : <<b, a>> \in R}
           rank == [a \in F |-> Cardinality(B(a))]
<1>0. /\ \A a \in F : <<a, a>> \notin R
      /\ \A a, b, c \in F : <<a, b>> \in R /\ <<b, c>> \in R => <<a, c>> \in R
      /\ \A a, b \in F : a # b => <<a, b>> \in R \/ <<b, a>> \in R
  BY DEF Orders
<1>1. n \in Nat
  BY FS_CardinalityType
<1>2. \A a \in F : /\ IsFiniteSet(B(a)) /\ Cardinality(B(a)) \in Nat
                   /\ Cardinality(B(a)) <= n /\ Cardinality(B(a)) # n
  <2> TAKE a \in F
  <2>1. B(a) \in SUBSET F /\ B(a) # F
    BY <1>0
  <2> HIDE DEF B
  <2> QED BY <2>1, FS_Subset, FS_CardinalityType
<1>3. \A a, b \in F : <<a, b>> \in R => /\ Cardinality(B(a)) # Cardinality(B(b))
                                      /\ Cardinality(B(a)) <= Cardinality(B(b))
  <2> SUFFICES ASSUME NEW a \in F, NEW b \in F, <<a, b>> \in R
               PROVE  /\ Cardinality(B(a)) # Cardinality(B(b))
                      /\ Cardinality(B(a)) <= Cardinality(B(b))
    OBVIOUS
  <2>1. B(a) \in SUBSET B(b) /\ a \in B(b) /\ a \notin B(a)
    BY <1>0
  <2>2. IsFiniteSet(B(b))
    BY <1>2
  <2> HIDE DEF B
  <2> QED BY <2>1, <2>2, FS_Subset
<1>4. rank \in Injection(F, 0..(n - 1))
  <2>1. rank \in [F -> 0..(n - 1)]
    <3>1. \A a \in F : Cardinality(B(a)) \in 0..(n - 1)
      <4> HIDE DEF B, n
      <4> QED BY <1>1, <1>2
    <3> QED BY <3>1
  <2>2. ASSUME NEW a \in F, NEW b \in F, rank[a] = rank[b] PROVE a = b
    <3>1. Cardinality(B(a)) = Cardinality(B(b))
      BY <2>2
    <3> HIDE DEF B
    <3> QED BY <1>0, <1>3, <3>1
  <2> HIDE DEF rank
  <2> QED BY <2>1, <2>2 DEF Injection, IsInjective
<1>5. rank \in Surjection(F, 0..(n - 1))
  <2>1. IsFiniteSet(0..(n - 1)) /\ Cardinality(0..(n - 1)) = n
    <3> HIDE DEF n
    <3>1. 0 \in Int /\ n - 1 \in Int
      BY <1>1
    <3>2. /\ IsFiniteSet(0..(n - 1))
          /\ Cardinality(0..(n - 1)) = IF 0 > n - 1 THEN 0 ELSE n - 1 - 0 + 1
      BY <3>1, FS_Interval
    <3> QED BY <1>1, <3>2
  <2> HIDE DEF rank
  <2> QED BY <1>4, <2>1, FS_Injection
<1>6. \A i \in 1..n : \E a \in F : Cardinality(B(a)) = i - 1
  <2> SUFFICES ASSUME NEW i \in 1..n PROVE \E a \in F : Cardinality(B(a)) = i - 1
    OBVIOUS
  <2>1. i - 1 \in 0..(n - 1)
    <3> HIDE DEF n
    <3> QED BY <1>1
  <2>2. \A y \in 0..(n - 1) : \E a \in F : rank[a] = y
    BY <1>5 DEF Surjection
  <2>3. PICK a \in F : rank[a] = i - 1
    BY <2>1, <2>2
  <2> QED BY <2>3
<1>7. DOMAIN list = 1..n /\ \A i \in 1..n : list[i] \in F /\ Cardinality(B(list[i])) = i - 1
  <2>1. /\ DOMAIN list = 1..n
        /\ \A i \in 1..n : (\E a \in F : Cardinality(B(a)) = i - 1)
                            => list[i] \in F /\ Cardinality(B(list[i])) = i - 1
    BY DEF ByRank
  <2> HIDE DEF B, n
  <2> QED BY <1>6, <2>1
<1>8. \A i, j \in 1..n : list[i] = list[j] => i = j
  <2> SUFFICES ASSUME NEW i \in 1..n, NEW j \in 1..n, list[i] = list[j] PROVE i = j
    OBVIOUS
  <2>1. Cardinality(B(list[i])) = i - 1 /\ Cardinality(B(list[j])) = j - 1
    <3> HIDE DEF B, n
    <3> QED BY <1>7
  <2>2. i - 1 = j - 1
    <3> HIDE DEF B
    <3> QED BY <2>1
  <2> HIDE DEF B, n
  <2> QED BY <1>1, <2>2
<1>9. ASSUME NEW a \in F PROVE \E i \in 1..n : list[i] = a
  <2> DEFINE i == Cardinality(B(a)) + 1
  <2>1. i \in 1..n /\ i - 1 = Cardinality(B(a))
    <3> HIDE DEF B, n
    <3>1. /\ Cardinality(B(a)) \in Nat /\ Cardinality(B(a)) <= n /\ Cardinality(B(a)) # n
      BY <1>2
    <3> QED BY <1>1, <3>1
  <2>2. rank[list[i]] = rank[a] /\ list[i] \in F
    BY <1>7, <2>1
  <2>3. \A x, y \in F : rank[x] = rank[y] => x = y
    BY <1>4 DEF Injection, IsInjective
  <2>4. list[i] = a
    <3> HIDE DEF rank
    <3> QED BY <2>2, <2>3
  <2> QED BY <2>1, <2>4
<1>10. ASSUME NEW i \in 1..n, NEW j \in 1..n, i < j PROVE <<list[i], list[j]>> \in R
  <2> DEFINE a == list[i]
             b == list[j]
  <2>1. a \in F /\ b \in F /\ Cardinality(B(a)) = i - 1 /\ Cardinality(B(b)) = j - 1
    <3> HIDE DEF B, n
    <3> QED BY <1>7
  <2>2. a # b
    BY <1>8, <1>10, <1>1
  <2> HIDE DEF a, b
  <2>3. <<b, a>> \notin R
    <3> SUFFICES ASSUME <<b, a>> \in R PROVE FALSE
      OBVIOUS
    <3>1. Cardinality(B(b)) <= Cardinality(B(a))
      BY <1>3, <2>1
    <3> HIDE DEF B
    <3>2. j - 1 <= i - 1
      BY <2>1, <3>1
    <3> HIDE DEF n
    <3> QED BY <1>1, <1>10, <3>2
  <2>4. <<a, b>> \in R
    BY <1>0, <2>1, <2>2, <2>3
  <2> QED BY <2>4 DEF a, b
<1>11. \A i \in 1..n : list[i] \in F
  <2> HIDE DEF B, n
  <2> QED BY <1>7
<1>12. DOMAIN list = 1..n
  BY <1>7
<1> HIDE DEF n
<1>13. {list[i] : i \in DOMAIN list} = F
  <2>1. \A a \in F : \E i \in DOMAIN list : list[i] = a
    BY <1>9, <1>12
  <2>2. \A i \in DOMAIN list : list[i] \in F
    BY <1>11, <1>12
  <2>3. \A a \in F : a \in {list[i] : i \in DOMAIN list}
    BY <2>1
  <2>4. ASSUME NEW a \in {list[i] : i \in DOMAIN list} PROVE a \in F
    <3>1. PICK i \in DOMAIN list : a = list[i]
      BY <2>4
    <3> QED BY <2>2, <3>1
  <2> QED BY <2>3, <2>4
<1>14. \A i, j \in DOMAIN list : list[i] = list[j] => i = j
  BY <1>8, <1>12
<1>15. \A i, j \in DOMAIN list : i < j => <<list[i], list[j]>> \in R
  BY <1>10, <1>12
<1> QED BY <1>13, <1>14, <1>15

Types == {"wayland", "x11"}
SearchPaths == [dir : Directories, type : Types]
Here(dir, type) == [dir |-> dir, type |-> type]

(* Where a file of an id is, for one type. *)
Holders(type, id) == {path \in SearchPaths : path.type = type /\ Walk!Has(path.dir, id)}

(* The part of the view that is about the ids met so far. *)
ViewOf(met) ==
  {Walk!Session(v[1], v[2], v[3]) :
     v \in {w \in Directories \X Ids \X Types :
              /\ <<w[3], w[2]>> \in met
              /\ Walk!Decides(w[3], w[1], w[2])
              /\ Walk!Loaded(w[1], w[2]) = "shown"}}

Given ==
  /\ sessions \in Seq(Directories) /\ xsessions \in Seq(Directories)
  /\ \E case \in Cases : disk = case.disk

(* Who decides about an id that was not met is found on the paths that are *)
(* left; what was met is in the list as the view has it.                   *)
Walked ==
  /\ paths \in Seq(SearchPaths)
  /\ files = ViewOf(seen)
  /\ \A type \in Types, id \in Ids, dir \in Directories :
       <<type, id>> \notin seen =>
         (Walk!Decides(type, dir, id) <=> FirstIn(paths, Holders(type, id), Here(dir, type)))

WalkInv ==
  /\ Given
  /\ phase = "paths" => seen = {} /\ files = {}
  /\ phase = "walk" => Walked
  /\ phase = "listed" => Walk!ListingIsTheView

(* The search order of one type *)
LEMMA SearchIs ==
  ASSUME Given
  PROVE  /\ Walk!Search("wayland") \in Seq(Directories)
         /\ Walk!Search("x11") \in Seq(Directories)
         /\ Walk!OfType(sessions, WaylandDefaults, "wayland")
              = [i \in DOMAIN Walk!Search("wayland") |-> Here(Walk!Search("wayland")[i], "wayland")]
         /\ Walk!OfType(xsessions, X11Defaults, "x11")
              = [i \in DOMAIN Walk!Search("x11") |-> Here(Walk!Search("x11")[i], "x11")]
BY DiscoveryAssumption DEF Given, Walk!Search, Walk!OfType, Walk!Typed, Here

(* The directory that decides is the first of the whole search order that  *)
(* holds the id.                                                           *)
LEMMA DecidesIsFirst ==
  ASSUME Given
  PROVE  LET order == Walk!OfType(sessions, WaylandDefaults, "wayland")
                        \o Walk!OfType(xsessions, X11Defaults, "x11")
         IN  /\ order \in Seq(SearchPaths)
             /\ \A type \in Types, id \in Ids, dir \in Directories :
                  Walk!Decides(type, dir, id)
                    <=> FirstIn(order, Holders(type, id), Here(dir, type))
<1> DEFINE w == Walk!Search("wayland")
           x == Walk!Search("x11")
           first == [i \in DOMAIN w |-> Here(w[i], "wayland")]
           second == [i \in DOMAIN x |-> Here(x[i], "x11")]
           order == first \o second
           a == Len(w)
           b == Len(x)
<1>1. w \in Seq(Directories) /\ x \in Seq(Directories)
  BY SearchIs
<1>2. /\ Walk!OfType(sessions, WaylandDefaults, "wayland") = first
      /\ Walk!OfType(xsessions, X11Defaults, "x11") = second
  BY SearchIs
<1>3. \A type \in Types, id \in Ids, dir \in Directories :
        Walk!Decides(type, dir, id)
          <=> \E i \in DOMAIN Walk!Search(type) :
                /\ Walk!Search(type)[i] = dir /\ Walk!Has(dir, id)
                /\ \A j \in 1..(i - 1) : ~Walk!Has(Walk!Search(type)[j], id)
  BY DEF Walk!Decides
<1> HIDE DEF w, x
<1>4. /\ a \in Nat /\ b \in Nat /\ DOMAIN w = 1..a /\ DOMAIN x = 1..b
      /\ \A i \in 1..a : w[i] \in Directories
      /\ \A i \in 1..b : x[i] \in Directories
  BY <1>1
<1>5. \A dir \in Directories, type \in Types : Here(dir, type) \in SearchPaths
  BY DEF Here, SearchPaths
<1>6. /\ first \in Seq(SearchPaths) /\ Len(first) = a
      /\ \A i \in 1..a : first[i] = Here(w[i], "wayland")
  <2>1. /\ first \in [1..a -> SearchPaths]
        /\ \A i \in 1..a : first[i] = Here(w[i], "wayland")
    BY <1>4, <1>5 DEF Types
  <2> HIDE DEF first, a
  <2> QED BY <1>4, <2>1
<1>7. /\ second \in Seq(SearchPaths) /\ Len(second) = b
      /\ \A i \in 1..b : second[i] = Here(x[i], "x11")
  <2>1. /\ second \in [1..b -> SearchPaths]
        /\ \A i \in 1..b : second[i] = Here(x[i], "x11")
    BY <1>4, <1>5 DEF Types
  <2> HIDE DEF second, b
  <2> QED BY <1>4, <2>1
<1> HIDE DEF first, second, a, b
<1>8. /\ order \in Seq(SearchPaths) /\ DOMAIN order = 1..(a + b)
      /\ \A i \in 1..a : order[i] = Here(w[i], "wayland")
      /\ \A i \in 1..b : order[a + i] = Here(x[i], "x11")
  <2>1. /\ order \in Seq(SearchPaths) /\ Len(order) = a + b
        /\ \A i \in 1..a : order[i] = first[i]
        /\ \A i \in 1..b : order[a + i] = second[i]
    BY <1>4, <1>6, <1>7
  <2> QED BY <1>4, <1>6, <1>7, <2>1
<1> HIDE DEF order
<1>9. \A type \in Types, id \in Ids, dir \in Directories, other \in Types :
        Here(dir, other) \in Holders(type, id) <=> other = type /\ Walk!Has(dir, id)
  BY <1>5 DEF Holders, Here
<1>same. \A d1, d2, t1, t2 : Here(d1, t1) = Here(d2, t2) <=> d1 = d2 /\ t1 = t2
  BY DEF Here
<1>10. ASSUME NEW id \in Ids, NEW dir \in Directories
       PROVE  Walk!Decides("wayland", dir, id)
                <=> FirstIn(order, Holders("wayland", id), Here(dir, "wayland"))
  <2> DEFINE s == Holders("wayland", id)
             H(d) == Walk!Has(d, id)
  <2>0. "wayland" \in Types /\ "x11" \in Types /\ "wayland" # "x11"
    BY DEF Types
  <2>1. Walk!Decides("wayland", dir, id)
          <=> \E i \in 1..a : w[i] = dir /\ H(dir) /\ \A j \in 1..(i - 1) : ~H(w[j])
    BY <1>3, <1>4, <2>0 DEF w
  <2>2. \A i \in 1..a : order[i] \in s <=> H(w[i])
    BY <1>4, <1>8, <1>9, <2>0
  <2>3. Here(dir, "wayland") \in s <=> H(dir)
    BY <1>9, <2>0
  <2>4. \A i \in 1..a : order[i] = Here(dir, "wayland") <=> w[i] = dir
    BY <1>4, <1>8, <1>same, <2>0
  <2>5. \A i \in 1..b : order[a + i] # Here(dir, "wayland")
    BY <1>4, <1>8, <1>same, <2>0
  <2> HIDE DEF s, H
  <2>6. ASSUME NEW i \in 1..a, w[i] = dir, H(dir), \A j \in 1..(i - 1) : ~H(w[j])
        PROVE  FirstIn(order, s, Here(dir, "wayland"))
    <3>1. \A j \in 1..(a + b) : j < i => j \in 1..a /\ j \in 1..(i - 1)
      BY <1>4
    <3>2. i \in 1..(a + b)
      BY <1>4
    <3>3. \A j \in 1..(a + b) : j < i => order[j] \notin s
      BY <2>2, <2>6, <3>1
    <3>4. order[i] = Here(dir, "wayland") /\ Here(dir, "wayland") \in s
      BY <2>3, <2>4, <2>6
    <3> QED BY <1>8, <3>2, <3>3, <3>4 DEF FirstIn
  <2>7. ASSUME FirstIn(order, s, Here(dir, "wayland"))
        PROVE  \E i \in 1..a : w[i] = dir /\ H(dir) /\ \A j \in 1..(i - 1) : ~H(w[j])
    <3>1. PICK i \in 1..(a + b) : /\ order[i] = Here(dir, "wayland")
                                  /\ \A j \in 1..(a + b) : j < i => order[j] \notin s
      BY <1>8, <2>7 DEF FirstIn
    <3>2. i \in 1..a
      <4> SUFFICES ASSUME i \notin 1..a PROVE FALSE
        OBVIOUS
      <4>1. i - a \in 1..b /\ a + (i - a) = i
        BY <1>4
      <4> QED BY <2>5, <3>1, <4>1
    <3>3. \A j \in 1..(i - 1) : j \in 1..a /\ j \in 1..(a + b) /\ j < i
      BY <1>4, <3>2
    <3>4. \A j \in 1..(i - 1) : ~H(w[j])
      BY <2>2, <3>1, <3>3
    <3>5. w[i] = dir /\ H(dir)
      BY <2>3, <2>4, <2>7, <3>1, <3>2 DEF FirstIn
    <3> QED BY <3>2, <3>4, <3>5
  <2> QED BY <2>1, <2>6, <2>7 DEF s
<1>11. ASSUME NEW id \in Ids, NEW dir \in Directories
       PROVE  Walk!Decides("x11", dir, id)
                <=> FirstIn(order, Holders("x11", id), Here(dir, "x11"))
  <2> DEFINE s == Holders("x11", id)
             H(d) == Walk!Has(d, id)
  <2>0. "wayland" \in Types /\ "x11" \in Types /\ "wayland" # "x11"
    BY DEF Types
  <2>1. Walk!Decides("x11", dir, id)
          <=> \E i \in 1..b : x[i] = dir /\ H(dir) /\ \A j \in 1..(i - 1) : ~H(x[j])
    BY <1>3, <1>4, <2>0 DEF x
  <2>2. \A i \in 1..b : order[a + i] \in s <=> H(x[i])
    BY <1>4, <1>8, <1>9, <2>0
  <2>3. Here(dir, "x11") \in s <=> H(dir)
    BY <1>9, <2>0
  <2>4. \A i \in 1..b : order[a + i] = Here(dir, "x11") <=> x[i] = dir
    BY <1>4, <1>8, <1>same, <2>0
  <2>5. \A i \in 1..a : order[i] # Here(dir, "x11") /\ order[i] \notin s
    BY <1>4, <1>8, <1>9, <1>same, <2>0
  <2> HIDE DEF s, H
  <2>6. ASSUME NEW i \in 1..b, x[i] = dir, H(dir), \A j \in 1..(i - 1) : ~H(x[j])
        PROVE  FirstIn(order, s, Here(dir, "x11"))
    <3>1. ASSUME NEW j \in 1..(a + b), j < a + i PROVE order[j] \notin s
      <4>1. CASE j \in 1..a
        BY <2>5, <4>1
      <4>2. CASE j \notin 1..a
        <5>1. j - a \in 1..b /\ j - a \in 1..(i - 1) /\ a + (j - a) = j
          BY <1>4, <3>1, <4>2
        <5> QED BY <2>2, <2>6, <5>1
      <4> QED BY <4>1, <4>2
    <3>2. a + i \in 1..(a + b)
      BY <1>4
    <3>3. order[a + i] = Here(dir, "x11") /\ Here(dir, "x11") \in s
      BY <2>3, <2>4, <2>6
    <3> QED BY <1>8, <3>1, <3>2, <3>3 DEF FirstIn
  <2>7. ASSUME FirstIn(order, s, Here(dir, "x11"))
        PROVE  \E i \in 1..b : x[i] = dir /\ H(dir) /\ \A j \in 1..(i - 1) : ~H(x[j])
    <3>1. PICK k \in 1..(a + b) : /\ order[k] = Here(dir, "x11")
                                  /\ \A j \in 1..(a + b) : j < k => order[j] \notin s
      BY <1>8, <2>7 DEF FirstIn
    <3> DEFINE i == k - a
    <3>2. i \in 1..b /\ a + i = k
      <4>1. k \notin 1..a
        BY <2>5, <3>1
      <4> QED BY <1>4, <4>1
    <3> HIDE DEF i
    <3>3. \A j \in 1..(i - 1) : j \in 1..b /\ a + j \in 1..(a + b) /\ a + j < k
      BY <1>4, <3>2
    <3>4. \A j \in 1..(i - 1) : ~H(x[j])
      BY <2>2, <3>1, <3>3
    <3>5. x[i] = dir /\ H(dir)
      BY <2>3, <2>4, <2>7, <3>1, <3>2 DEF FirstIn
    <3> QED BY <3>2, <3>4, <3>5
  <2> QED BY <2>1, <2>6, <2>7 DEF s
<1> QED BY <1>2, <1>8, <1>10, <1>11 DEF order, Types

(* What is found does not change, so the view does not either. *)
LEMMA SameView ==
  ASSUME UNCHANGED Walk!found
  PROVE  /\ Given => Given'
         /\ \A type, id : Holders(type, id)' = Holders(type, id)
         /\ \A type, dir, id : Walk!Decides(type, dir, id)' <=> Walk!Decides(type, dir, id)
         /\ \A dir, id : Walk!Loaded(dir, id)' = Walk!Loaded(dir, id)
         /\ \A dir, id, type : Walk!Session(dir, id, type)' = Walk!Session(dir, id, type)
<1>1. sessions' = sessions /\ xsessions' = xsessions /\ disk' = disk
  BY DEF Walk!found
<1>2. Given => Given'
  BY <1>1 DEF Given
<1>3. \A type, id : Holders(type, id)' = Holders(type, id)
  BY <1>1 DEF Holders, Walk!Has
<1>4. \A type, dir, id : Walk!Decides(type, dir, id)' <=> Walk!Decides(type, dir, id)
  BY <1>1 DEF Walk!Decides, Walk!Search, Walk!Has
<1>5. \A dir, id : Walk!Loaded(dir, id)' = Walk!Loaded(dir, id)
  BY <1>1 DEF Walk!Loaded
<1>6. \A dir, id, type : Walk!Session(dir, id, type)' = Walk!Session(dir, id, type)
  BY <1>1 DEF Walk!Session
<1> QED BY <1>2, <1>3, <1>4, <1>5, <1>6

(* The walk starts with all paths and nothing met. *)
LEMMA PathsWalked == Given /\ seen = {} /\ files = {} /\ Walk!EffectivePaths => Walked'
<1> SUFFICES ASSUME Given, seen = {}, files = {}, Walk!EffectivePaths PROVE Walked'
  OBVIOUS
<1> DEFINE order == Walk!OfType(sessions, WaylandDefaults, "wayland")
                      \o Walk!OfType(xsessions, X11Defaults, "x11")
<1>1. UNCHANGED Walk!found /\ paths' = Walk!Distinct(order) /\ seen' = {} /\ files' = {}
  BY DEF Walk!EffectivePaths, Walk!found
<1>2. /\ order \in Seq(SearchPaths)
      /\ \A type \in Types, id \in Ids, dir \in Directories :
           Walk!Decides(type, dir, id) <=> FirstIn(order, Holders(type, id), Here(dir, type))
  BY DecidesIsFirst
<1> HIDE DEF order
<1>3. /\ paths' \in Seq(SearchPaths)
      /\ \A s \in SUBSET SearchPaths, x \in SearchPaths :
           FirstIn(paths', s, x) <=> FirstIn(order, s, x)
  BY <1>1, <1>2, DistinctKeepsFirst
<1>4. \A type \in Types, id \in Ids, dir \in Directories :
        Holders(type, id) \in SUBSET SearchPaths /\ Here(dir, type) \in SearchPaths
  BY DEF Holders, Here, SearchPaths
<1>5. ASSUME NEW type \in Types, NEW id \in Ids, NEW dir \in Directories
      PROVE  (Walk!Decides(type, dir, id)
                <=> FirstIn(paths, Holders(type, id), Here(dir, type)))'
  <2>1. Walk!Decides(type, dir, id) <=> FirstIn(paths', Holders(type, id), Here(dir, type))
    BY <1>2, <1>3, <1>4
  <2>2. /\ Walk!Decides(type, dir, id)' <=> Walk!Decides(type, dir, id)
        /\ Holders(type, id)' = Holders(type, id)
    BY <1>1, SameView
  <2>3. FirstIn(paths, Holders(type, id), Here(dir, type))'
          <=> FirstIn(paths', Holders(type, id), Here(dir, type))
    BY <2>2 DEF FirstIn, Here
  <2> QED BY <2>1, <2>2, <2>3
<1>6. (files = ViewOf(seen))'
  BY <1>1 DEF ViewOf
<1> QED BY <1>3, <1>5, <1>6 DEF Walked

(* The part of the view that is about what has been met grows with it. *)
LEMMA ViewGrows ==
  ASSUME UNCHANGED Walk!found, NEW new \in SUBSET Ids, NEW dir \in Directories, NEW type \in Types,
         seen' = seen \cup {<<type, id>> : id \in new},
         \A id \in new : <<type, id>> \notin seen,
         \A id \in new, d \in Directories : Walk!Decides(type, d, id) <=> d = dir
  PROVE  ViewOf(seen)' = ViewOf(seen) \cup {Walk!Session(dir, id, type) :
                                              id \in {i \in new : Walk!Loaded(dir, i) = "shown"}}
<1> DEFINE S(d, i, t) == Walk!Session(d, i, t)
           D(t, d, i) == Walk!Decides(t, d, i)
           L(d, i) == Walk!Loaded(d, i) = "shown"
           triples == Directories \X Ids \X Types
           before == {w \in triples :
                       <<w[3], w[2]>> \in seen /\ D(w[3], w[1], w[2]) /\ L(w[1], w[2])}
           after == {w \in triples :
                       <<w[3], w[2]>> \in seen' /\ D(w[3], w[1], w[2]) /\ L(w[1], w[2])}
           added == {i \in new : L(dir, i)}
<1>1. ViewOf(seen) = {S(v[1], v[2], v[3]) : v \in before}
  BY DEF ViewOf
<1>2. ViewOf(seen)' = {S(v[1], v[2], v[3]) : v \in after}
  <2>1. /\ \A t, d, i : Walk!Decides(t, d, i)' <=> D(t, d, i)
        /\ \A d, i : (Walk!Loaded(d, i) = "shown")' <=> L(d, i)
        /\ \A d, i, t : Walk!Session(d, i, t)' = S(d, i, t)
    BY SameView
  <2> HIDE DEF S, D, L
  <2> QED BY <2>1 DEF ViewOf
<1> HIDE DEF S, D, L
<1>3. \A v \in triples :
        v = <<v[1], v[2], v[3]>> /\ v[1] \in Directories /\ v[2] \in Ids /\ v[3] \in Types
  OBVIOUS
<1>4. \A t, i : <<t, i>> \in seen' <=> <<t, i>> \in seen \/ (t = type /\ i \in new)
  OBVIOUS
<1>5. ASSUME NEW v \in after PROVE v \in before \/ \E i \in added : v = <<dir, i, type>>
  <2>1. CASE <<v[3], v[2]>> \in seen
    BY <1>5, <2>1
  <2>2. CASE <<v[3], v[2]>> \notin seen
    <3>1. v[3] = type /\ v[2] \in new
      BY <1>4, <1>5, <2>2
    <3>2. v[1] \in Directories /\ D(type, v[1], v[2])
      BY <1>3, <1>5, <3>1
    <3>3. v[1] = dir
      BY <3>1, <3>2 DEF D
    <3> QED BY <1>3, <1>5, <3>1, <3>3
  <2> QED BY <2>1, <2>2
<1>6. \A v \in before : v \in after
  BY <1>4
<1>7. ASSUME NEW i \in added PROVE <<dir, i, type>> \in after
  <2>1. D(type, dir, i)
    BY <1>7 DEF D
  <2> QED BY <1>4, <1>7, <2>1
<1> HIDE DEF before, after, added
<1>8. {S(v[1], v[2], v[3]) : v \in after}
        = {S(v[1], v[2], v[3]) : v \in before} \cup {S(dir, i, type) : i \in added}
  <2>1. ASSUME NEW v \in after
        PROVE  S(v[1], v[2], v[3])
                 \in {S(u[1], u[2], u[3]) : u \in before} \cup {S(dir, i, type) : i \in added}
    <3>1. CASE v \in before
      BY <3>1
    <3>2. CASE v \notin before
      <4>1. PICK i \in added : v = <<dir, i, type>>
        BY <1>5, <3>2
      <4> QED BY <4>1
    <3> QED BY <3>1, <3>2
  <2>2. \A v \in before : S(v[1], v[2], v[3]) \in {S(u[1], u[2], u[3]) : u \in after}
    BY <1>6
  <2>3. ASSUME NEW i \in added PROVE S(dir, i, type) \in {S(u[1], u[2], u[3]) : u \in after}
    <3> DEFINE v == <<dir, i, type>>
    <3>1. v \in after /\ v[1] = dir /\ v[2] = i /\ v[3] = type
      BY <1>7
    <3> HIDE DEF v
    <3> QED BY <3>1
  <2> QED BY <2>1, <2>2, <2>3
<1> QED BY <1>1, <1>2, <1>8 DEF S, L, added

(* A directory that cannot be read decides nothing. *)
LEMMA SkipWalked == Given /\ Walked /\ Walk!SkipDirectory => Walked'
<1> SUFFICES ASSUME Given, Walked, Walk!SkipDirectory PROVE Walked'
  OBVIOUS
<1>1. /\ UNCHANGED Walk!found /\ paths # <<>> /\ disk[Head(paths).dir] = Unreadable
      /\ paths' = Tail(paths) /\ seen' = seen /\ files' = files
  BY DEF Walk!SkipDirectory, Walk!found
<1>2. paths \in Seq(SearchPaths) /\ paths' \in Seq(SearchPaths)
  BY <1>1 DEF Walked
<1>3. ASSUME NEW type \in Types, NEW id \in Ids, NEW dir \in Directories, <<type, id>> \notin seen'
      PROVE  (Walk!Decides(type, dir, id)
                <=> FirstIn(paths, Holders(type, id), Here(dir, type)))'
  <2> DEFINE s == Holders(type, id)
             x == Here(dir, type)
  <2>1. s \in SUBSET SearchPaths /\ x \in SearchPaths
    BY DEF Holders, Here, SearchPaths
  <2>2. Head(paths) \notin s
    BY <1>1 DEF Holders, Walk!Has
  <2>3. Walk!Decides(type, dir, id) <=> FirstIn(paths, s, x)
    BY <1>1, <1>3 DEF Walked
  <2> HIDE DEF s, x
  <2>4. FirstIn(paths, s, x) <=> FirstIn(paths', s, x)
    BY <1>1, <1>2, <2>1, <2>2, FirstOfTail
  <2>5. /\ Walk!Decides(type, dir, id)' <=> Walk!Decides(type, dir, id)
        /\ Holders(type, id)' = Holders(type, id)
    BY <1>1, SameView
  <2>6. FirstIn(paths, Holders(type, id), Here(dir, type))' <=> FirstIn(paths', s, x)
    BY <2>5 DEF FirstIn, Here, s, x
  <2> QED BY <2>3, <2>4, <2>5, <2>6
<1>4. (files = ViewOf(seen))'
  <2>1. files = ViewOf(seen)
    BY DEF Walked
  <2>2. /\ \A t, d, i : Walk!Decides(t, d, i)' <=> Walk!Decides(t, d, i)
        /\ \A d, i : Walk!Loaded(d, i)' = Walk!Loaded(d, i)
        /\ \A d, i, t : Walk!Session(d, i, t)' = Walk!Session(d, i, t)
    BY <1>1, SameView
  <2>3. ViewOf(seen)' = ViewOf(seen)
    BY <1>1, <2>2 DEF ViewOf
  <2> QED BY <1>1, <2>1, <2>3
<1> QED BY <1>2, <1>3, <1>4 DEF Walked

(* A directory that is read decides about what it has and was not met. *)
LEMMA ReadWalked == Given /\ Walked /\ Walk!ReadDirectory => Walked'
<1> SUFFICES ASSUME Given, Walked, Walk!ReadDirectory PROVE Walked'
  OBVIOUS
<1> DEFINE h == Head(paths)
           new == {id \in Ids : disk[h.dir][id] # Absent /\ <<h.type, id>> \notin seen}
<1>1. /\ UNCHANGED Walk!found /\ paths # <<>> /\ disk[h.dir] # Unreadable /\ paths' = Tail(paths)
      /\ seen' = seen \cup {<<h.type, id>> : id \in new}
      /\ files' = files \cup {Walk!Session(h.dir, id, h.type) :
                                id \in {i \in new : Walk!Loaded(h.dir, i) = "shown"}}
  BY DEF Walk!ReadDirectory, Walk!found
<1>2. paths \in Seq(SearchPaths) /\ paths' \in Seq(SearchPaths) /\ h \in SearchPaths
  BY <1>1 DEF Walked
<1>3. h.dir \in Directories /\ h.type \in Types /\ h = Here(h.dir, h.type)
  BY <1>2 DEF SearchPaths, Here
<1>4. \A id \in Ids : <<h.type, id>> \notin seen => (id \in new <=> h \in Holders(h.type, id))
  BY <1>1, <1>2, <1>3 DEF Holders, Walk!Has
<1>5. \A type \in Types, id \in Ids : h \in Holders(type, id) => type = h.type
  BY DEF Holders
<1>6. \A t, i : <<t, i>> \in seen' <=> <<t, i>> \in seen \/ (t = h.type /\ i \in new)
  BY <1>1
<1>7. new \in SUBSET Ids /\ \A id \in new : <<h.type, id>> \notin seen
  OBVIOUS
<1> HIDE DEF h, new
<1>8. ASSUME NEW type \in Types, NEW id \in Ids, NEW dir \in Directories, <<type, id>> \notin seen
      PROVE  Walk!Decides(type, dir, id)
               <=> IF h \in Holders(type, id) THEN Here(dir, type) = h
                   ELSE FirstIn(paths', Holders(type, id), Here(dir, type))
  <2>1. Holders(type, id) \in SUBSET SearchPaths /\ Here(dir, type) \in SearchPaths
    BY DEF Holders, Here, SearchPaths
  <2>2. Walk!Decides(type, dir, id) <=> FirstIn(paths, Holders(type, id), Here(dir, type))
    BY <1>8 DEF Walked
  <2>3. FirstIn(paths, Holders(type, id), Here(dir, type))
          <=> IF Head(paths) \in Holders(type, id) THEN Here(dir, type) = Head(paths)
              ELSE FirstIn(Tail(paths), Holders(type, id), Here(dir, type))
    BY <1>1, <1>2, <2>1, FirstOfTail
  <2> QED BY <1>1, <2>2, <2>3 DEF h
<1>9. ASSUME NEW type \in Types, NEW id \in Ids, NEW dir \in Directories, <<type, id>> \notin seen'
      PROVE  (Walk!Decides(type, dir, id)
                <=> FirstIn(paths, Holders(type, id), Here(dir, type)))'
  <2>1. <<type, id>> \notin seen /\ h \notin Holders(type, id)
    BY <1>4, <1>5, <1>6, <1>9
  <2>2. Walk!Decides(type, dir, id) <=> FirstIn(paths', Holders(type, id), Here(dir, type))
    BY <1>8, <2>1
  <2>3. /\ Walk!Decides(type, dir, id)' <=> Walk!Decides(type, dir, id)
        /\ Holders(type, id)' = Holders(type, id)
    BY <1>1, SameView
  <2>4. FirstIn(paths, Holders(type, id), Here(dir, type))'
          <=> FirstIn(paths', Holders(type, id), Here(dir, type))
    BY <2>3 DEF FirstIn, Here
  <2> QED BY <2>2, <2>3, <2>4
<1>10. \A id \in new, d \in Directories : Walk!Decides(h.type, d, id) <=> d = h.dir
  <2> TAKE id \in new, d \in Directories
  <2>1. id \in Ids /\ h \in Holders(h.type, id) /\ <<h.type, id>> \notin seen
    BY <1>4, <1>7
  <2>2. Walk!Decides(h.type, d, id) <=> Here(d, h.type) = h
    BY <1>3, <1>8, <2>1
  <2>3. Here(d, h.type) = Here(h.dir, h.type) <=> d = h.dir
    BY DEF Here
  <2> QED BY <1>3, <2>2, <2>3
<1>11. ViewOf(seen)' = ViewOf(seen) \cup {Walk!Session(h.dir, id, h.type) :
                                            id \in {i \in new : Walk!Loaded(h.dir, i) = "shown"}}
  BY <1>1, <1>3, <1>7, <1>10, ViewGrows
<1>12. (files = ViewOf(seen))'
  BY <1>1, <1>11 DEF Walked
<1> QED BY <1>2, <1>9, <1>12 DEF Walked

(* One directory decides at most. *)
LEMMA OneDecides ==
  ASSUME Given, NEW type \in Types, NEW id \in Ids, NEW d1, NEW d2,
         Walk!Decides(type, d1, id), Walk!Decides(type, d2, id)
  PROVE  d1 = d2
<1>1. Walk!Search(type) \in Seq(Directories)
  BY SearchIs DEF Types
<1>2. PICK i \in DOMAIN Walk!Search(type) :
        /\ Walk!Search(type)[i] = d1 /\ Walk!Has(d1, id)
        /\ \A j \in 1..(i - 1) : ~Walk!Has(Walk!Search(type)[j], id)
  BY DEF Walk!Decides
<1>3. PICK k \in DOMAIN Walk!Search(type) :
        /\ Walk!Search(type)[k] = d2 /\ Walk!Has(d2, id)
        /\ \A j \in 1..(k - 1) : ~Walk!Has(Walk!Search(type)[j], id)
  BY DEF Walk!Decides
<1>4. i \in Nat /\ k \in Nat /\ i >= 1 /\ k >= 1
  BY <1>1
<1>5. i = k
  <2>1. ~(i < k)
    <3>1. i < k => i \in 1..(k - 1)
      BY <1>4
    <3> QED BY <1>2, <1>3, <3>1
  <2>2. ~(k < i)
    <3>1. k < i => k \in 1..(i - 1)
      BY <1>4
    <3> QED BY <1>2, <1>3, <3>1
  <2> QED BY <1>4, <2>1, <2>2
<1> QED BY <1>2, <1>3, <1>5

(* When no path is left, who decides has been met. *)
LEMMA WalkEnds ==
  ASSUME Walked, paths = <<>>
  PROVE  files = {Walk!Session(v[1], v[2], v[3]) :
                    v \in {w \in Directories \X Ids \X {"wayland", "x11"} :
                             Walk!Decides(w[3], w[1], w[2]) /\ Walk!Loaded(w[1], w[2]) = "shown"}}
<1>1. \A s, x : ~FirstIn(paths, s, x)
  BY DEF FirstIn
<1>2. \A type \in Types, id \in Ids, dir \in Directories :
        Walk!Decides(type, dir, id) => <<type, id>> \in seen
  BY <1>1 DEF Walked
<1> DEFINE L(d, i) == Walk!Loaded(d, i) = "shown"
           D(t, d, i) == Walk!Decides(t, d, i)
           triples == Directories \X Ids \X Types
<1>3. \A v \in triples : v[1] \in Directories /\ v[2] \in Ids /\ v[3] \in Types
  OBVIOUS
<1>4. {w \in triples : <<w[3], w[2]>> \in seen /\ D(w[3], w[1], w[2]) /\ L(w[1], w[2])}
        = {w \in triples : D(w[3], w[1], w[2]) /\ L(w[1], w[2])}
  <2>1. \A w \in triples : D(w[3], w[1], w[2]) => <<w[3], w[2]>> \in seen
    BY <1>2, <1>3
  <2> HIDE DEF D, L, triples
  <2> QED BY <2>1
<1> QED BY <1>4 DEF Walked, ViewOf, Types

(* What is listed is a finite set of sessions with names in the order of   *)
(* names.                                                                  *)
LEMMA FilesAre ==
  ASSUME Given, Walked
  PROVE  /\ IsFiniteSet(files)
         /\ \A a \in files :
              \E dir \in Directories, id \in Ids, type \in Types :
                /\ a = Walk!Session(dir, id, type) /\ Walk!Decides(type, dir, id)
                /\ a.slug = id /\ a.type = type /\ a.path = <<dir, id>> /\ a.name \in Names
<1> DEFINE triples == Directories \X Ids \X Types
           shown == {w \in triples : /\ <<w[3], w[2]>> \in seen
                                     /\ Walk!Decides(w[3], w[1], w[2])
                                     /\ Walk!Loaded(w[1], w[2]) = "shown"}
           S(v) == Walk!Session(v[1], v[2], v[3])
<1>1. files = {S(v) : v \in shown}
  BY DEF Walked, ViewOf
<1>2. IsFiniteSet(shown)
  <2>1. IsFiniteSet(Types)
    <3>1. IsFiniteSet({"wayland"}) /\ IsFiniteSet({"x11"})
      BY FS_Singleton
    <3>2. Types = {"wayland"} \cup {"x11"}
      BY DEF Types
    <3> QED BY <3>1, <3>2, FS_Union
  <2>2. IsFiniteSet(Directories) /\ IsFiniteSet(Ids)
    BY DiscoveryAssumption
  <2> DEFINE f(v) == <<v[1][1], v[1][2], v[2]>>
             pairs == (Directories \X Ids) \X Types
  <2>3. IsFiniteSet(pairs)
    BY <2>1, <2>2, FS_Product
  <2>4. IsFiniteSet({f(v) : v \in pairs})
    <3> DEFINE g == [v \in pairs |-> f(v)]
    <3>1. DOMAIN g = pairs /\ \A v \in pairs : g[v] = f(v)
      OBVIOUS
    <3> HIDE DEF f, pairs, g
    <3>2. IsFiniteSet({g[v] : v \in pairs})
      BY <2>3, <3>1, ImageIsFinite
    <3>3. {g[v] : v \in pairs} = {f(v) : v \in pairs}
      BY <3>1
    <3> QED BY <3>2, <3>3
  <2>5. shown \in SUBSET {f(v) : v \in pairs}
    <3> SUFFICES ASSUME NEW w \in triples PROVE w \in {f(v) : v \in pairs}
      OBVIOUS
    <3>1. w[1] \in Directories /\ w[2] \in Ids /\ w[3] \in Types /\ w = <<w[1], w[2], w[3]>>
      OBVIOUS
    <3>2. <<<<w[1], w[2]>>, w[3]>> \in pairs /\ w = f(<<<<w[1], w[2]>>, w[3]>>)
      BY <3>1
    <3> QED BY <3>2
  <2> QED BY <2>4, <2>5, FS_Subset
<1>3. IsFiniteSet(files)
  <2> DEFINE g == [v \in shown |-> S(v)]
  <2>1. DOMAIN g = shown /\ \A v \in shown : g[v] = S(v)
    OBVIOUS
  <2> HIDE DEF S, shown, g
  <2>2. IsFiniteSet({g[v] : v \in shown})
    BY <1>2, <2>1, ImageIsFinite
  <2>3. {g[v] : v \in shown} = files
    BY <1>1, <2>1
  <2> QED BY <2>2, <2>3
<1>4. ASSUME NEW a \in files
      PROVE  \E dir \in Directories, id \in Ids, type \in Types :
               /\ a = Walk!Session(dir, id, type) /\ Walk!Decides(type, dir, id)
               /\ a.slug = id /\ a.type = type /\ a.path = <<dir, id>> /\ a.name \in Names
  <2>1. PICK v \in shown : a = S(v)
    BY <1>1
  <2> DEFINE dir == v[1]
             id == v[2]
             type == v[3]
  <2>2. dir \in Directories /\ id \in Ids /\ type \in Types
    OBVIOUS
  <2>3. Walk!Decides(type, dir, id) /\ Walk!Loaded(dir, id) = "shown"
    OBVIOUS
  <2>4. a = Walk!Session(dir, id, type)
    BY <2>1
  <2> HIDE DEF dir, id, type
  <2>5. /\ a.slug = id /\ a.type = type /\ a.path = <<dir, id>>
        /\ a.name = Walk!Key(disk[dir][id], "Name")
    BY <2>4 DEF Walk!Session
  <2>6. a.name \in Names
    <3>1. PICK case \in Cases : disk = case.disk
      BY DEF Given
    <3>2. Walk!Has(dir, id)
      BY <2>3 DEF Walk!Decides
    <3>3. Offers(case.disk, dir, id)
      BY <2>3, <3>1, <3>2 DEF Offers, Walk!Has, Walk!Loaded
    <3> DEFINE w == <<dir, id>>
    <3>4. /\ w \in Directories \X Ids /\ w[1] = dir /\ w[2] = id
      BY <2>2
    <3>5. Walk!Key(case.disk[w[1]][w[2]], "Name")
            \in {Walk!Key(case.disk[u[1]][u[2]], "Name") :
                   u \in {y \in Directories \X Ids : Offers(case.disk, y[1], y[2])}}
      BY <3>3, <3>4
    <3> QED BY <2>5, <3>1, <3>4, <3>5 DEF Names
  <2> QED BY <2>2, <2>3, <2>4, <2>5, <2>6
<1> QED BY <1>3, <1>4

(* The sort has one result: no two sessions are equal in its order. *)
LEMMA PrecedesOrders ==
  ASSUME Given, Walked
  PROVE  /\ \A a \in files : ~Walk!Precedes(a, a)
         /\ \A a, b, c \in files :
              Walk!Precedes(a, b) /\ Walk!Precedes(b, c) => Walk!Precedes(a, c)
         /\ \A a, b \in files : a # b => Walk!Precedes(a, b) \/ Walk!Precedes(b, a)
<1> DEFINE R(x) == NameRank(x.name)
           D(x) == x.path[1]
           I(x) == x.slug
<1>1. ASSUME NEW a \in files
      PROVE  /\ R(a) \in Nat /\ D(a) \in Nat /\ I(a) \in Nat
             /\ a.path = <<D(a), I(a)>> /\ a.type \in Types
  <2>1. PICK dir \in Directories, id \in Ids, type \in Types :
          /\ a = Walk!Session(dir, id, type) /\ Walk!Decides(type, dir, id)
          /\ a.slug = id /\ a.type = type /\ a.path = <<dir, id>> /\ a.name \in Names
    BY FilesAre
  <2>2. R(a) \in Nat
    BY <2>1, DiscoveryAssumption
  <2>3. dir \in Nat /\ id \in Nat
    BY DiscoveryAssumption
  <2> QED BY <2>1, <2>2, <2>3
<1>2. ASSUME NEW a \in files, NEW b \in files PROVE R(a) = R(b) <=> a.name = b.name
  <2>1. a.name \in Names /\ b.name \in Names
    BY FilesAre
  <2> QED BY <2>1, DiscoveryAssumption
<1>3. ASSUME NEW a \in files, NEW b \in files, I(a) = I(b), D(a) = D(b), a.type = b.type PROVE a = b
  <2>1. PICK dir \in Directories, id \in Ids, type \in Types :
          /\ a = Walk!Session(dir, id, type) /\ Walk!Decides(type, dir, id)
          /\ a.slug = id /\ a.type = type /\ a.path = <<dir, id>> /\ a.name \in Names
    BY FilesAre
  <2>2. PICK dir2 \in Directories, id2 \in Ids, type2 \in Types :
          /\ b = Walk!Session(dir2, id2, type2) /\ Walk!Decides(type2, dir2, id2)
          /\ b.slug = id2 /\ b.type = type2 /\ b.path = <<dir2, id2>> /\ b.name \in Names
    BY FilesAre
  <2>3. id = id2 /\ type = type2
    BY <1>3, <2>1, <2>2
  <2>4. dir = dir2
    BY <1>3, <2>1, <2>2
  <2> QED BY <2>1, <2>2, <2>3, <2>4
<1>4. ASSUME NEW a \in files, NEW b \in files
      PROVE  Walk!Precedes(a, b)
               <=> \/ R(a) < R(b)
                   \/ R(a) = R(b) /\ I(a) < I(b)
                   \/ R(a) = R(b) /\ I(a) = I(b) /\ D(a) < D(b)
                   \/ R(a) = R(b) /\ I(a) = I(b) /\ D(a) = D(b)
                        /\ a.type = "wayland" /\ b.type = "x11"
  <2>1. I(a) = I(b) => (a.path = b.path <=> D(a) = D(b))
    BY <1>1
  <2> QED BY <1>2, <2>1 DEF Walk!Precedes
<1> HIDE DEF R, D, I
<1>5. \A a \in files : ~Walk!Precedes(a, a)
  <2> SUFFICES ASSUME NEW a \in files PROVE ~Walk!Precedes(a, a)
    OBVIOUS
  <2> QED BY <1>1, <1>4
<1>6. ASSUME NEW a \in files, NEW b \in files, NEW c \in files,
             Walk!Precedes(a, b), Walk!Precedes(b, c)
      PROVE  Walk!Precedes(a, c)
  <2>1. R(a) \in Nat /\ R(b) \in Nat /\ R(c) \in Nat /\ I(a) \in Nat /\ I(b) \in Nat /\ I(c) \in Nat
        /\ D(a) \in Nat /\ D(b) \in Nat /\ D(c) \in Nat
    BY <1>1
  <2>2. \/ R(a) < R(b)
        \/ R(a) = R(b) /\ I(a) < I(b)
        \/ R(a) = R(b) /\ I(a) = I(b) /\ D(a) < D(b)
        \/ R(a) = R(b) /\ I(a) = I(b) /\ D(a) = D(b) /\ a.type = "wayland" /\ b.type = "x11"
    BY <1>4, <1>6
  <2>3. \/ R(b) < R(c)
        \/ R(b) = R(c) /\ I(b) < I(c)
        \/ R(b) = R(c) /\ I(b) = I(c) /\ D(b) < D(c)
        \/ R(b) = R(c) /\ I(b) = I(c) /\ D(b) = D(c) /\ b.type = "wayland" /\ c.type = "x11"
    BY <1>4, <1>6
  <2>4. \/ R(a) < R(c)
        \/ R(a) = R(c) /\ I(a) < I(c)
        \/ R(a) = R(c) /\ I(a) = I(c) /\ D(a) < D(c)
        \/ R(a) = R(c) /\ I(a) = I(c) /\ D(a) = D(c) /\ a.type = "wayland" /\ c.type = "x11"
    BY <2>1, <2>2, <2>3
  <2> QED BY <1>4, <2>4
<1>7. ASSUME NEW a \in files, NEW b \in files, a # b
      PROVE  Walk!Precedes(a, b) \/ Walk!Precedes(b, a)
  <2>1. R(a) \in Nat /\ R(b) \in Nat /\ I(a) \in Nat /\ I(b) \in Nat /\ D(a) \in Nat /\ D(b) \in Nat
        /\ a.type \in {"wayland", "x11"} /\ b.type \in {"wayland", "x11"}
    BY <1>1 DEF Types
  <2>2. I(a) # I(b) \/ D(a) # D(b) \/ a.type # b.type
    BY <1>3, <1>7
  <2> QED BY <1>4, <2>1, <2>2
<1> QED BY <1>5, <1>6, <1>7

(* The order of the sort is the order a session is listed by. *)
LEMMA PrecedesAbove ==
  ASSUME Given, Walked, NEW a \in files, NEW b \in files, Walk!Precedes(a, b)
  PROVE  Walk!Above(a, b)
<1> DEFINE p == Walk!ListedBy(a)
           q == Walk!ListedBy(b)
<1>1. /\ p[1] = NameRank(a.name) /\ p[2] = a.slug /\ p[3] = a.path[1]
      /\ q[1] = NameRank(b.name) /\ q[2] = b.slug /\ q[3] = b.path[1]
      /\ a.type = "wayland" => p[4] = 0
      /\ b.type = "x11" => q[4] = 1
  BY DEF Walk!ListedBy
<1> HIDE DEF p, q
<1>2. CASE NameRank(a.name) < NameRank(b.name)
  <2>1. 1 \in 1..4 /\ p[1] < q[1] /\ \A j \in 1..(1 - 1) : p[j] = q[j]
    BY <1>1, <1>2
  <2> QED BY <2>1 DEF Walk!Above, p, q
<1>3. CASE a.name = b.name /\ a.slug < b.slug
  <2>1. 2 \in 1..4 /\ p[2] < q[2] /\ \A j \in 1..(2 - 1) : p[j] = q[j]
    BY <1>1, <1>3
  <2> QED BY <2>1 DEF Walk!Above, p, q
<1>4. CASE a.name = b.name /\ a.slug = b.slug /\ a.path[1] < b.path[1]
  <2>1. 3 \in 1..4 /\ p[3] < q[3] /\ \A j \in 1..(3 - 1) : p[j] = q[j]
    BY <1>1, <1>4
  <2> QED BY <2>1 DEF Walk!Above, p, q
<1>5. CASE /\ a.name = b.name /\ a.slug = b.slug /\ a.path = b.path
           /\ a.type = "wayland" /\ b.type = "x11"
  <2>1. 4 \in 1..4 /\ p[4] < q[4] /\ \A j \in 1..(4 - 1) : p[j] = q[j]
    BY <1>1, <1>5
  <2> QED BY <2>1 DEF Walk!Above, p, q
<1> QED BY <1>2, <1>3, <1>4, <1>5 DEF Walk!Precedes

(* What is listed at the end is the view. *)
LEMMA ListedIsView == Given /\ Walked /\ Walk!List => Walk!ListingIsTheView'
<1> SUFFICES ASSUME Given, Walked, Walk!List PROVE Walk!ListingIsTheView'
  OBVIOUS
<1> DEFINE R == {r \in files \X files : Walk!Precedes(r[1], r[2])}
           view == {Walk!Session(v[1], v[2], v[3]) :
                      v \in {w \in Directories \X Ids \X {"wayland", "x11"} :
                               Walk!Decides(w[3], w[1], w[2]) /\ Walk!Loaded(w[1], w[2]) = "shown"}}
<1>1. UNCHANGED Walk!found /\ paths = <<>>
  BY DEF Walk!List, Walk!found
<1>2. \A a, b \in files : <<a, b>> \in R <=> Walk!Precedes(a, b)
  OBVIOUS
<1> HIDE DEF R
<1>3. Orders(R, files)
  BY <1>2, PrecedesOrders DEF Orders
<1> DEFINE list == listing'
<1>4. ByRank(list, R, files)
  <2>1. \A s : Walk!Cardinality(s) = Cardinality(s)
    BY DEF Walk!Cardinality, Cardinality, Walk!IsFiniteSet, IsFiniteSet
  <2>2. list = [i \in 1..Walk!Cardinality(files) |->
                  CHOOSE session \in files : Walk!Cardinality(Walk!Before(session)) = i - 1]
    BY DEF Walk!List
  <2>3. \A a \in files : Walk!Before(a) = {b \in files : <<b, a>> \in R}
    BY <1>2 DEF Walk!Before
  <2>4. DOMAIN list = 1..Cardinality(files)
    BY <2>1, <2>2
  <2>5. ASSUME NEW i \in 1..Cardinality(files), NEW a \in files,
               Cardinality({b \in files : <<b, a>> \in R}) = i - 1
        PROVE  list[i] \in files /\ Cardinality({b \in files : <<b, list[i]>> \in R}) = i - 1
    <3>1. i \in 1..Walk!Cardinality(files) /\ Walk!Cardinality(Walk!Before(a)) = i - 1
      BY <2>1, <2>3, <2>5
    <3>2. list[i] = CHOOSE session \in files : Walk!Cardinality(Walk!Before(session)) = i - 1
      BY <2>2, <3>1
    <3> HIDE DEF list
    <3>3. list[i] \in files /\ Walk!Cardinality(Walk!Before(list[i])) = i - 1
      BY <3>1, <3>2
    <3> QED BY <2>1, <2>3, <3>3
  <2> HIDE DEF list
  <2> QED BY <2>4, <2>5 DEF ByRank
<1> HIDE DEF list
<1>5. /\ {list[i] : i \in DOMAIN list} = files
      /\ \A i, j \in DOMAIN list : list[i] = list[j] => i = j
      /\ \A i, j \in DOMAIN list : i < j => <<list[i], list[j]>> \in R
  <2>1. IsFiniteSet(files)
    BY FilesAre
  <2> QED BY <1>3, <1>4, <2>1, RanksList
<1>6. files = view
  BY <1>1, WalkEnds
<1>7. Walk!ToSet(listing') = view
  BY <1>5, <1>6 DEF Walk!ToSet, list
<1>8. ASSUME NEW i \in DOMAIN listing', NEW j \in DOMAIN listing',
             listing'[i].type = listing'[j].type, listing'[i].slug = listing'[j].slug
      PROVE  i = j
  <2> DEFINE a == listing'[i]
             b == listing'[j]
  <2>1. a \in files /\ b \in files
    BY <1>5 DEF list
  <2>2. PICK dir \in Directories, id \in Ids, type \in Types :
          /\ a = Walk!Session(dir, id, type) /\ Walk!Decides(type, dir, id)
          /\ a.slug = id /\ a.type = type /\ a.path = <<dir, id>> /\ a.name \in Names
    BY <2>1, FilesAre
  <2>3. PICK dir2 \in Directories, id2 \in Ids, type2 \in Types :
          /\ b = Walk!Session(dir2, id2, type2) /\ Walk!Decides(type2, dir2, id2)
          /\ b.slug = id2 /\ b.type = type2 /\ b.path = <<dir2, id2>> /\ b.name \in Names
    BY <2>1, FilesAre
  <2>4. id = id2 /\ type = type2
    BY <1>8, <2>2, <2>3
  <2>5. dir = dir2
    BY <2>2, <2>3, <2>4, OneDecides
  <2>6. a = b
    BY <2>2, <2>3, <2>4, <2>5
  <2> QED BY <1>5, <2>6 DEF list
<1>9. view' = view
  <2>1. /\ \A t, d, i : Walk!Decides(t, d, i)' <=> Walk!Decides(t, d, i)
        /\ \A d, i : Walk!Loaded(d, i)' = Walk!Loaded(d, i)
        /\ \A d, i, t : Walk!Session(d, i, t)' = Walk!Session(d, i, t)
    BY <1>1, SameView
  <2> QED BY <2>1
<1>10. (Walk!ToSet(listing) = view)'
  <2>1. Walk!ToSet(listing)' = Walk!ToSet(listing')
    BY DEF Walk!ToSet
  <2> QED BY <1>7, <1>9, <2>1
<1>11. (\A i, j \in DOMAIN listing :
          (listing[i].type = listing[j].type /\ listing[i].slug = listing[j].slug) => i = j)'
  BY <1>8
<1>12. (\A i, j \in DOMAIN listing : i < j => Walk!Above(listing[i], listing[j]))'
  <2>1. ASSUME NEW i \in DOMAIN listing', NEW j \in DOMAIN listing', i < j
        PROVE  Walk!Above(listing'[i], listing'[j])
    <3>1. <<listing'[i], listing'[j]>> \in R /\ listing'[i] \in files /\ listing'[j] \in files
      BY <1>5, <2>1 DEF list
    <3>2. Walk!Precedes(listing'[i], listing'[j])
      BY <1>2, <3>1
    <3> QED BY <3>1, <3>2, PrecedesAbove
  <2>2. \A a, b : Walk!Above(a, b)' <=> Walk!Above(a, b)
    BY DEF Walk!Above, Walk!ListedBy
  <2> QED BY <2>1, <2>2
<1> QED BY <1>10, <1>11, <1>12 DEF Walk!ListingIsTheView

LEMMA InitWalked == Walk!Init => WalkInv
<1> SUFFICES ASSUME Walk!Init PROVE WalkInv
  OBVIOUS
<1>1. Given
  <2>1. PICK case \in Cases : /\ disk = case.disk
                              /\ sessions \in case.lists /\ xsessions \in case.lists
    BY DEF Walk!Init
  <2>2. case.lists \subseteq Seq(Directories)
    BY DiscoveryAssumption
  <2> QED BY <2>1, <2>2 DEF Given
<1> QED BY <1>1 DEF Walk!Init, WalkInv

LEMMA StepWalked == WalkInv /\ (Walk!Next \/ UNCHANGED discoveryVars) => WalkInv'
<1> SUFFICES ASSUME WalkInv, Walk!Next \/ UNCHANGED discoveryVars PROVE WalkInv'
  OBVIOUS
<1>1. UNCHANGED Walk!found
  BY DEF Walk!Next, Walk!EffectivePaths, Walk!SkipDirectory, Walk!ReadDirectory, Walk!List,
         Walk!found, discoveryVars
<1>2. Given /\ Given'
  BY <1>1, SameView DEF WalkInv
<1>3. CASE Walk!EffectivePaths
  <2>1. phase = "paths" /\ phase' = "walk"
    BY <1>3 DEF Walk!EffectivePaths
  <2> QED BY <1>2, <1>3, <2>1, PathsWalked DEF WalkInv
<1>4. CASE Walk!SkipDirectory
  <2>1. phase = "walk" /\ phase' = "walk"
    BY <1>4 DEF Walk!SkipDirectory
  <2> QED BY <1>2, <1>4, <2>1, SkipWalked DEF WalkInv
<1>5. CASE Walk!ReadDirectory
  <2>1. phase = "walk" /\ phase' = "walk"
    BY <1>5 DEF Walk!ReadDirectory
  <2> QED BY <1>2, <1>5, <2>1, ReadWalked DEF WalkInv
<1>6. CASE Walk!List
  <2>1. phase = "walk" /\ phase' = "listed"
    BY <1>6 DEF Walk!List
  <2> QED BY <1>2, <1>6, <2>1, ListedIsView DEF WalkInv
<1>7. CASE UNCHANGED discoveryVars
  <2>1. /\ sessions' = sessions /\ xsessions' = xsessions /\ disk' = disk /\ paths' = paths
        /\ seen' = seen /\ files' = files /\ listing' = listing /\ phase' = phase
    BY <1>7 DEF discoveryVars
  <2>2. Walked' <=> Walked
    BY <2>1 DEF Walked, ViewOf, Holders, Here, FirstIn, Walk!Decides, Walk!Search, Walk!Has,
                Walk!Session, Walk!Loaded
  <2>3. Walk!ListingIsTheView' <=> Walk!ListingIsTheView
    BY <2>1 DEF Walk!ListingIsTheView, Walk!ToSet, Walk!Decides, Walk!Search, Walk!Has,
                Walk!Session, Walk!Loaded, Walk!Above, Walk!ListedBy
  <2> QED BY <1>2, <2>1, <2>2, <2>3 DEF WalkInv
<1> QED BY <1>3, <1>4, <1>5, <1>6, <1>7 DEF Walk!Next

(* The menu offers exactly the sessions whose deciding file loads, each    *)
(* once for a type and in the order of names, ids and directories, for all *)
(* directories, files and configured lists (get_sessions).                 *)
THEOREM ListingsHold == PartsSpec => []ListingIsTheView
<1> DEFINE Inv == which = "sessions" => WalkInv /\ phase \in {"paths", "walk", "listed"}
<1>1. PartsInit => Inv
  BY InitWalked DEF PartsInit, Walk!Init
<1>2. Inv /\ [PartsNext]_partsVars => Inv'
  <2>1. phase \in {"paths", "walk", "listed"} /\ (Walk!Next \/ UNCHANGED discoveryVars)
          => phase' \in {"paths", "walk", "listed"}
    BY DEF Walk!Next, Walk!EffectivePaths, Walk!SkipDirectory, Walk!ReadDirectory, Walk!List,
           discoveryVars
  <2> QED BY <2>1, StepWalked DEF PartsNext, partsVars, discoveryVars
<1>3. Inv => ListingIsTheView
  BY DEF WalkInv, ListingIsTheView, Walk!ListingIsTheView
<1> QED
  BY <1>1, <1>2, <1>3, PTL DEF PartsSpec

-----------------------------------------------------------------------------
(* The cursor of a frame, and the rows around its view *)

(* Columns between two places of a text. *)
LEMMA ColumnsAre ==
  ASSUME NEW text \in Seq(Nat), NEW from \in 0..Len(text), NEW to \in 0..Len(text), from <= to
  PROVE  Columns(text, from, to) \in Nat /\ (from = to => Columns(text, from, to) = 0)
<1> DEFINE n == to - from
           part == SubSeq(text, from + 1, to)
<1>1. n \in Nat
  OBVIOUS
<1>2. part \in [1..n -> Nat]
  <2>1. part \in Seq(Nat) /\ Len(part) = n
    OBVIOUS
  <2> HIDE DEF part
  <2> QED BY <2>1
<1>3. Columns(text, from, to) = SumOf(part)
  BY DEF Columns, SumOf
<1> HIDE DEF part
<1>4. PICK p \in [0..n -> Nat] : p[0] = 0 /\ SumOf(part) = p[n]
  BY <1>1, <1>2, SumIs
<1> QED BY <1>1, <1>3, <1>4

(* The leftmost of some places is one of them, and none is further left.   *)
LEMMA LeftmostIs ==
  ASSUME NEW S, S \subseteq Nat, S # {}
  PROVE  Outermost(S, FALSE) \in S /\ \A y \in S : Outermost(S, FALSE) <= y
<1>1. PICK m \in S : \A y \in S : ~(<<y, m>> \in OpToRel(<, Nat))
  BY WFMin, NatLessThanWellFounded
<1>2. \A y \in S : ~(y < m)
  BY <1>1 DEF OpToRel
<1>3. \A y \in S : m <= y
  BY <1>2
<1> QED BY <1>3 DEF Outermost

(* The rightmost likewise: it leaves the least to the end.                 *)
LEMMA RightmostIs ==
  ASSUME NEW n \in Nat, NEW S, S \subseteq 0..n, S # {}
  PROVE  Outermost(S, TRUE) \in S /\ \A y \in S : y <= Outermost(S, TRUE)
<1> DEFINE T == {n - y : y \in S}
<1>1. T \subseteq Nat /\ T # {}
  <2>1. \A y \in S : n - y \in Nat
    <3> TAKE y \in S
    <3>1. y \in 0..n
      OBVIOUS
    <3> QED BY <3>1
  <2>2. PICK y \in S : n - y \in T
    OBVIOUS
  <2> QED BY <2>1, <2>2
<1>2. PICK m \in T : \A y \in T : ~(<<y, m>> \in OpToRel(<, Nat))
  <2> HIDE DEF T
  <2> QED BY <1>1, WFMin, NatLessThanWellFounded
<1>3. \A y \in T : ~(y < m)
  <2> HIDE DEF T
  <2> QED BY <1>1, <1>2 DEF OpToRel
<1>4. PICK last \in S : m = n - last
  BY <1>2
<1>5. \A y \in S : y <= last
  <2> SUFFICES ASSUME NEW y \in S PROVE y <= last
    OBVIOUS
  <2>1. ~(n - y < n - last)
    BY <1>3, <1>4
  <2> QED BY <2>1
<1> QED BY <1>5 DEF Outermost

(* A view of a text around a place: it holds the place, no more than the   *)
(* columns there are, as much as they allow, and leaves one for the cursor.*)
Around(view, text, at, columns) ==
  /\ view.start \in 0..at /\ view.end \in at..Len(text)
  /\ Columns(text, view.start, view.end) <= columns
  /\ view.start > 0 => Columns(text, view.start - 1, at) >= columns
  /\ view.end < Len(text) => Columns(text, view.start, view.end + 1) > columns
  /\ view.column = Columns(text, view.start, at)
  /\ view.column \in Nat /\ view.column < columns

(* What is drawn of a text is such a view. *)
LEMMA ViewIsAround ==
  ASSUME NEW text \in Seq(Nat), NEW at \in 0..Len(text), NEW columns \in Nat, columns > 0
  PROVE  Around(View(text, at, columns), text, at, columns)
<1> DEFINE S == {p \in 0..at : Columns(text, p, at) <= columns - 1}
           start == Outermost(S, FALSE)
           E == {p \in at..Len(text) : Columns(text, start, p) <= columns} \cup {at}
           end == Outermost(E, TRUE)
<1>1. at \in S /\ S \subseteq Nat
  <2>1. Columns(text, at, at) = 0
    BY ColumnsAre
  <2> QED BY <2>1
<1>2. start \in S /\ \A y \in S : start <= y
  <2> HIDE DEF S
  <2> QED BY <1>1, LeftmostIs
<1>3. View(text, at, columns) = [start |-> start, end |-> end, column |-> Columns(text, start, at)]
  BY DEF View, ViewWithBudget
<1> HIDE DEF start
<1>4. start \in 0..at /\ Columns(text, start, at) <= columns - 1
  BY <1>2
<1>5. start \in 0..Len(text) /\ start <= at
  BY <1>4
<1>6. Columns(text, start, at) \in Nat
  BY <1>5, ColumnsAre
<1>7. start > 0 => Columns(text, start - 1, at) >= columns
  <2> SUFFICES ASSUME start > 0 PROVE Columns(text, start - 1, at) >= columns
    OBVIOUS
  <2>1. start - 1 \in 0..at /\ start - 1 \in 0..Len(text) /\ start - 1 <= at
    BY <1>4, <1>5
  <2>2. Columns(text, start - 1, at) \in Nat
    BY <2>1, ColumnsAre
  <2>3. start - 1 \notin S
    <3> HIDE DEF S
    <3> QED BY <1>2, <1>4
  <2> QED BY <2>1, <2>2, <2>3
<1>8. end \in E /\ \A y \in E : y <= end
  <2>1. Len(text) \in Nat /\ E \subseteq 0..Len(text) /\ E # {}
    OBVIOUS
  <2> HIDE DEF E
  <2> QED BY <2>1, RightmostIs
<1> HIDE DEF end
<1>9. end \in at..Len(text) /\ Columns(text, start, end) <= columns
  BY <1>4, <1>6, <1>8
<1>10. end < Len(text) => Columns(text, start, end + 1) > columns
  <2> SUFFICES ASSUME end < Len(text) PROVE Columns(text, start, end + 1) > columns
    OBVIOUS
  <2>1. end + 1 \in at..Len(text) /\ end + 1 \in 0..Len(text) /\ start <= end + 1
    BY <1>4, <1>9
  <2>2. Columns(text, start, end + 1) \in Nat
    BY <1>5, <2>1, ColumnsAre
  <2>3. end + 1 \notin E
    <3> HIDE DEF E
    <3> QED BY <1>8, <1>9
  <2> QED BY <2>1, <2>2, <2>3
<1>11. /\ View(text, at, columns).start = start /\ View(text, at, columns).end = end
       /\ View(text, at, columns).column = Columns(text, start, at)
  BY <1>3
<1> HIDE DEF S, E
<1> QED BY <1>4, <1>6, <1>7, <1>9, <1>10, <1>11 DEF Around

(* What of an answer is drawn, and the cursor in it. *)
LEMMA ShownIsText ==
  ASSUME NEW s \in Screens
  PROVE  /\ s.text \in Seq(Nat) /\ s.at \in 0..Len(s.text)
         /\ Shown(s) \in Seq(Nat) /\ ShownAt(s) \in 0..Len(Shown(s))
<1>1. /\ s.text \in Seq(Nat) /\ s.at \in Nat /\ s.pool \in Seq(Nat)
  BY ScreensAssumption, SMTT(60) DEF ScreenType
<1>2. s.at <= Len(s.text)
  BY FieldAssumption
<1>3. CASE s.secret = "masked" /\ s.pool # <<>>
  <2>1. Len(s.pool) \in Nat /\ Len(s.pool) > 0
    BY <1>1, <1>3
  <2>2. \A i \in DOMAIN s.text : s.pool[((i - 1) % Len(s.pool)) + 1] \in Nat
    <3> TAKE i \in DOMAIN s.text
    <3>1. i - 1 \in Nat
      BY <1>1
    <3>2. (i - 1) % Len(s.pool) \in 0..(Len(s.pool) - 1)
      BY <2>1, <3>1
    <3>3. ((i - 1) % Len(s.pool)) + 1 \in 1..Len(s.pool)
      BY <2>1, <3>2
    <3> QED BY <1>1, <3>3
  <2>3. Shown(s) = [i \in 1..Len(s.text) |-> s.pool[((i - 1) % Len(s.pool)) + 1]]
    BY <1>1, <1>3 DEF Shown, Mask
  <2>4. Shown(s) \in Seq(Nat) /\ Len(Shown(s)) = Len(s.text)
    <3>1. Shown(s) \in [1..Len(s.text) -> Nat] /\ Len(s.text) \in Nat
      BY <1>1, <2>2, <2>3
    <3> QED BY <3>1
  <2> QED BY <1>1, <1>2, <1>3, <2>4 DEF ShownAt
<1>4. CASE s.secret = "masked" /\ s.pool = <<>>
  BY <1>1, <1>2, <1>4 DEF Shown, ShownAt, Mask
<1>5. CASE s.secret # "masked"
  BY <1>1, <1>2, <1>5 DEF Shown, ShownAt
<1> QED BY <1>3, <1>4, <1>5

(* A field is at most one row of columns. *)
IsField(field) ==
  /\ field.x \in Nat /\ field.y \in Nat /\ field.width \in Nat /\ field.height \in 0..1

(* A cursor is in the field, if there is one. *)
LeadsTo(field, cursor) ==
  cursor # None =>
    /\ field.x <= cursor[1] /\ cursor[1] < Right(field)
    /\ cursor[2] = field.y /\ field.height = 1

LEMMA FieldIs ==
  ASSUME NEW x \in Nat, NEW y \in Nat, NEW width \in Nat, NEW height \in Nat,
         x + width <= MaxU16, NEW label \in Nat, NEW spaced \in BOOLEAN
  PROVE  IsField(InputArea(Rect(x, y, width, height), label, spaced))
<1> DEFINE offset == Least(label + Flag(label > 0 /\ ~spaced), width)
<1>1. offset \in Nat /\ offset <= width
  <2>1. Flag(label > 0 /\ ~spaced) \in Nat
    BY DEF Flag
  <2> QED BY <2>1 DEF Least
<1>2. InputArea(Rect(x, y, width, height), label, spaced)
        = Rect(Plus(x, offset), y, width - offset, Least(height, 1))
  BY DEF InputArea, Rect
<1> HIDE DEF offset
<1>3. Plus(x, offset) \in Nat /\ Least(height, 1) \in 0..1
  BY <1>1, MaxAssumption DEF Plus, Least
<1> QED BY <1>1, <1>2, <1>3 DEF IsField, Rect

LEMMA AreaCursorIs ==
  ASSUME NEW field, IsField(field), NEW column \in Nat
  PROVE  /\ LeadsTo(field, AreaCursor(field, column))
         /\ (HasRoom(field) /\ column < field.width) =>
              AreaCursor(field, column) # None /\ AreaCursor(field, column)[1] = field.x + column
         /\ AreaCursor(field, column) # None => AreaCursor(field, column)[1] = field.x + column
<1>1. CASE HasRoom(field) /\ column < field.width
  <2>1. AreaCursor(field, column) = <<field.x + column, field.y>>
    BY <1>1 DEF AreaCursor
  <2>2. <<field.x + column, field.y>> \in Nat \X Nat
    BY DEF IsField
  <2>3. <<field.x + column, field.y>> # None
    BY <2>2, NoneAssumption
  <2>4. field.x + column < Right(field) /\ field.height = 1 /\ field.x <= field.x + column
    BY <1>1 DEF IsField, HasRoom, Right
  <2> QED BY <2>1, <2>3, <2>4 DEF LeadsTo
<1>2. CASE ~(HasRoom(field) /\ column < field.width)
  BY <1>2 DEF AreaCursor, LeadsTo
<1> QED BY <1>1, <1>2

(* The cursor of a text is behind what is drawn of the text before it.     *)
LEMMA InputCursorIs ==
  ASSUME NEW field, IsField(field), NEW text \in Seq(Nat), NEW at \in 0..Len(text)
  PROVE  /\ LeadsTo(field, InputCursor(text, at, field))
         /\ HasRoom(field) => InputCursor(text, at, field) # None
         /\ InputCursor(text, at, field) # None =>
              DrawnAround(InputView(text, at, field), text, at, field,
                          InputCursor(text, at, field)[1])
<1>1. CASE HasRoom(field)
  <2> DEFINE view == InputView(text, at, field)
             column == view.column
  <2>1. view = View(text, at, field.width)
    BY <1>1 DEF InputView
  <2>2. InputCursor(text, at, field) = AreaCursor(field, column)
    BY <1>1 DEF InputCursor
  <2> HIDE DEF view
  <2>3. field.width \in Nat /\ field.width > 0
    BY <1>1 DEF IsField, HasRoom
  <2>4. Around(view, text, at, field.width)
    BY <2>1, <2>3, ViewIsAround
  <2>5. column \in Nat /\ column < field.width
    BY <2>4 DEF Around
  <2> HIDE DEF column
  <2>6. /\ LeadsTo(field, AreaCursor(field, column))
        /\ AreaCursor(field, column) # None
        /\ AreaCursor(field, column)[1] = field.x + column
    BY <1>1, <2>5, AreaCursorIs
  <2>7. DrawnAround(view, text, at, field, AreaCursor(field, column)[1])
    BY <2>4, <2>6 DEF Around, DrawnAround, column
  <2> QED BY <2>2, <2>6, <2>7 DEF view
<1>2. CASE ~HasRoom(field)
  BY <1>2 DEF InputCursor, LeadsTo
<1> QED BY <1>1, <1>2

(* The field of a view and its cursor. *)
CursorFits(s, box) ==
  /\ LeadsTo(box.field, box.cursor)
  /\ (Answering(s) /\ s.secret = "hidden" /\ box.cursor # None) => box.cursor[1] = box.field.x
  /\ (~(Answering(s) /\ s.secret = "hidden") /\ box.cursor # None) =>
       DrawnAround(box.drawn, Typed(s), TypedAt(s), box.field, box.cursor[1])
  /\ (HasRoom(box.field) /\ ~ShouldHideCursor(s)) => box.cursor # None

LEMMA PromptCursorFits ==
  ASSUME NEW s \in Screens, IsPrompt(s), NEW area, Area(area),
         NEW box, box = Prompt(s, area)
  PROVE  CursorFits(s, box)
<1> DEFINE inner == box.inner
           field == box.field
           username == Rect(inner.x, inner.y + box.greeting, inner.width, box.username)
           answer == Rect(inner.x, inner.y + box.greeting + box.username + box.gap,
                          inner.width, box.answer)
<1>1. /\ Area(inner) /\ {box.greeting, box.username, box.gap, box.answer} \subseteq Nat
  BY ScreensAssumption, PromptFits DEF BoxNests
<1>2. /\ field = InputArea(IF Answering(s) THEN answer ELSE username, s.label, s.spaced)
      /\ box.cursor = CASE Answering(s) /\ s.secret = "hidden" -> AreaCursor(field, 0)
                        [] Answering(s) /\ s.secret # "hidden" ->
                             InputCursor(Shown(s), ShownAt(s), field)
                        [] ~Answering(s) /\ s.mode = "Username" /\ ~s.choosing ->
                             InputCursor(s.text, s.at, field)
                        [] OTHER -> None
      /\ box.drawn = CASE Answering(s) /\ s.secret = "hidden" -> None
                       [] Answering(s) /\ s.secret # "hidden" ->
                            InputView(Shown(s), ShownAt(s), field)
                       [] ~Answering(s) /\ s.mode = "Username" /\ ~s.choosing ->
                            InputView(s.text, s.at, field)
                       [] OTHER -> None
  BY DEF Prompt, Box, PromptDrawn, PromptCursor
<1>3. s.label \in Nat /\ s.spaced \in BOOLEAN
  BY ScreensAssumption, SMTT(60) DEF ScreenType
<1>4. IsField(field)
  <2>1. /\ inner.x \in Nat /\ inner.y \in Nat /\ inner.width \in Nat
        /\ inner.x + inner.width <= MaxU16
    BY <1>1 DEF Area, Right
  <2>2. /\ inner.y + box.greeting \in Nat /\ box.username \in Nat /\ box.answer \in Nat
        /\ inner.y + box.greeting + box.username + box.gap \in Nat
    BY <1>1, <2>1
  <2>3. IsField(InputArea(username, s.label, s.spaced))
    BY <1>3, <2>1, <2>2, FieldIs
  <2>4. IsField(InputArea(answer, s.label, s.spaced))
    BY <1>3, <2>1, <2>2, FieldIs
  <2> HIDE DEF username, answer, field, inner
  <2> QED BY <1>2, <2>3, <2>4
<1> HIDE DEF username, answer, field, inner
<1>5. /\ s.text \in Seq(Nat) /\ s.at \in 0..Len(s.text)
      /\ Shown(s) \in Seq(Nat) /\ ShownAt(s) \in 0..Len(Shown(s))
  BY ShownIsText
<1>6. CASE Answering(s) /\ s.secret = "hidden"
  <2>1. box.cursor = AreaCursor(field, 0)
    BY <1>2, <1>6
  <2>2. HasRoom(field) => 0 < field.width
    BY DEF HasRoom
  <2>3. field.x + 0 = field.x
    BY <1>4 DEF IsField
  <2>4. /\ LeadsTo(field, AreaCursor(field, 0))
        /\ HasRoom(field) => AreaCursor(field, 0) # None
        /\ AreaCursor(field, 0) # None => AreaCursor(field, 0)[1] = field.x
    BY <1>4, <2>2, <2>3, AreaCursorIs
  <2> QED BY <1>6, <2>1, <2>4 DEF CursorFits, field
<1>7. CASE Answering(s) /\ s.secret # "hidden"
  <2>1. /\ box.cursor = InputCursor(Shown(s), ShownAt(s), field)
        /\ box.drawn = InputView(Shown(s), ShownAt(s), field)
    BY <1>2, <1>7
  <2>2. Typed(s) = Shown(s) /\ TypedAt(s) = ShownAt(s)
    BY <1>7 DEF Typed, TypedAt
  <2> QED BY <1>4, <1>5, <1>7, <2>1, <2>2, InputCursorIs DEF CursorFits, field
<1>8. CASE ~Answering(s) /\ s.mode = "Username" /\ ~s.choosing
  <2>1. box.cursor = InputCursor(s.text, s.at, field) /\ box.drawn = InputView(s.text, s.at, field)
    BY <1>2, <1>8
  <2>2. Typed(s) = s.text /\ TypedAt(s) = s.at
    BY <1>8 DEF Typed, TypedAt
  <2> QED BY <1>4, <1>5, <1>8, <2>1, <2>2, InputCursorIs DEF CursorFits, field
<1>9. CASE ~Answering(s) /\ ~(s.mode = "Username" /\ ~s.choosing)
  <2>1. box.cursor = None
    BY <1>2, <1>9
  <2>2. ShouldHideCursor(s)
    BY <1>9 DEF ShouldHideCursor, Answering, IsPrompt
  <2> QED BY <1>9, <2>1, <2>2 DEF CursorFits, LeadsTo
<1> QED BY <1>6, <1>7, <1>8, <1>9

LEMMA CommandCursorFits ==
  ASSUME NEW s \in Screens, s.mode = "Command", NEW area, Area(area),
         NEW box, box = Command(s, area)
  PROVE  /\ LeadsTo(box.field, box.cursor)
         /\ HasRoom(box.field) => box.cursor # None
         /\ box.cursor # None =>
              DrawnAround(box.drawn, s.text, s.at, box.field, box.cursor[1])
<1> DEFINE inner == box.inner
           field == box.field
<1>1. Area(inner)
  BY ScreensAssumption, CommandFits DEF BoxNests
<1>2. /\ field = InputArea(Rect(inner.x, inner.y, inner.width, Least(1, inner.height)),
                           s.label, s.spaced)
      /\ box.cursor = IF HasRoom(field)
                      THEN <<field.x + InputView(s.text, s.at, field).column, field.y>>
                      ELSE None
      /\ box.drawn = InputView(s.text, s.at, field)
  BY DEF Command, Box, CommandCursor
<1>3. s.label \in Nat /\ s.spaced \in BOOLEAN
  BY ScreensAssumption, SMTT(60) DEF ScreenType
<1>4. IsField(field)
  <2>1. /\ inner.x \in Nat /\ inner.y \in Nat /\ inner.width \in Nat
        /\ inner.x + inner.width <= MaxU16 /\ Least(1, inner.height) \in Nat
    BY <1>1 DEF Area, Right, Least
  <2> HIDE DEF inner, field
  <2> QED BY <1>2, <1>3, <2>1, FieldIs
<1>5. s.text \in Seq(Nat) /\ s.at \in 0..Len(s.text)
  BY ShownIsText
<1> HIDE DEF inner, field
<1>6. box.cursor = InputCursor(s.text, s.at, field)
  <2>1. CASE HasRoom(field)
    <3>1. field.width \in Nat /\ field.width > 0
      BY <1>4, <2>1 DEF IsField, HasRoom
    <3>2. Around(View(s.text, s.at, field.width), s.text, s.at, field.width)
      BY <1>5, <3>1, ViewIsAround
    <3>3. InputView(s.text, s.at, field).column < field.width
      BY <2>1, <3>2 DEF Around, InputView
    <3> QED BY <1>2, <2>1, <3>3 DEF InputCursor, AreaCursor
  <2>2. CASE ~HasRoom(field)
    BY <1>2, <2>2 DEF InputCursor
  <2> QED BY <2>1, <2>2
<1> QED BY <1>2, <1>4, <1>5, <1>6, InputCursorIs DEF field

-----------------------------------------------------------------------------
(* The status row *)

Entries == Seq([width : Nat \ {0}, priority : Nat])

LEMMA EntryFields ==
  ASSUME NEW list \in Entries
  PROVE  /\ Len(list) \in Nat /\ DOMAIN list = 1..Len(list)
         /\ \A i \in 1..Len(list) :
              list[i].width \in Nat /\ list[i].width # 0 /\ list[i].priority \in Nat
<1> DEFINE E == [width : Nat \ {0}, priority : Nat]
<1>1. \A e \in E : e.width \in Nat /\ e.width # 0 /\ e.priority \in Nat
  OBVIOUS
<1>2. list \in Seq(E)
  BY DEF Entries
<1> HIDE DEF E
<1> QED BY <1>1, <1>2

(* Every entry has its turn, and no turn is of anything else. *)
LEMMA OrderIsOfEntries ==
  ASSUME NEW list \in Entries
  PROVE  Order(list) \in [1..Len(list) -> 1..Len(list)]
<1> DEFINE F == DOMAIN list
           R == {w \in F \X F : \/ list[w[1]].priority < list[w[2]].priority
                                \/ list[w[1]].priority = list[w[2]].priority /\ w[1] < w[2]}
<1>1. /\ Len(list) \in Nat /\ F = 1..Len(list) /\ IsFiniteSet(F)
      /\ Cardinality(F) = Len(list)
  <2>1. Len(list) \in Nat /\ F = 1..Len(list)
    BY EntryFields
  <2>2. 1 \in Int /\ Len(list) \in Int
    BY <2>1
  <2>3. /\ IsFiniteSet(1..Len(list))
        /\ Cardinality(1..Len(list)) = IF 1 > Len(list) THEN 0 ELSE Len(list) - 1 + 1
    BY <2>2, FS_Interval
  <2> HIDE DEF F
  <2> QED BY <2>1, <2>3
<1>2. \A i \in F : list[i].priority \in Nat /\ i \in Nat
  BY <1>1, EntryFields
<1>3. \A i, j \in F : <<j, i>> \in R <=> \/ list[j].priority < list[i].priority
                                         \/ list[j].priority = list[i].priority /\ j < i
  OBVIOUS
<1> HIDE DEF R
<1>4. Orders(R, F)
  <2>1. \A a \in F : <<a, a>> \notin R
    BY <1>2, <1>3
  <2>2. \A a, b, c \in F : <<a, b>> \in R /\ <<b, c>> \in R => <<a, c>> \in R
    <3> HIDE DEF F
    <3> QED BY <1>2, <1>3
  <2>3. \A a, b \in F : a # b => <<a, b>> \in R \/ <<b, a>> \in R
    <3> HIDE DEF F
    <3> QED BY <1>2, <1>3
  <2> QED BY <2>1, <2>2, <2>3 DEF Orders
<1>5. \A i \in F : Earlier(list, i) = {b \in F : <<b, i>> \in R}
  BY <1>3 DEF Earlier
<1>6. DOMAIN Order(list) = F
      /\ \A i \in F : Order(list)[i] = CHOOSE a \in F : Cardinality(Earlier(list, a)) = i - 1
  BY DEF Order
<1> HIDE DEF F
<1>7. ByRank(Order(list), R, F)
  <2>1. DOMAIN Order(list) = 1..Cardinality(F)
    BY <1>1, <1>6
  <2>2. ASSUME NEW i \in DOMAIN Order(list),
               NEW a \in F, Cardinality({b \in F : <<b, a>> \in R}) = i - 1
        PROVE  /\ Order(list)[i] \in F
               /\ Cardinality({b \in F : <<b, Order(list)[i]>> \in R}) = i - 1
    <3>1. Cardinality(Earlier(list, a)) = i - 1
      BY <1>5, <2>2
    <3>2. Order(list)[i] \in F /\ Cardinality(Earlier(list, Order(list)[i])) = i - 1
      BY <1>6, <3>1
    <3> QED BY <1>5, <3>2
  <2> QED BY <2>1, <2>2 DEF ByRank
<1>8. \A i \in F : Order(list)[i] \in F
  <2> DEFINE order == Order(list)
  <2>1. IsFiniteSet(F) /\ ByRank(order, R, F) /\ DOMAIN order = F
    BY <1>1, <1>6, <1>7
  <2> HIDE DEF order
  <2>2. {order[i] : i \in DOMAIN order} = F
    BY <1>4, <2>1, RanksList
  <2>3. \A i \in F : order[i] \in F
    BY <2>1, <2>2
  <2> QED BY <2>3 DEF order
<1>9. Order(list) = [i \in F |-> Order(list)[i]]
  BY DEF Order, F
<1>10. Order(list) \in [F -> F]
  BY <1>8, <1>9
<1> QED BY <1>1, <1>10

(* select_status_entries goes through the entries in that order. *)
LEMMA SelectIs ==
  ASSUME NEW list \in Entries, NEW available \in Nat
  PROVE  \E p \in [0..Len(list) -> [selected : SUBSET (1..Len(list)), used : Nat]] :
           /\ p[0] = [selected |-> {}, used |-> 0]
           /\ \A k \in 1..Len(list) :
                p[k] = Take(p[k - 1], list[Order(list)[k]], Order(list)[k], available)
           /\ Select(list, available) = p[Len(list)].selected
<1> DEFINE n == Len(list)
           order == Order(list)
           none == [selected |-> {}, used |-> 0]
           V == [selected : SUBSET (1..n), used : Nat]
           op(v, k) == Take(v, list[order[k]], order[k], available)
           P(h) == h = [s \in SUBSET (DOMAIN order) |->
                          IF s = {} THEN none ELSE op(h[s \ {Max(s)}], Max(s))]
           H == CHOOSE h : P(h)
           step == [q \in (1..n) \X V |-> op(q[2], q[1])]
<1>1. Select(list, available) = H[DOMAIN order].selected
  BY DEF Select, FoldLeft, MapThenFoldSet
<1>2. n \in Nat /\ order \in [1..n -> 1..n]
  BY OrderIsOfEntries, EntryFields
<1>3. \A k \in 1..n : list[order[k]].width \in Nat /\ order[k] \in 1..n
  <2> HIDE DEF order
  <2> QED BY <1>2, EntryFields
<1> HIDE DEF order
<1>4. \A v \in V, k \in 1..n : op(v, k) \in V
  <2> SUFFICES ASSUME NEW v \in V, NEW k \in 1..n PROVE op(v, k) \in V
    OBVIOUS
  <2>1. v.used \in Nat /\ v.selected \in SUBSET (1..n)
    OBVIOUS
  <2>2. /\ v.used + (list[order[k]].width + Flag(v.used # 0)) \in Nat
        /\ v.selected \cup {order[k]} \in SUBSET (1..n)
    BY <1>3, <2>1 DEF Flag
  <2> QED BY <2>2 DEF Take
<1> HIDE DEF V, op
<1>5. none \in V
  BY DEF V
<1>6. \E g : P(g)
  <2>1. step \in [(1..n) \X V -> V]
    BY <1>4
  <2>2. PICK g \in [SUBSET (1..n) -> V] : Iterates(g, n, none, step)
    <3> HIDE DEF step, none
    <3> QED BY <1>2, <1>5, <2>1, FoldExists
  <2>3. ASSUME NEW s \in SUBSET (1..n)
        PROVE  g[s] = IF s = {} THEN none ELSE op(g[s \ {Max(s)}], Max(s))
    <3>1. CASE s # {}
      <4>1. Max(s) \in 1..n /\ g[s \ {Max(s)}] \in V
        BY <1>2, <3>1, MaxIs
      <4> QED BY <2>2, <3>1, <4>1 DEF Iterates
    <3> QED BY <2>2, <3>1 DEF Iterates
  <2>4. P(g)
    BY <1>2, <2>3
  <2> QED BY <2>4
<1>7. P(H)
  <2> HIDE DEF P
  <2> QED BY <1>6
<1> HIDE DEF H
<1>8. \A s \in SUBSET (1..n) : H[s] = IF s = {} THEN none ELSE op(H[s \ {Max(s)}], Max(s))
  BY <1>2, <1>7
<1>9. H[1..0] = none /\ \A k \in 1..n : H[1..k] = op(H[1..(k - 1)], k)
  <2>1. H[1..0] = none
    <3>1. 1..0 = {} /\ 1..0 \in SUBSET (1..n)
      OBVIOUS
    <3> QED BY <1>8, <3>1
  <2>2. ASSUME NEW k \in 1..n PROVE H[1..k] = op(H[1..(k - 1)], k)
    <3>1. /\ 1..k \in SUBSET (1..n) /\ k \in Nat /\ k # 0
      OBVIOUS
    <3>2. /\ 1..k # {} /\ Max(1..k) = k /\ (1..k) \ {k} = 1..(k - 1)
      BY <3>1, Interval
    <3> QED BY <1>8, <3>1, <3>2
  <2> QED BY <2>1, <2>2
<1> DEFINE T == {k \in Nat : k <= n => H[1..k] \in V}
<1>10. T = Nat
  <2>1. 0 \in T /\ T \subseteq Nat
    BY <1>5, <1>9
  <2>2. ASSUME NEW k \in T PROVE k + 1 \in T
    <3>1. CASE k + 1 <= n
      <4>1. k \in Nat /\ k + 1 \in 1..n /\ (k + 1) - 1 = k /\ H[1..k] \in V
        BY <1>2, <3>1
      <4>2. H[1..(k + 1)] = op(H[1..k], k + 1)
        BY <1>9, <4>1
      <4> QED BY <1>4, <4>1, <4>2
    <3> QED BY <3>1
  <2> HIDE DEF T
  <2> QED BY <2>1, <2>2, Induction
<1> DEFINE p == [k \in 0..n |-> H[1..k]]
<1>11. p \in [0..n -> V]
  BY <1>10
<1>12. p[0] = none /\ \A k \in 1..n : p[k] = op(p[k - 1], k)
  BY <1>2, <1>9
<1>13. Select(list, available) = p[n].selected
  BY <1>1, <1>2
<1> HIDE DEF p, none
<1>14. \A k \in 1..n : op(p[k - 1], k) = Take(p[k - 1], list[order[k]], order[k], available)
  BY DEF op
<1> QED BY <1>11, <1>12, <1>13, <1>14 DEF V, none, order

(* Nothing adds up to nothing, and one more term adds itself. *)
LEMMA ZerosSum ==
  ASSUME NEW n \in Nat, NEW c \in [1..n -> Nat], \A i \in 1..n : c[i] = 0
  PROVE  SumOf(c) = 0
<1>1. PICK p \in [0..n -> Nat] :
        /\ p[0] = 0 /\ \A i \in 1..n : p[i] = p[i - 1] + c[i]
        /\ SumOf(c) = p[n]
  BY SumIs
<1> DEFINE T == {i \in Nat : i <= n => p[i] = 0}
<1>2. 0 \in T /\ T \subseteq Nat
  BY <1>1
<1>3. ASSUME NEW i \in T PROVE i + 1 \in T
  <2>1. CASE i + 1 <= n
    <3>1. i \in Nat /\ i + 1 \in 1..n /\ p[i] = 0
      BY <2>1
    <3>2. p[i + 1] = 0
      BY <1>1, <3>1
    <3> QED BY <3>1, <3>2
  <2> QED BY <2>1
<1>4. T = Nat
  <2> HIDE DEF T
  <2> QED BY <1>2, <1>3, Induction
<1>5. n \in T
  <2> HIDE DEF T
  <2> QED BY <1>4
<1> QED BY <1>1, <1>5

LEMMA OneMoreSum ==
  ASSUME NEW n \in Nat, NEW c \in [1..n -> Nat], NEW d \in [1..n -> Nat], NEW at \in 1..n,
         c[at] = 0, \A i \in 1..n : i # at => d[i] = c[i]
  PROVE  SumOf(c) \in Nat /\ SumOf(d) = SumOf(c) + d[at]
<1>1. PICK p \in [0..n -> Nat] :
        /\ p[0] = 0 /\ \A i \in 1..n : p[i] = p[i - 1] + c[i]
        /\ SumOf(c) = p[n]
  BY SumIs
<1>2. PICK r \in [0..n -> Nat] :
        /\ r[0] = 0 /\ \A i \in 1..n : r[i] = r[i - 1] + d[i]
        /\ SumOf(d) = r[n]
  BY SumIs
<1> DEFINE term == d[at]
           T == {i \in Nat : i <= n => r[i] = p[i] + (IF at <= i THEN term ELSE 0)}
<1>a. term \in Nat /\ at \in Nat /\ 1 <= at /\ at <= n
  OBVIOUS
<1> HIDE DEF term
<1>3. 0 \in T /\ T \subseteq Nat
  <2>1. ~(at <= 0) /\ r[0] = 0 /\ p[0] = 0
    BY <1>1, <1>2, <1>a
  <2> QED BY <2>1
<1>4. ASSUME NEW i \in T PROVE i + 1 \in T
  <2>1. CASE i + 1 <= n
    <3>1. /\ i \in Nat /\ i + 1 \in 1..n /\ i <= n /\ (i + 1) - 1 = i
          /\ r[i] = p[i] + (IF at <= i THEN term ELSE 0)
      BY <2>1
    <3>2. p[i + 1] = p[(i + 1) - 1] + c[i + 1] /\ r[i + 1] = r[(i + 1) - 1] + d[i + 1]
      BY <1>1, <1>2, <3>1
    <3>3. p[i] \in Nat /\ c[i + 1] \in Nat /\ d[i + 1] \in Nat
      BY <3>1
    <3>4. r[i + 1] = p[i + 1] + (IF at <= i + 1 THEN term ELSE 0)
      <4>1. CASE i + 1 = at
        <5>1. c[i + 1] = 0 /\ d[i + 1] = term
          BY <4>1 DEF term
        <5> QED BY <1>a, <3>1, <3>2, <3>3, <4>1, <5>1
      <4>2. CASE i + 1 # at
        <5>1. d[i + 1] = c[i + 1] /\ (at <= i <=> at <= i + 1)
          BY <1>a, <3>1, <4>2
        <5>2. r[i + 1] = r[i] + c[i + 1] /\ p[i + 1] = p[i] + c[i + 1]
          BY <3>1, <3>2, <5>1
        <5> DEFINE extra == IF at <= i + 1 THEN term ELSE 0
        <5>3. r[i] = p[i] + extra
          BY <3>1, <5>1
        <5>4. extra \in Nat
          BY <1>a
        <5> HIDE DEF extra
        <5> DEFINE before == p[i]
                   next == c[i + 1]
        <5>5. before \in Nat /\ next \in Nat
          BY <3>3
        <5>6. r[i + 1] = (before + extra) + next /\ p[i + 1] = before + next
          BY <5>2, <5>3
        <5> HIDE DEF before, next
        <5>7. (before + extra) + next = (before + next) + extra
          BY <5>4, <5>5
        <5>8. r[i + 1] = p[i + 1] + extra
          BY <5>6, <5>7, Zenon
        <5> QED BY <5>8 DEF extra
      <4> QED BY <4>1, <4>2
    <3> QED BY <3>1, <3>4
  <2> QED BY <2>1
<1>5. T = Nat
  <2> HIDE DEF T
  <2> QED BY <1>3, <1>4, Induction
<1>6. n \in T
  <2> HIDE DEF T
  <2> QED BY <1>5
<1>7. p[n] \in Nat /\ r[n] = p[n] + term
  BY <1>a, <1>6
<1> QED BY <1>1, <1>2, <1>7 DEF term

(* The columns of some entries, each with a blank. *)
Spread(list, some) == [i \in DOMAIN list |-> IF i \in some THEN list[i].width + 1 ELSE 0]

(* The selected entries fit, with a blank before all but the first. *)
LEMMA SelectFits ==
  ASSUME NEW list \in Entries, NEW available \in Nat
  PROVE  /\ SumOf(Spread(list, Select(list, available))) \in Nat
         /\ Minus(SumOf(Spread(list, Select(list, available))), 1) <= available
<1> DEFINE n == Len(list)
           taken(some) == SumOf(Spread(list, some))
<1>1. PICK p \in [0..n -> [selected : SUBSET (1..n), used : Nat]] :
        /\ p[0] = [selected |-> {}, used |-> 0]
        /\ \A k \in 1..n : p[k] = Take(p[k - 1], list[Order(list)[k]], Order(list)[k], available)
        /\ Select(list, available) = p[n].selected
  BY SelectIs
<1>2. /\ n \in Nat /\ DOMAIN list = 1..n /\ Order(list) \in [1..n -> 1..n]
      /\ \A i \in 1..n : list[i].width \in Nat
  BY OrderIsOfEntries, EntryFields
<1>3. \A some : Spread(list, some) \in [1..n -> Nat]
  BY <1>2 DEF Spread
<1>4. taken({}) = 0
  <2>1. \A i \in 1..n : Spread(list, {})[i] = 0
    BY <1>2 DEF Spread
  <2> QED BY <1>2, <1>3, <2>1, ZerosSum
<1>5. ASSUME NEW some, NEW i \in 1..n, i \notin some
      PROVE  taken(some) \in Nat /\ taken(some \cup {i}) = taken(some) + list[i].width + 1
  <2>1. /\ Spread(list, some)[i] = 0 /\ Spread(list, some \cup {i})[i] = list[i].width + 1
        /\ \A j \in 1..n : j # i => Spread(list, some \cup {i})[j] = Spread(list, some)[j]
    BY <1>2, <1>5 DEF Spread
  <2> DEFINE c == Spread(list, some)
             d == Spread(list, some \cup {i})
  <2>2. /\ c \in [1..n -> Nat] /\ d \in [1..n -> Nat] /\ c[i] = 0
        /\ \A j \in 1..n : j # i => d[j] = c[j]
    BY <1>3, <2>1
  <2> HIDE DEF c, d
  <2>3. SumOf(c) \in Nat /\ SumOf(d) = SumOf(c) + d[i]
    BY <1>2, <2>2, OneMoreSum
  <2>4. d[i] = list[i].width + 1 /\ list[i].width \in Nat
    BY <1>2, <2>1 DEF d
  <2>5. SumOf(d) = SumOf(c) + list[i].width + 1
    BY <2>3, <2>4
  <2> QED BY <2>3, <2>5 DEF c, d
<1> HIDE DEF taken
<1> DEFINE Fit(v) == /\ v.used <= available
                     /\ taken(v.selected) \in Nat
                     /\ v.used = 0 => taken(v.selected) = 0 /\ v.selected = {}
                     /\ taken(v.selected) <= v.used + 1
           T == {k \in Nat : k <= n => Fit(p[k])}
<1>6. 0 \in T /\ T \subseteq Nat
  <2>1. p[0].used = 0 /\ p[0].selected = {}
    BY <1>1
  <2>2. Fit(p[0])
    BY <1>4, <2>1
  <2> QED BY <2>2
<1>7. ASSUME NEW k \in T PROVE k + 1 \in T
  <2>1. CASE k + 1 <= n
    <3> DEFINE v == p[k]
               i == Order(list)[k + 1]
    <3>a. k \in Nat /\ k \in 0..n /\ k + 1 \in 1..n /\ (k + 1) - 1 = k
      BY <1>2, <2>1
    <3>b. Fit(v)
      BY <2>1
    <3>c. v \in [selected : SUBSET (1..n), used : Nat]
      BY <1>1, <3>a
    <3>1. /\ k \in Nat /\ k + 1 \in 1..n /\ (k + 1) - 1 = k /\ Fit(v)
          /\ v.selected \in SUBSET (1..n) /\ v.used \in Nat
      BY <3>a, <3>b, <3>c
    <3>2. p[k + 1] = Take(v, list[i], i, available)
      BY <1>1, <3>1
    <3>3. i \in 1..n /\ list[i].width \in Nat /\ list[i].width # 0
      BY <1>2, <3>1, EntryFields
    <3> HIDE DEF v, i
    <3> DEFINE required == list[i].width + Flag(v.used # 0)
    <3>4. CASE v.used + required <= available
      <4>1. /\ p[k + 1].selected = v.selected \cup {i}
            /\ p[k + 1].used = v.used + required
        BY <3>2, <3>4 DEF Take
      <4>2. /\ required \in Nat /\ required # 0
            /\ v.used = 0 => required = list[i].width
            /\ v.used # 0 => required = list[i].width + 1
        BY <3>3 DEF Flag
      <4> HIDE DEF required
      <4>3. CASE i \in v.selected
        <5>1. v.selected \cup {i} = v.selected
          BY <4>3
        <5> DEFINE t == taken(v.selected)
                   u == v.used
        <5>2. /\ u <= available /\ t \in Nat /\ (u = 0 => t = 0 /\ v.selected = {})
              /\ t <= u + 1 /\ u \in Nat
          BY <3>1
        <5>3. u # 0 /\ p[k + 1].used = u + required /\ taken(p[k + 1].selected) = t
          BY <4>1, <4>3, <5>1, <5>2
        <5> HIDE DEF t, u
        <5>4. Fit(p[k + 1])
          BY <3>4, <4>2, <5>2, <5>3 DEF u
        <5> QED BY <3>a, <5>4
      <4>4. CASE i \notin v.selected
        <5>1. /\ taken(v.selected) \in Nat
              /\ taken(v.selected \cup {i}) = taken(v.selected) + list[i].width + 1
          BY <1>5, <3>3, <4>4
        <5> DEFINE t == taken(v.selected)
                   u == v.used
                   w == list[i].width
        <5>2. /\ u <= available /\ t \in Nat /\ (u = 0 => t = 0)
              /\ t <= u + 1 /\ u \in Nat /\ w \in Nat
          BY <3>1, <3>3
        <5>3. p[k + 1].used = u + required /\ taken(p[k + 1].selected) = t + w + 1
          BY <4>1, <5>1
        <5>4. u + required <= available /\ required = IF u = 0 THEN w ELSE w + 1
          BY <3>4, <4>2
        <5>5. required \in Nat /\ required # 0
          BY <4>2
        <5> HIDE DEF t, u, w
        <5>6. Fit(p[k + 1])
          BY <5>2, <5>3, <5>4, <5>5
        <5> QED BY <3>a, <5>6
      <4> QED BY <4>3, <4>4
    <3>5. CASE ~(v.used + required <= available)
      <4>1. p[k + 1] = v
        BY <3>2, <3>5 DEF Take
      <4> QED BY <3>1, <4>1
    <3> QED BY <3>4, <3>5
  <2> QED BY <2>1
<1>8. T = Nat
  <2> HIDE DEF T
  <2> QED BY <1>6, <1>7, Induction
<1>9. Fit(p[n])
  <2>1. n \in T
    <3> HIDE DEF T
    <3> QED BY <1>2, <1>8
  <2> QED BY <2>1
<1>10. p[n].used \in Nat
  BY <1>2
<1> QED BY <1>1, <1>9, <1>10 DEF taken, Minus

(* They stay clear of the caps lock mark. *)
LEMMA EntriesClear ==
  ASSUME NEW s \in ScreenType, NEW width \in Nat, NEW f,
         f.entries = Select(s.entries, EntriesWidth(s, width))
  PROVE  EntriesTake(s, f) + CapsWidth(s, width) <= width
<1>1. s.entries \in Entries /\ s.caps \in Nat \cup {None}
  BY SMTT(60) DEF ScreenType, Entries
<1>2. CapsWidth(s, width) \in Nat /\ CapsWidth(s, width) <= width
  BY <1>1 DEF CapsWidth
<1>3. EntriesWidth(s, width) \in Nat /\ EntriesWidth(s, width) + CapsWidth(s, width) <= width
  BY <1>2 DEF EntriesWidth, Minus, Flag
<1> DEFINE total == SumOf(Spread(s.entries, f.entries))
<1>4. total \in Nat /\ Minus(total, 1) <= EntriesWidth(s, width)
  BY <1>1, <1>3, SelectFits
<1>5. EntriesTake(s, f) = Minus(total, 1)
  BY DEF EntriesTake, SumOf, Spread
<1>6. Minus(total, 1) \in Nat
  <2> HIDE DEF total
  <2> QED BY <1>4 DEF Minus
<1> HIDE DEF total
<1> QED BY <1>2, <1>3, <1>4, <1>5, <1>6

(* The battery stays clear of the time, on either way to center it. *)
LEMMA BatteryClear ==
  ASSUME NEW s \in ScreenType, NEW width \in Nat, BatteryFits(s, width), s.time = "top",
         NEW start \in {(width - Least(s.time_width, width)) \div 2,
                        (width - Least(s.time_width, width) + 1) \div 2}
  PROVE  IF s.side = "left" THEN s.battery <= start
         ELSE start + Least(s.time_width, width) <= width - s.battery
<1>1. s.battery \in Nat /\ s.time_width \in Nat
  <2>1. s.battery \in Nat \cup {None} /\ s.time_width \in Nat
    BY SMTT(60) DEF ScreenType
  <2> QED BY <2>1 DEF BatteryFits
<1> DEFINE time == Least(s.time_width, width)
<1>2. time \in Nat /\ time <= width
  BY <1>1 DEF Least
<1>3. /\ s.battery <= width
      /\ IF s.side = "left" THEN s.battery + 1 <= (width - time) \div 2
         ELSE width - s.battery >= (width - time) \div 2 + time + 1
  BY DEF BatteryFits, TimeStart
<1>4. start \in {(width - time) \div 2, (width - time + 1) \div 2}
  OBVIOUS
<1> HIDE DEF time
<1>5. /\ start \in Nat /\ (width - time) \div 2 \in Nat
      /\ start >= (width - time) \div 2 /\ start <= (width - time) \div 2 + 1
  BY <1>2, <1>4
<1>6. IF s.side = "left" THEN s.battery <= start ELSE start + time <= width - s.battery
  BY <1>1, <1>2, <1>3, <1>5
<1> QED BY <1>6 DEF time

(* The column of the cursor of a frame. *)
CursorTied(s, f) ==
  IF IsPrompt(s) /\ Answering(s) /\ s.secret = "hidden"
  THEN f.cursor[1] = f.box.field.x
  ELSE DrawnAround(f.box.drawn, Typed(s), TypedAt(s), f.box.field, f.cursor[1])

(* Whenever a cursor is shown, the view is one with a field. *)
LEMMA CursorOfFrame ==
  ASSUME NEW s \in Screens, NEW area, Area(area), NEW f, f.box = BoxOf(s, area),
         f.cursor = IF ShouldHideCursor(s) THEN None ELSE f.box.cursor
  PROVE  /\ LeadsTo(f.box.field, f.cursor)
         /\ f.cursor # None => CursorTied(s, f)
         /\ (~ShouldHideCursor(s) /\ HasRoom(f.box.field)) => f.cursor # None
<1>1. CASE ShouldHideCursor(s)
  BY <1>1 DEF LeadsTo
<1>2. CASE ~ShouldHideCursor(s) /\ s.mode = "Command"
  <2>1. f.box = Command(s, area) /\ f.cursor = f.box.cursor /\ ~IsPrompt(s)
    BY <1>2 DEF BoxOf, IsPrompt
  <2> DEFINE box == f.box
  <2>2. box = Command(s, area)
    BY <2>1
  <2> HIDE DEF box
  <2>3. /\ LeadsTo(box.field, box.cursor) /\ (HasRoom(box.field) => box.cursor # None)
        /\ box.cursor # None => DrawnAround(box.drawn, s.text, s.at, box.field, box.cursor[1])
    BY <1>2, <2>2, CommandCursorFits
  <2>4. Typed(s) = s.text /\ TypedAt(s) = s.at
    BY <2>1 DEF Typed, TypedAt
  <2> QED BY <2>1, <2>3, <2>4 DEF box, CursorTied
<1>3. CASE ~ShouldHideCursor(s) /\ s.mode # "Command"
  <2>1. s.mode \in {"Username", "Password"}
    BY <1>3 DEF ShouldHideCursor
  <2>2. f.box = Prompt(s, area) /\ f.cursor = f.box.cursor /\ IsPrompt(s)
    BY <1>3, <2>1 DEF BoxOf, IsPrompt
  <2> DEFINE box == f.box
  <2>3. box = Prompt(s, area)
    BY <2>2
  <2> HIDE DEF box
  <2>4. CursorFits(s, box)
    BY <2>2, <2>3, PromptCursorFits
  <2> QED BY <1>3, <2>2, <2>4 DEF box, CursorFits, CursorTied
<1> QED BY <1>1, <1>2, <1>3

(* On any terminal, with any field, text and settings: the cursor is in    *)
(* the field with a column of its own, behind the part of the text before  *)
(* its place that is drawn, and it is there whenever the view takes text   *)
(* and the field has a column; entries, caps lock mark, battery and time   *)
(* keep clear of each other (draw, input::view, render_status,             *)
(* info_items_fit).                                                        *)
THEOREM CursorsFit == PartsSpec => []CursorIsInField
<1> DEFINE Inv == (which = "frame" => screen \in Screens) /\ CursorIsInField
<1>1. PartsInit => Inv
  BY DEF PartsInit, Init, NoFrame, CursorIsInField
<1>2. Inv /\ [PartsNext]_partsVars => Inv'
  <2> SUFFICES ASSUME Inv, [PartsNext]_partsVars PROVE Inv'
    OBVIOUS
  <2>1. CASE which = "frame" /\ Draw /\ UNCHANGED which
    <3> DEFINE terminal == Rect(0, 0, screen.width, screen.height)
               padded == Inset(terminal, screen.window_padding)
    <3>1. screen' = screen /\ screen \in Screens /\ screen \in ScreenType
      BY <2>1, ScreensAssumption DEF Draw
    <3>2. PICK given \in Shares(screen, padded.height) :
            /\ frame'.padded = padded
            /\ frame'.box = BoxOf(screen, MainArea(padded, given))
            /\ frame'.cursor = IF ShouldHideCursor(screen) THEN None ELSE frame'.box.cursor
            /\ frame'.battery = BatteryFits(screen, padded.width)
            /\ frame'.entries = Select(screen.entries, EntriesWidth(screen, padded.width))
      BY <2>1 DEF Draw
    <3>3. Area(terminal) /\ screen.window_padding \in Nat
      <4>1. screen.width \in U16 /\ screen.height \in U16
        BY <3>1, SMTT(60) DEF ScreenType
      <4>2. screen.window_padding \in Nat
        BY <3>1, ScreenFields
      <4>3. Area(terminal)
        BY <4>1, MaxAssumption DEF U16, Area, Rect, Right, Bottom
      <4> QED BY <4>2, <4>3
    <3> HIDE DEF terminal
    <3>4. Area(padded) /\ padded.width \in Nat
      <4>1. Area(padded)
        BY <3>3, InsetInside
      <4> HIDE DEF padded
      <4> QED BY <4>1 DEF Area
    <3> HIDE DEF padded
    <3>5. Area(MainArea(padded, given))
      BY <3>1, <3>2, <3>4, MainInside
    <3> DEFINE field == frame'.box.field
               width == padded.width
               time == Least(screen.time_width, width)
    <3>6. PICK f : f = frame'
      OBVIOUS
    <3>7. /\ LeadsTo(f.box.field, f.cursor)
          /\ f.cursor # None => CursorTied(screen, f)
          /\ (~ShouldHideCursor(screen) /\ HasRoom(f.box.field)) => f.cursor # None
      BY <3>1, <3>2, <3>5, <3>6, CursorOfFrame
    <3>8. EntriesTake(screen, f) + CapsWidth(screen, width) <= width
      BY <3>1, <3>2, <3>4, <3>6, EntriesClear
    <3>9. (f.battery /\ screen.time = "top") =>
            \A start \in {(width - time) \div 2, (width - time + 1) \div 2} :
              IF screen.side = "left" THEN screen.battery <= start
              ELSE start + time <= width - screen.battery
      BY <3>1, <3>2, <3>4, <3>6, BatteryClear
    <3>10. f.padded.width = width
      BY <3>2, <3>6
    <3> HIDE DEF width
    <3>11. CursorIsInField'
      BY <3>1, <3>6, <3>7, <3>8, <3>9, <3>10 DEF CursorIsInField, LeadsTo, CursorTied
    <3> QED BY <2>1, <3>1, <3>11
  <2>2. CASE UNCHANGED <<which, screen, frame>>
    BY <2>2 DEF CursorIsInField
  <2> QED
    BY <2>1, <2>2 DEF PartsNext, partsVars, layoutVars, Next
<1>3. Inv => CursorIsInField
  OBVIOUS
<1> QED
  BY <1>1, <1>2, <1>3, PTL DEF PartsSpec

-----------------------------------------------------------------------------
(* Runs of an automaton over a sequence                                    *)

(* What step does with a state of V and an element of C. *)
Automaton(step, V, C) == step \in [V \X C -> V]

(* The states that step goes through from base, one for every element.     *)
IsRun(p, step, base, seq) ==
  p[0] = base /\ \A k \in 1..Len(seq) : p[k] = step[<<p[k - 1], seq[k]>>]

(* The state it ends in. *)
Run(step, base, seq) == (CHOOSE p : IsRun(p, step, base, seq))[Len(seq)]

(* There is one run. *)
LEMMA RunIs ==
  ASSUME NEW C, NEW seq \in Seq(C), NEW step, NEW base, NEW p, IsRun(p, step, base, seq)
  PROVE  Run(step, base, seq) = p[Len(seq)]
<1> DEFINE q == CHOOSE r : IsRun(r, step, base, seq)
           T == {k \in Nat : k <= Len(seq) => q[k] = p[k]}
<1>1. IsRun(q, step, base, seq)
  OBVIOUS
<1> HIDE DEF q
<1>2. 0 \in T
  BY <1>1 DEF IsRun
<1>3. ASSUME NEW k \in T PROVE k + 1 \in T
  <2> SUFFICES ASSUME k + 1 <= Len(seq) PROVE q[k + 1] = p[k + 1]
    OBVIOUS
  <2>1. k + 1 \in 1..Len(seq) /\ (k + 1) - 1 = k /\ q[k] = p[k]
    OBVIOUS
  <2>2. q[k + 1] = step[<<q[k], seq[k + 1]>>]
    BY <1>1, <2>1 DEF IsRun
  <2>3. p[k + 1] = step[<<p[k], seq[k + 1]>>]
    BY <2>1 DEF IsRun
  <2> QED BY <2>1, <2>2, <2>3
<1>4. T = Nat
  <2> HIDE DEF T
  <2>1. T \subseteq Nat
    BY DEF T
  <2> QED BY <1>2, <1>3, <2>1, Induction
<1>5. Len(seq) \in T
  <2> HIDE DEF T
  <2> QED BY <1>4
<1>6. q[Len(seq)] = p[Len(seq)]
  BY <1>5
<1> QED BY <1>6 DEF Run, q

(* What a fold asks of its recursive function, if step is all it does.     *)
Unfolds(g, step, base, seq) ==
  \A s \in SUBSET (1..Len(seq)) :
    g[s] = IF s = {} THEN base ELSE step[<<g[s \ {Max(s)}], seq[Max(s)]>>]

LEMMA UnfoldExists ==
  ASSUME NEW V, NEW C, NEW step, Automaton(step, V, C), NEW base \in V, NEW seq \in Seq(C)
  PROVE  \E g \in [SUBSET (1..Len(seq)) -> V] : Unfolds(g, step, base, seq)
<1> DEFINE n == Len(seq)
           at == [q \in (1..n) \X V |-> step[<<q[2], seq[q[1]]>>]]
<1>1. n \in Nat /\ \A k \in 1..n : seq[k] \in C
  OBVIOUS
<1>2. at \in [(1..n) \X V -> V]
  BY <1>1 DEF Automaton
<1>3. \A k \in 1..n, v \in V : at[<<k, v>>] = step[<<v, seq[k]>>]
  OBVIOUS
<1> HIDE DEF at
<1>4. PICK g \in [SUBSET (1..n) -> V] : Iterates(g, n, base, at)
  BY <1>1, <1>2, FoldExists
<1>5. ASSUME NEW s \in SUBSET (1..n)
      PROVE  g[s] = IF s = {} THEN base ELSE step[<<g[s \ {Max(s)}], seq[Max(s)]>>]
  <2>1. CASE s # {}
    <3>1. Max(s) \in 1..n /\ g[s \ {Max(s)}] \in V
      BY <1>1, <2>1, MaxIs
    <3> QED BY <1>3, <1>4, <2>1, <3>1 DEF Iterates
  <2> QED BY <1>4, <2>1 DEF Iterates
<1> QED BY <1>5 DEF Unfolds

(* A function gives the run, prefix by prefix, if it does what step does   *)
(* as long as it has a value in V.                                         *)
Follows(h, V, step, base, seq) ==
  /\ h[{}] = base
  /\ \A s \in SUBSET (1..Len(seq)) :
       (s # {} /\ h[s \ {Max(s)}] \in V) => h[s] = step[<<h[s \ {Max(s)}], seq[Max(s)]>>]

LEMMA UnfoldRuns ==
  ASSUME NEW V, NEW C, NEW step, Automaton(step, V, C), NEW base \in V, NEW seq \in Seq(C),
         NEW h, Follows(h, V, step, base, seq)
  PROVE  h[1..Len(seq)] = Run(step, base, seq) /\ Run(step, base, seq) \in V
<1> DEFINE n == Len(seq)
           p == [k \in 0..n |-> h[1..k]]
           T == {k \in Nat : k <= n =>
                   h[1..k] \in V /\ (k # 0 => p[k] = step[<<p[k - 1], seq[k]>>])}
<1>1. n \in Nat /\ \A k \in 1..n : seq[k] \in C
  OBVIOUS
<1>2. h[1..0] = base
  <2>1. 1..0 = {}
    OBVIOUS
  <2> QED BY <2>1 DEF Follows
<1>3. 0 \in T
  BY <1>2
<1>4. ASSUME NEW k \in T PROVE k + 1 \in T
  <2> SUFFICES ASSUME k + 1 <= n
               PROVE  h[1..(k + 1)] \in V /\ p[k + 1] = step[<<p[k], seq[k + 1]>>]
    <3>1. (k + 1) - 1 = k /\ k + 1 \in Nat
      OBVIOUS
    <3> HIDE DEF p
    <3> QED BY <3>1
  <2>1. k \in Nat /\ k + 1 \in 1..n /\ (k + 1) - 1 = k /\ h[1..k] \in V /\ k + 1 # 0
    BY <1>1
  <2>2. /\ 1..(k + 1) \in SUBSET (1..n) /\ 1..(k + 1) # {}
        /\ Max(1..(k + 1)) = k + 1 /\ 1..(k + 1) \ {k + 1} = 1..k
    <3>1. k + 1 \in Nat /\ k + 1 # 0
      BY <2>1
    <3>2. 1..(k + 1) \in SUBSET (1..n)
      BY <1>1, <2>1
    <3> QED BY <2>1, <3>1, <3>2, Interval
  <2>3. h[1..(k + 1)] = step[<<h[1..k], seq[k + 1]>>]
    BY <2>1, <2>2 DEF Follows
  <2>4. h[1..(k + 1)] \in V
    BY <1>1, <2>1, <2>3 DEF Automaton
  <2>5. p[k + 1] = h[1..(k + 1)] /\ p[k] = h[1..k]
    BY <1>1, <2>1
  <2> QED BY <2>1, <2>3, <2>4, <2>5
<1>5. T = Nat
  <2>1. T \subseteq Nat
    OBVIOUS
  <2> HIDE DEF T
  <2> QED BY <1>3, <1>4, <2>1, Induction
<1>6. ASSUME NEW k \in 0..n PROVE h[1..k] \in V /\ (k # 0 => p[k] = step[<<p[k - 1], seq[k]>>])
  <2>1. k \in T /\ k <= n
    <3> HIDE DEF T
    <3> QED BY <1>1, <1>5
  <2> QED BY <2>1
<1>7. p[0] = base /\ p[n] = h[1..n]
  BY <1>1, <1>2
<1> HIDE DEF p, T
<1>8. IsRun(p, step, base, seq)
  <2>1. ASSUME NEW k \in 1..n PROVE p[k] = step[<<p[k - 1], seq[k]>>]
    <3>1. k \in 0..n /\ k # 0
      OBVIOUS
    <3> QED BY <1>6, <3>1
  <2> QED BY <1>7, <2>1 DEF IsRun
<1>9. h[1..n] \in V
  <2>1. n \in 0..n
    BY <1>1
  <2> QED BY <1>6, <2>1
<1>10. Run(step, base, seq) = p[n]
  BY <1>8, RunIs
<1> QED BY <1>7, <1>9, <1>10

LEMMA RunExists ==
  ASSUME NEW V, NEW C, NEW step, Automaton(step, V, C), NEW base \in V, NEW seq \in Seq(C)
  PROVE  \E p \in [0..Len(seq) -> V] : IsRun(p, step, base, seq)
<1> DEFINE n == Len(seq)
<1>1. PICK g \in [SUBSET (1..n) -> V] : Unfolds(g, step, base, seq)
  BY UnfoldExists
<1> DEFINE p == [k \in 0..n |-> g[1..k]]
<1>2. n \in Nat
  OBVIOUS
<1>3. p \in [0..n -> V]
  <2>1. \A k \in 0..n : 1..k \in SUBSET (1..n)
    BY <1>2
  <2> QED BY <2>1
<1>4. p[0] = base
  <2>1. 1..0 = {} /\ 1..0 \in SUBSET (1..n) /\ 0 \in 0..n
    BY <1>2
  <2> QED BY <1>1, <2>1 DEF Unfolds
<1>5. ASSUME NEW k \in 1..n PROVE p[k] = step[<<p[k - 1], seq[k]>>]
  <2>1. /\ 1..k \in SUBSET (1..n) /\ 1..k # {}
        /\ Max(1..k) = k /\ 1..k \ {k} = 1..(k - 1) /\ k \in 0..n /\ k - 1 \in 0..n
    <3>1. k \in Nat /\ k # 0 /\ k \in 0..n /\ k - 1 \in 0..n /\ 1..k \in SUBSET (1..n)
      BY <1>2
    <3> QED BY <3>1, Interval
  <2>2. p[k] = g[1..k] /\ p[k - 1] = g[1..(k - 1)]
    BY <2>1
  <2> HIDE DEF p
  <2> QED BY <1>1, <2>1, <2>2 DEF Unfolds
<1> HIDE DEF p
<1> QED BY <1>3, <1>4, <1>5 DEF IsRun

(* Where a run ends, and where it ends if it goes on. *)
LEMMA RunStays ==
  ASSUME NEW V, NEW C, NEW step, Automaton(step, V, C), NEW base \in V, NEW seq \in Seq(C)
  PROVE  Run(step, base, seq) \in V
<1>1. PICK p \in [0..Len(seq) -> V] : IsRun(p, step, base, seq)
  BY RunExists
<1>2. Len(seq) \in 0..Len(seq)
  OBVIOUS
<1> QED BY <1>1, <1>2, RunIs

LEMMA RunOfNothing ==
  ASSUME NEW V, NEW C, NEW step, Automaton(step, V, C), NEW base \in V
  PROVE  Run(step, base, <<>>) = base
<1> DEFINE empty == <<>>
<1>1. empty \in Seq(C) /\ Len(empty) = 0
  OBVIOUS
<1> HIDE DEF empty
<1>2. PICK p \in [0..Len(empty) -> V] : IsRun(p, step, base, empty)
  BY <1>1, RunExists
<1>3. Run(step, base, empty) = p[0]
  BY <1>1, <1>2, RunIs
<1> QED BY <1>2, <1>3 DEF IsRun, empty

LEMMA RunOfOne ==
  ASSUME NEW V, NEW C, NEW step, Automaton(step, V, C), NEW base \in V, NEW c \in C
  PROVE  Run(step, base, <<c>>) = step[<<base, c>>]
<1> DEFINE one == <<c>>
<1>1. one \in Seq(C) /\ Len(one) = 1 /\ one[1] = c
  OBVIOUS
<1> HIDE DEF one
<1>2. PICK p \in [0..Len(one) -> V] : IsRun(p, step, base, one)
  BY <1>1, RunExists
<1>3. Run(step, base, one) = p[1]
  BY <1>1, <1>2, RunIs
<1>4. p[0] = base /\ p[1] = step[<<p[0], one[1]>>]
  <2>1. 1 \in 1..Len(one) /\ 1 - 1 = 0
    BY <1>1
  <2> QED BY <1>2, <2>1 DEF IsRun
<1> QED BY <1>1, <1>3, <1>4 DEF one

LEMMA RunJoins ==
  ASSUME NEW V, NEW C, NEW step, Automaton(step, V, C), NEW base \in V, NEW a \in Seq(C), NEW b \in Seq(C)
  PROVE  Run(step, base, a \o b) = Run(step, Run(step, base, a), b)
<1> DEFINE n == Len(a)
           m == Len(b)
           c == a \o b
<1>1. PICK p \in [0..n -> V] : IsRun(p, step, base, a)
  BY RunExists
<1>2. n \in Nat /\ m \in Nat /\ p[n] \in V
  OBVIOUS
<1>3. PICK q \in [0..m -> V] : IsRun(q, step, p[n], b)
  BY <1>2, RunExists
<1>4. /\ c \in Seq(C) /\ Len(c) = n + m
      /\ \A k \in 1..n : c[k] = a[k]
      /\ \A k \in 1..m : c[n + k] = b[k]
  OBVIOUS
<1> DEFINE r == [k \in 0..(n + m) |-> IF k <= n THEN p[k] ELSE q[k - n]]
<1> HIDE DEF n, m, c
<1>5. /\ \A k \in 0..n : r[k] = p[k]
      /\ \A k \in 1..m : r[n + k] = q[k]
  <2>1. ASSUME NEW k \in 0..n PROVE r[k] = p[k]
    BY <1>2
  <2>2. ASSUME NEW k \in 1..m PROVE r[n + k] = q[k]
    <3>1. n + k \in 0..(n + m) /\ ~(n + k <= n) /\ (n + k) - n = k
      BY <1>2
    <3> QED BY <3>1
  <2> QED BY <2>1, <2>2
<1>6. q[0] = p[n] /\ r[n] = q[0]
  <2>1. n \in 0..n
    BY <1>2
  <2> QED BY <1>3, <1>5, <2>1 DEF IsRun
<1> HIDE DEF r
<1>7. IsRun(r, step, base, c)
  <2>1. r[0] = base
    <3>1. 0 \in 0..n
      BY <1>2
    <3> QED BY <1>1, <1>5, <3>1 DEF IsRun
  <2>2. ASSUME NEW k \in 1..Len(c) PROVE r[k] = step[<<r[k - 1], c[k]>>]
    <3>1. CASE k <= n
      <4>1. k \in 1..n /\ k \in 0..n /\ k - 1 \in 0..n
        BY <1>2, <3>1
      <4>2. p[k] = step[<<p[k - 1], a[k]>>]
        BY <1>1, <4>1 DEF IsRun, n
      <4> QED BY <1>4, <1>5, <4>1, <4>2
    <3>2. CASE ~(k <= n)
      <4> DEFINE j == k - n
      <4>1. j \in 1..m /\ k = n + j /\ k - 1 = n + (j - 1)
        BY <1>2, <1>4, <3>2
      <4> HIDE DEF j
      <4>2. q[j] = step[<<q[j - 1], b[j]>>]
        BY <1>3, <4>1 DEF IsRun, m
      <4>3. r[n + (j - 1)] = q[j - 1]
        <5>1. CASE j = 1
          <6>1. n + (j - 1) = n /\ j - 1 = 0
            BY <1>2, <5>1
          <6> QED BY <1>6, <6>1
        <5>2. CASE j # 1
          <6>1. j - 1 \in 1..m
            BY <1>2, <4>1, <5>2
          <6> QED BY <1>5, <6>1
        <5> QED BY <5>1, <5>2
      <4>4. r[n + j] = q[j] /\ c[n + j] = b[j]
        BY <1>4, <1>5, <4>1
      <4> QED BY <4>1, <4>2, <4>3, <4>4
    <3> QED BY <3>1, <3>2
  <2> QED BY <2>1, <2>2 DEF IsRun
<1>8. Run(step, base, c) = r[n + m]
  BY <1>4, <1>7, RunIs
<1>9. r[n + m] = q[m]
  <2>1. CASE m = 0
    <3>1. n + m = n
      BY <1>2, <2>1
    <3> QED BY <1>6, <2>1, <3>1
  <2>2. CASE m # 0
    <3>1. m \in 1..m
      BY <1>2, <2>2
    <3> QED BY <1>5, <3>1
  <2> QED BY <2>1, <2>2
<1>10. Run(step, base, a) = p[n] /\ Run(step, p[n], b) = q[m]
  BY <1>1, <1>3, RunIs DEF n, m
<1> QED BY <1>8, <1>9, <1>10 DEF c

(* A flattened sequence grows by one of its sequences at a time. *)
LEMMA FlattenIs ==
  ASSUME NEW S, NEW n \in Nat, NEW seqs \in [1..n -> Seq(S)]
  PROVE  \E p \in [0..n -> Seq(S)] :
           /\ p[0] = <<>> /\ \A k \in 1..n : p[k] = p[k - 1] \o seqs[k]
           /\ Walk!FlattenSeq(seqs) = p[n]
<1> DEFINE V == Seq(S)
           step == [q \in V \X V |-> q[1] \o q[2]]
<1>1. seqs \in Seq(V) /\ Len(seqs) = n
  OBVIOUS
<1>2. Automaton(step, V, V) /\ <<>> \in V
  BY DEF Automaton
<1>3. \A a, b \in V : step[<<a, b>>] = a \o b
  OBVIOUS
<1> HIDE DEF step, V
<1>4. PICK p \in [0..n -> V] : IsRun(p, step, <<>>, seqs)
  BY <1>1, <1>2, RunExists
<1>5. p[0] = <<>> /\ \A k \in 1..n : p[k] = p[k - 1] \o seqs[k]
  <2>1. ASSUME NEW k \in 1..n PROVE p[k] = p[k - 1] \o seqs[k]
    <3>1. p[k - 1] \in V /\ seqs[k] \in V /\ p[k] = step[<<p[k - 1], seqs[k]>>]
      BY <1>1, <1>4 DEF IsRun
    <3> QED BY <1>3, <3>1
  <2> QED BY <1>4, <2>1 DEF IsRun
<1>6. Walk!FlattenSeq(seqs) = p[n]
  <2>1. CASE n = 0
    <3>1. seqs = <<>>
      BY <1>1, <2>1
    <3> QED BY <1>1, <1>5, <2>1, <3>1 DEF Walk!FlattenSeq
  <2>2. CASE n # 0
    <3> DEFINE F(h) == h = [i \in 1..n |-> IF i = 1 THEN seqs[i] ELSE h[i - 1] \o seqs[i]]
               H == CHOOSE h : F(h)
               g == [i \in 1..n |-> p[i]]
    <3>1. Walk!FlattenSeq(seqs) = H[n]
      BY <1>1, <2>2 DEF Walk!FlattenSeq
    <3>2. p[1] = seqs[1]
      <4>1. 1 \in 1..n /\ 1 - 1 = 0 /\ seqs[1] \in V
        BY <1>1, <2>2
      <4>2. <<>> \o seqs[1] = seqs[1]
        BY <4>1 DEF V
      <4> QED BY <1>5, <4>1, <4>2
    <3>3. F(g)
      <4>1. ASSUME NEW i \in 1..n PROVE g[i] = IF i = 1 THEN seqs[i] ELSE g[i - 1] \o seqs[i]
        <5>1. CASE i = 1
          BY <3>2, <5>1
        <5>2. CASE i # 1
          <6>1. i - 1 \in 1..n
            BY <5>2
          <6> QED BY <1>5, <5>2, <6>1
        <5> QED BY <5>1, <5>2
      <4> QED BY <4>1
    <3>4. F(H)
      <4> HIDE DEF F, g
      <4> QED BY <3>3
    <3> HIDE DEF H
    <3>5. \A i \in 1..n : H[i] = IF i = 1 THEN seqs[i] ELSE H[i - 1] \o seqs[i]
      BY <3>4
    <3> DEFINE T == {k \in Nat : k + 1 <= n => H[k + 1] = p[k + 1]}
    <3>6. 0 \in T
      BY <2>2, <3>2, <3>5
    <3>7. ASSUME NEW k \in T PROVE k + 1 \in T
      <4>1. CASE (k + 1) + 1 <= n
        <5>0. k \in Nat /\ k + 1 <= n
          BY <4>1
        <5>1. /\ H[k + 1] = p[k + 1] /\ k + 2 \in 1..n /\ k + 2 # 1
              /\ (k + 2) - 1 = k + 1 /\ (k + 1) + 1 = k + 2 /\ k + 1 \in Nat
          BY <4>1, <5>0
        <5>2. H[k + 2] = H[k + 1] \o seqs[k + 2]
          BY <3>5, <5>1
        <5>3. p[k + 2] = p[k + 1] \o seqs[k + 2]
          BY <1>5, <5>1
        <5>4. H[(k + 1) + 1] = p[(k + 1) + 1] /\ k + 1 \in Nat
          <6> HIDE DEF H, T
          <6> QED BY <5>1, <5>2, <5>3
        <5> QED BY <5>4
      <4> QED BY <4>1
    <3>8. T = Nat
      <4>1. T \subseteq Nat
        OBVIOUS
      <4> HIDE DEF T
      <4> QED BY <3>6, <3>7, <4>1, Induction
    <3>9. n - 1 \in T /\ (n - 1) + 1 = n
      <4> HIDE DEF T
      <4> QED BY <2>2, <3>8
    <3>10. H[n] = p[n]
      BY <3>9
    <3> HIDE DEF T
    <3> QED BY <3>1, <3>10
  <2> QED BY <2>1, <2>2
<1> QED BY <1>4, <1>5, <1>6 DEF V

(* The states between the sequences of a list. *)
Passes(s, V, step, seqs) ==
  /\ s \in [0..Len(seqs) -> V]
  /\ \A k \in 1..Len(seqs) : Run(step, s[k - 1], seqs[k]) = s[k]

(* A run over a flattened sequence is a run for each of its sequences.     *)
LEMMA RunFlattens ==
  ASSUME NEW V, NEW C, NEW step, Automaton(step, V, C), NEW seqs \in Seq(Seq(C)),
         NEW s, Passes(s, V, step, seqs)
  PROVE  Run(step, s[0], Walk!FlattenSeq(seqs)) = s[Len(seqs)]
<1> DEFINE n == Len(seqs)
<1>0. /\ n \in Nat /\ seqs \in [1..n -> Seq(C)] /\ s \in [0..n -> V]
      /\ \A k \in 1..n : Run(step, s[k - 1], seqs[k]) = s[k]
  BY DEF Passes
<1> HIDE DEF n
<1>1. PICK p \in [0..n -> Seq(C)] :
        /\ p[0] = <<>> /\ \A k \in 1..n : p[k] = p[k - 1] \o seqs[k]
        /\ Walk!FlattenSeq(seqs) = p[n]
  BY <1>0, FlattenIs
<1> DEFINE T == {k \in Nat : k <= n => Run(step, s[0], p[k]) = s[k]}
<1>2. 0 \in T
  <2>1. s[0] \in V
    BY <1>0
  <2>2. Run(step, s[0], <<>>) = s[0]
    BY <2>1, RunOfNothing
  <2> QED BY <1>1, <2>2
<1>3. ASSUME NEW k \in T PROVE k + 1 \in T
  <2>1. CASE k + 1 <= n
    <3>1. /\ k \in Nat /\ k + 1 \in 1..n /\ (k + 1) - 1 = k /\ k \in 0..n /\ s[0] \in V
          /\ Run(step, s[0], p[k]) = s[k]
      BY <1>0, <2>1
    <3>2. p[k] \in Seq(C) /\ seqs[k + 1] \in Seq(C) /\ p[k + 1] = p[k] \o seqs[k + 1]
      BY <1>0, <1>1, <3>1
    <3>3. Run(step, s[0], p[k + 1]) = Run(step, s[k], seqs[k + 1])
      <4>1. Run(step, s[0], p[k] \o seqs[k + 1]) = Run(step, Run(step, s[0], p[k]), seqs[k + 1])
        BY <3>1, <3>2, RunJoins
      <4> QED BY <3>1, <3>2, <4>1
    <3>4. Run(step, s[k], seqs[k + 1]) = s[k + 1]
      BY <1>0, <3>1
    <3> QED BY <3>1, <3>3, <3>4
  <2> QED BY <2>1
<1>4. T = Nat
  <2>1. T \subseteq Nat
    OBVIOUS
  <2> HIDE DEF T
  <2> QED BY <1>2, <1>3, <2>1, Induction
<1>5. n \in T
  <2> HIDE DEF T
  <2> QED BY <1>0, <1>4
<1>6. Run(step, s[0], p[n]) = s[n]
  BY <1>0, <1>5
<1> QED BY <1>1, <1>6 DEF n

(* A flattened sequence starts with its first sequence. *)
LEMMA FlattenStarts ==
  ASSUME NEW S, NEW n \in Nat, n # 0, NEW seqs \in [1..n -> Seq(S)]
  PROVE  /\ Walk!FlattenSeq(seqs) \in Seq(S)
         /\ Len(seqs[1]) <= Len(Walk!FlattenSeq(seqs))
         /\ \A j \in 1..Len(seqs[1]) : Walk!FlattenSeq(seqs)[j] = seqs[1][j]
<1>1. PICK p \in [0..n -> Seq(S)] :
        /\ p[0] = <<>> /\ \A k \in 1..n : p[k] = p[k - 1] \o seqs[k]
        /\ Walk!FlattenSeq(seqs) = p[n]
  BY FlattenIs
<1> DEFINE Starts(text) == /\ Len(seqs[1]) <= Len(text)
                           /\ \A j \in 1..Len(seqs[1]) : text[j] = seqs[1][j]
           T == {k \in Nat : k + 1 <= n => Starts(p[k + 1])}
<1>2. 0 \in T
  <2>1. 1 \in 1..n /\ 1 - 1 = 0 /\ seqs[1] \in Seq(S)
    OBVIOUS
  <2>2. <<>> \o seqs[1] = seqs[1]
    BY <2>1
  <2>3. p[1] = seqs[1]
    BY <1>1, <2>1, <2>2
  <2>4. Starts(p[0 + 1])
    BY <2>1, <2>3
  <2> QED BY <2>4
<1>3. ASSUME NEW k \in T PROVE k + 1 \in T
  <2>1. CASE (k + 1) + 1 <= n
    <3>1. /\ k \in Nat /\ k + 2 \in 1..n /\ (k + 2) - 1 = k + 1 /\ k + 1 \in 0..n
          /\ (k + 1) + 1 = k + 2 /\ Starts(p[k + 1])
      BY <2>1
    <3>2. p[k + 1] \in Seq(S) /\ seqs[k + 2] \in Seq(S) /\ seqs[1] \in Seq(S)
      BY <3>1
    <3>3. p[k + 2] = p[k + 1] \o seqs[k + 2]
      BY <1>1, <3>1
    <3> DEFINE a == p[k + 1]
               b == seqs[k + 2]
               c == seqs[1]
    <3>4. a \in Seq(S) /\ b \in Seq(S) /\ c \in Seq(S) /\ Starts(a)
      BY <3>1, <3>2
    <3> HIDE DEF a, b
    <3>5. Starts(a \o b)
      <4>1. Len(a \o b) = Len(a) + Len(b) /\ \A j \in 1..Len(a) : (a \o b)[j] = a[j]
        BY <3>4
      <4>2. Len(a) \in Nat /\ Len(b) \in Nat /\ Len(c) \in Nat /\ Len(c) <= Len(a)
        BY <3>4
      <4> QED BY <3>4, <4>1, <4>2
    <3>6. Starts(p[k + 2])
      BY <3>3, <3>5 DEF a, b
    <3> HIDE DEF Starts
    <3> QED BY <3>1, <3>6
  <2> HIDE DEF Starts
  <2> QED BY <2>1
<1>4. T = Nat
  <2>1. T \subseteq Nat
    OBVIOUS
  <2> HIDE DEF T
  <2> QED BY <1>2, <1>3, <2>1, Induction
<1>5. n - 1 \in T /\ (n - 1) + 1 = n
  <2> HIDE DEF T
  <2> QED BY <1>4
<1>6. Starts(p[n])
  <2> HIDE DEF Starts
  <2> QED BY <1>5
<1>7. p[n] \in Seq(S)
  OBVIOUS
<1> QED BY <1>1, <1>6, <1>7

-----------------------------------------------------------------------------
(* What the shell reads                                                    *)

(* The characters that the three languages are written with. *)
LEMMA Letters ==
  /\ "single" \in Alphabet /\ "double" \in Alphabet /\ "backslash" \in Alphabet
  /\ " " \in Alphabet /\ "%" \in Alphabet /\ "-" \in Alphabet
  /\ "i" \in Alphabet /\ "c" \in Alphabet /\ "o" \in Alphabet /\ "n" \in Alphabet
BY AuthorAssumption DEF Walk!Reserved

Text == Seq(Alphabet)
ShellState ==
  [words : Seq(Text), value : Text, at : {"between", "word", "quote", "escape", "bad"}]
ShellReads == [q \in ShellState \X Alphabet |-> Walk!ShellStep(q[1], q[2])]

LEMMA TextGrows ==
  /\ <<>> \in Text /\ \A value \in Text, c \in Alphabet : Append(value, c) \in Text
  /\ \A c \in Alphabet : <<c>> \in Text
BY DEF Text

ShellAt(words, value, at) == [words |-> words, value |-> value, at |-> at]

LEMMA ShellAtIs ==
  ASSUME NEW words \in Seq(Text), NEW value \in Text,
         NEW at \in {"between", "word", "quote", "escape", "bad"}
  PROVE  ShellAt(words, value, at) \in ShellState
BY DEF ShellAt, ShellState

LEMMA ShellStays == \A s \in ShellState, c \in Alphabet : Walk!ShellStep(s, c) \in ShellState
<1> SUFFICES ASSUME NEW s \in ShellState, NEW c \in Alphabet
             PROVE  Walk!ShellStep(s, c) \in ShellState
  OBVIOUS
<1>1. /\ s.words \in Seq(Text) /\ s.value \in Text
      /\ s.at \in {"between", "word", "quote", "escape", "bad"}
  BY DEF ShellState
<1>2. /\ Append(s.value, c) \in Text /\ Append(s.words, s.value) \in Seq(Text)
      /\ <<>> \in Text
  <2>1. Append(s.value, c) \in Text /\ <<>> \in Text
    BY <1>1, TextGrows
  <2> QED BY <1>1, <2>1
<1> HIDE DEF Text
<1>3. s = ShellAt(s.words, s.value, s.at)
  BY DEF ShellState, ShellAt
<1> DEFINE w == s.words
           v == s.value
           longer == Append(v, c)
           more == Append(w, v)
<1>4. Walk!ShellStep(s, c) \in
        {s, ShellAt(w, longer, "quote"), ShellAt(w, v, "word"), ShellAt(w, longer, "word"),
         ShellAt(w, v, "quote"), ShellAt(w, v, "escape"), ShellAt(w, v, "bad"),
         ShellAt(more, <<>>, "between")}
  BY <1>1, <1>3 DEF Walk!ShellStep, Walk!Push, ShellAt
<1>5. w \in Seq(Text) /\ v \in Text /\ longer \in Text /\ more \in Seq(Text)
  BY <1>1, <1>2
<1> HIDE DEF w, v, longer, more
<1>6. /\ ShellAt(w, longer, "quote") \in ShellState /\ ShellAt(w, v, "word") \in ShellState
      /\ ShellAt(w, longer, "word") \in ShellState /\ ShellAt(w, v, "quote") \in ShellState
      /\ ShellAt(w, v, "escape") \in ShellState /\ ShellAt(w, v, "bad") \in ShellState
      /\ ShellAt(more, <<>>, "between") \in ShellState
  BY <1>2, <1>5, ShellAtIs
<1> QED BY <1>4, <1>6

LEMMA ShellIsAutomaton == Automaton(ShellReads, ShellState, Alphabet)
BY ShellStays DEF Automaton, ShellReads

LEMMA ShellReadsOne ==
  ASSUME NEW s \in ShellState, NEW c \in Alphabet
  PROVE  Run(ShellReads, s, <<c>>) = Walk!ShellStep(s, c)
<1>1. Run(ShellReads, s, <<c>>) = ShellReads[<<s, c>>]
  BY ShellIsAutomaton, RunOfOne
<1>2. ShellReads[<<s, c>>] = Walk!ShellStep(s, c)
  BY DEF ShellReads
<1> QED BY <1>1, <1>2

(* The fold of ShellWords is a run. *)
LEMMA ShellRuns ==
  ASSUME NEW base \in ShellState, NEW text \in Text
  PROVE  Walk!FoldLeft(Walk!ShellStep, base, text) = Run(ShellReads, base, text)
<1> DEFINE F(h) == h = [s \in SUBSET (DOMAIN text) |->
                          IF s = {} THEN base
                          ELSE Walk!ShellStep(h[s \ {Max(s)}], text[Max(s)])]
           H == CHOOSE h : F(h)
           n == Len(text)
<1>1. Walk!FoldLeft(Walk!ShellStep, base, text) = H[DOMAIN text]
  BY DEF Walk!FoldLeft, Walk!MapThenFoldSet, Walk!Max, Max
<1>2. n \in Nat /\ DOMAIN text = 1..n /\ \A k \in 1..n : text[k] \in Alphabet
  BY DEF Text
<1>3. \A s \in SUBSET (1..n) : s # {} => text[Max(s)] \in Alphabet
  BY <1>2, MaxIs
<1>4. \A v \in ShellState, c \in Alphabet : ShellReads[<<v, c>>] = Walk!ShellStep(v, c)
  BY DEF ShellReads
<1>5. PICK g \in [SUBSET (1..n) -> ShellState] : Unfolds(g, ShellReads, base, text)
  BY UnfoldExists, ShellIsAutomaton DEF Text
<1>6. \E h : F(h)
  <2>1. ASSUME NEW s \in SUBSET (1..n)
        PROVE  g[s] = IF s = {} THEN base ELSE Walk!ShellStep(g[s \ {Max(s)}], text[Max(s)])
    <3>1. s \ {Max(s)} \in SUBSET (1..n)
      OBVIOUS
    <3>2. g[s \ {Max(s)}] \in ShellState
      BY <3>1
    <3> QED BY <1>3, <1>4, <1>5, <3>2 DEF Unfolds
  <2>2. F(g)
    BY <1>2, <2>1
  <2> QED BY <2>2
<1>7. F(H)
  <2> HIDE DEF F
  <2> QED BY <1>6
<1> HIDE DEF H
<1>8. \A s \in SUBSET (1..n) :
        H[s] = IF s = {} THEN base ELSE Walk!ShellStep(H[s \ {Max(s)}], text[Max(s)])
  BY <1>2, <1>7
<1>9. H[{}] = base
  <2>1. {} \in SUBSET (1..n)
    OBVIOUS
  <2> QED BY <1>8, <2>1
<1>10. \A s \in SUBSET (1..n) :
         (s # {} /\ H[s \ {Max(s)}] \in ShellState) =>
           H[s] = ShellReads[<<H[s \ {Max(s)}], text[Max(s)]>>]
  BY <1>3, <1>4, <1>8
<1>11. H[1..n] = Run(ShellReads, base, text)
  <2>1. text \in Seq(Alphabet)
    BY DEF Text
  <2>2. Follows(H, ShellState, ShellReads, base, text)
    BY <1>9, <1>10 DEF Follows
  <2> HIDE DEF F
  <2> QED BY <2>1, <2>2, UnfoldRuns, ShellIsAutomaton
<1> QED BY <1>1, <1>2, <1>11

(* shell_join, with names for its parts.                                   *)
ShellChar(c) == IF c = "single" THEN <<"single", "backslash", "single", "single">> ELSE <<c>>
ShellQuoted(argument) ==
  <<"single">> \o Walk!FlattenSeq([i \in DOMAIN argument |-> ShellChar(argument[i])]) \o <<"single">>
ShellPart(argv, i) == (IF i = 1 THEN <<>> ELSE <<" ">>) \o ShellQuoted(argv[i])

LEMMA ShellParts ==
  ASSUME NEW argv
  PROVE  Walk!ShellJoin(argv) = Walk!FlattenSeq([i \in DOMAIN argv |-> ShellPart(argv, i)])
BY DEF Walk!ShellJoin, ShellPart, ShellQuoted, ShellChar

LEMMA EscapedQuote ==
  ASSUME NEW text, text = <<"single", "backslash", "single", "single">>
  PROVE  /\ text \in Text /\ Len(text) = 4
         /\ text[1] = "single" /\ text[2] = "backslash" /\ text[3] = "single" /\ text[4] = "single"
<1>1. "single" \in Alphabet /\ "backslash" \in Alphabet
  BY Letters
<1>2. text \in Seq(Alphabet)
  BY <1>1
<1> QED BY <1>2 DEF Text

(* In quotes, a character of an argument is read as itself. *)
LEMMA ShellReadsChar ==
  ASSUME NEW words \in Seq(Text), NEW value \in Text, NEW c \in Alphabet
  PROVE  Run(ShellReads, ShellAt(words, value, "quote"), ShellChar(c))
           = ShellAt(words, Append(value, c), "quote")
<1> DEFINE base == ShellAt(words, value, "quote")
           longer == Append(value, c)
<1>1. base \in ShellState /\ ShellAt(words, value, "word") \in ShellState
      /\ ShellAt(words, value, "escape") \in ShellState
      /\ longer \in Text /\ ShellAt(words, longer, "word") \in ShellState
  <2>1. longer \in Text
    BY TextGrows
  <2> HIDE DEF longer
  <2> QED BY <2>1, ShellAtIs
<1>2. \A v \in ShellState, d \in Alphabet : ShellReads[<<v, d>>] = Walk!ShellStep(v, d)
  BY DEF ShellReads
<1>3. CASE c # "single"
  <2>1. Run(ShellReads, base, <<c>>) = ShellReads[<<base, c>>]
    BY <1>1, ShellIsAutomaton, RunOfOne
  <2>2. Walk!ShellStep(base, c) = ShellAt(words, longer, "quote")
    BY <1>3 DEF Walk!ShellStep, Walk!Push, ShellAt
  <2> HIDE DEF base
  <2> QED BY <1>1, <1>2, <1>3, <2>1, <2>2 DEF ShellChar, base
<1>4. CASE c = "single"
  <2> DEFINE text == <<"single", "backslash", "single", "single">>
  <2>5. /\ text \in Text /\ Len(text) = 4
        /\ text[1] = "single" /\ text[2] = "backslash" /\ text[3] = "single" /\ text[4] = "single"
    BY EscapedQuote
  <2> HIDE DEF text
  <2>1. ShellReads[<<base, "single">>] = ShellAt(words, value, "word")
    <3>1. Walk!ShellStep(base, "single") = ShellAt(words, value, "word")
      BY DEF Walk!ShellStep, Walk!Push, ShellAt
    <3> HIDE DEF base
    <3> QED BY <1>1, <1>2, <3>1, Letters
  <2>2. ShellReads[<<ShellAt(words, value, "word"), "backslash">>] = ShellAt(words, value, "escape")
    <3>1. Walk!ShellStep(ShellAt(words, value, "word"), "backslash")
            = ShellAt(words, value, "escape")
      BY DEF Walk!ShellStep, Walk!Push, ShellAt
    <3> QED BY <1>1, <1>2, <3>1, Letters
  <2>3. ShellReads[<<ShellAt(words, value, "escape"), "single">>] = ShellAt(words, longer, "word")
    <3>1. Walk!ShellStep(ShellAt(words, value, "escape"), "single")
            = ShellAt(words, longer, "word")
      BY <1>4 DEF Walk!ShellStep, Walk!Push, ShellAt
    <3> HIDE DEF longer
    <3> QED BY <1>1, <1>2, <3>1, Letters
  <2>4. ShellReads[<<ShellAt(words, longer, "word"), "single">>] = ShellAt(words, longer, "quote")
    <3>1. Walk!ShellStep(ShellAt(words, longer, "word"), "single")
            = ShellAt(words, longer, "quote")
      BY DEF Walk!ShellStep, Walk!Push, ShellAt
    <3> HIDE DEF longer
    <3> QED BY <1>1, <1>2, <3>1, Letters
  <2> DEFINE p == [k \in 0..4 |-> CASE k = 0 -> base
                                    [] k = 1 -> ShellAt(words, value, "word")
                                    [] k = 2 -> ShellAt(words, value, "escape")
                                    [] k = 3 -> ShellAt(words, longer, "word")
                                    [] OTHER -> ShellAt(words, longer, "quote")]
  <2>6. p[0] = base /\ p[1] = ShellAt(words, value, "word") /\ p[2] = ShellAt(words, value, "escape")
        /\ p[3] = ShellAt(words, longer, "word") /\ p[4] = ShellAt(words, longer, "quote")
    <3> HIDE DEF base, longer
    <3> QED OBVIOUS
  <2> HIDE DEF p, base, longer
  <2>7. IsRun(p, ShellReads, base, text)
    <3>1. /\ p[1] = ShellReads[<<p[0], text[1]>>] /\ p[2] = ShellReads[<<p[1], text[2]>>]
          /\ p[3] = ShellReads[<<p[2], text[3]>>] /\ p[4] = ShellReads[<<p[3], text[4]>>]
      BY <2>1, <2>2, <2>3, <2>4, <2>5, <2>6
    <3>2. \A k \in 1..4 : p[k] = ShellReads[<<p[k - 1], text[k]>>]
      <4> SUFFICES ASSUME NEW k \in 1..4 PROVE p[k] = ShellReads[<<p[k - 1], text[k]>>]
        OBVIOUS
      <4>1. /\ k = 1 \/ k = 2 \/ k = 3 \/ k = 4
            /\ 1 - 1 = 0 /\ 2 - 1 = 1 /\ 3 - 1 = 2 /\ 4 - 1 = 3
        OBVIOUS
      <4> QED BY <3>1, <4>1
    <3> QED BY <2>5, <2>6, <3>2 DEF IsRun
  <2>8. Run(ShellReads, base, text) = p[4]
    BY <2>5, <2>7, RunIs DEF Text
  <2> QED BY <1>4, <2>6, <2>8 DEF ShellChar, base, text, longer
<1> QED BY <1>3, <1>4

LEMMA PrefixesAre ==
  ASSUME NEW S, NEW seq \in Seq(S)
  PROVE  /\ \A k \in 0..Len(seq) : SubSeq(seq, 1, k) \in Seq(S)
         /\ SubSeq(seq, 1, 0) = <<>> /\ SubSeq(seq, 1, Len(seq)) = seq
         /\ \A k \in 1..Len(seq) : Append(SubSeq(seq, 1, k - 1), seq[k]) = SubSeq(seq, 1, k)
<1>1. \A k \in 0..Len(seq) : SubSeq(seq, 1, k) \in Seq(S) /\ Len(SubSeq(seq, 1, k)) = k
                             /\ \A i \in 1..k : SubSeq(seq, 1, k)[i] = seq[i]
  OBVIOUS
<1>2. SubSeq(seq, 1, 0) = <<>>
  OBVIOUS
<1>3. SubSeq(seq, 1, Len(seq)) = seq
  OBVIOUS
<1>4. ASSUME NEW k \in 1..Len(seq)
      PROVE  Append(SubSeq(seq, 1, k - 1), seq[k]) = SubSeq(seq, 1, k)
  <2> DEFINE a == SubSeq(seq, 1, k - 1)
             b == SubSeq(seq, 1, k)
  <2>1. /\ a \in Seq(S) /\ Len(a) = k - 1 /\ b \in Seq(S) /\ Len(b) = k
        /\ \A i \in 1..(k - 1) : a[i] = seq[i]
        /\ \A i \in 1..k : b[i] = seq[i]
        /\ seq[k] \in S
    BY <1>1
  <2> HIDE DEF a, b
  <2>2. Append(a, seq[k]) \in Seq(S) /\ Len(Append(a, seq[k])) = k
    BY <2>1
  <2>3. ASSUME NEW i \in 1..k PROVE Append(a, seq[k])[i] = b[i]
    BY <2>1
  <2>4. Append(a, seq[k]) = b
    BY <2>1, <2>2, <2>3
  <2> QED BY <2>4 DEF a, b
<1> QED BY <1>1, <1>2, <1>3, <1>4

LEMMA ShellCharIsText == \A c \in Alphabet : ShellChar(c) \in Text
<1> SUFFICES ASSUME NEW c \in Alphabet PROVE ShellChar(c) \in Text
  OBVIOUS
<1>1. <<"single", "backslash", "single", "single">> \in Text
  BY EscapedQuote
<1> HIDE DEF Text
<1>2. <<c>> \in Text
  BY TextGrows
<1> QED BY <1>1, <1>2, Zenon DEF ShellChar

(* The quoted characters of an argument are text, and read as they are.    *)
LEMMA ShellReadsChars ==
  ASSUME NEW words \in Seq(Text), NEW argument \in Text, NEW inside,
         inside = Walk!FlattenSeq([i \in DOMAIN argument |-> ShellChar(argument[i])])
  PROVE  /\ inside \in Text
         /\ Run(ShellReads, ShellAt(words, <<>>, "quote"), inside)
              = ShellAt(words, argument, "quote")
<1> DEFINE n == Len(argument)
           seqs == [i \in 1..n |-> ShellChar(argument[i])]
           s == [k \in 0..n |-> ShellAt(words, SubSeq(argument, 1, k), "quote")]
<1>1. n \in Nat /\ DOMAIN argument = 1..n /\ \A i \in 1..n : argument[i] \in Alphabet
  BY DEF Text
<1>2. seqs \in [1..n -> Text] /\ \A i \in 1..n : seqs[i] = ShellChar(argument[i])
  BY <1>1, ShellCharIsText
<1>3. inside = Walk!FlattenSeq(seqs)
  BY <1>1
<1> HIDE DEF seqs
<1>4. \A k \in 0..n : SubSeq(argument, 1, k) \in Text
  BY PrefixesAre DEF Text
<1>5. s \in [0..n -> ShellState] /\ \A k \in 0..n : s[k] = ShellAt(words, SubSeq(argument, 1, k), "quote")
  <2>1. \A k \in 0..n : ShellAt(words, SubSeq(argument, 1, k), "quote") \in ShellState
    BY <1>4, ShellAtIs
  <2> QED BY <2>1
<1> HIDE DEF s
<1>6. ASSUME NEW k \in 1..n PROVE Run(ShellReads, s[k - 1], seqs[k]) = s[k]
  <2> DEFINE v == SubSeq(argument, 1, k - 1)
  <2>1. k - 1 \in 0..n /\ k \in 0..n
    BY <1>1
  <2>2. s[k - 1] = ShellAt(words, v, "quote") /\ v \in Text
    BY <1>4, <1>5, <2>1
  <2>3. Append(v, argument[k]) = SubSeq(argument, 1, k)
    BY PrefixesAre DEF Text
  <2> HIDE DEF v
  <2>4. Run(ShellReads, ShellAt(words, v, "quote"), ShellChar(argument[k]))
          = ShellAt(words, Append(v, argument[k]), "quote")
    BY <1>1, <2>2, ShellReadsChar
  <2> QED BY <1>2, <1>5, <2>1, <2>2, <2>3, <2>4
<1>7. inside \in Text
  <2>1. PICK p \in [0..n -> Text] : Walk!FlattenSeq(seqs) = p[n]
    <3>1. \E p \in [0..n -> Text] :
            /\ p[0] = <<>> /\ \A k \in 1..n : p[k] = p[k - 1] \o seqs[k]
            /\ Walk!FlattenSeq(seqs) = p[n]
      <4> HIDE DEF n
      <4> QED BY <1>1, <1>2, FlattenIs DEF Text
    <3> QED BY <3>1
  <2> QED BY <1>1, <1>3, <2>1
<1>8. Run(ShellReads, s[0], inside) = s[n]
  <2>1. seqs \in Seq(Seq(Alphabet)) /\ Len(seqs) = n
    BY <1>1, <1>2 DEF Text
  <2>2. Passes(s, ShellState, ShellReads, seqs)
    BY <1>5, <1>6, <2>1 DEF Passes
  <2>3. Run(ShellReads, s[0], Walk!FlattenSeq(seqs)) = s[Len(seqs)]
    BY <2>1, <2>2, RunFlattens, ShellIsAutomaton
  <2> QED BY <1>3, <2>1, <2>3
<1>9. s[0] = ShellAt(words, <<>>, "quote") /\ s[n] = ShellAt(words, argument, "quote")
  <2>1. 0 \in 0..n /\ n \in 0..n
    BY <1>1
  <2>2. SubSeq(argument, 1, 0) = <<>> /\ SubSeq(argument, 1, n) = argument
    BY PrefixesAre DEF Text
  <2> QED BY <1>5, <2>1, <2>2
<1> QED BY <1>7, <1>8, <1>9

(* A quoted argument is read as one word. *)
LEMMA ShellReadsArgument ==
  ASSUME NEW words \in Seq(Text), NEW argument \in Text
  PROVE  /\ ShellQuoted(argument) \in Text
         /\ Run(ShellReads, ShellAt(words, <<>>, "between"), ShellQuoted(argument))
              = ShellAt(words, argument, "word")
<1> DEFINE inside == Walk!FlattenSeq([i \in DOMAIN argument |-> ShellChar(argument[i])])
           mark == <<"single">>
           base == ShellAt(words, <<>>, "between")
           open == ShellAt(words, <<>>, "quote")
           full == ShellAt(words, argument, "quote")
           done == ShellAt(words, argument, "word")
<1>1. /\ inside \in Text /\ Run(ShellReads, open, inside) = full
  BY ShellReadsChars
<1>2. ShellQuoted(argument) = (mark \o inside) \o mark
  BY DEF ShellQuoted
<1>3. mark \in Text /\ "single" \in Alphabet
  BY Letters, TextGrows
<1>4. <<>> \in Text
  BY TextGrows
<1>5. /\ base \in ShellState /\ open \in ShellState /\ full \in ShellState /\ done \in ShellState
  BY <1>4, ShellAtIs
<1>6. Walk!ShellStep(base, "single") = open /\ Walk!ShellStep(full, "single") = done
  BY DEF Walk!ShellStep, ShellAt
<1>7. \A v \in ShellState, d \in Alphabet : ShellReads[<<v, d>>] = Walk!ShellStep(v, d)
  BY DEF ShellReads
<1>8. Run(ShellReads, base, mark) = open /\ Run(ShellReads, full, mark) = done
  <2> HIDE DEF base, open, full, done
  <2>1. Run(ShellReads, base, <<"single">>) = ShellReads[<<base, "single">>]
    BY <1>3, <1>5, RunOfOne, ShellIsAutomaton
  <2>2. Run(ShellReads, full, <<"single">>) = ShellReads[<<full, "single">>]
    BY <1>3, <1>5, RunOfOne, ShellIsAutomaton
  <2> QED BY <1>3, <1>5, <1>6, <1>7, <2>1, <2>2
<1> HIDE DEF base, open, full, done, mark, inside
<1> DEFINE front == mark \o inside
<1>9. front \in Seq(Alphabet) /\ inside \in Seq(Alphabet) /\ mark \in Seq(Alphabet)
      /\ front \o mark \in Text
  BY <1>1, <1>3 DEF Text
<1>10. Run(ShellReads, base, front) = full
  <2>1. Run(ShellReads, base, mark \o inside)
          = Run(ShellReads, Run(ShellReads, base, mark), inside)
    BY <1>5, <1>9, RunJoins, ShellIsAutomaton
  <2> QED BY <1>1, <1>8, <2>1
<1>11. Run(ShellReads, base, front \o mark) = done
  <2> HIDE DEF front
  <2>1. Run(ShellReads, base, front \o mark)
          = Run(ShellReads, Run(ShellReads, base, front), mark)
    BY <1>5, <1>9, RunJoins, ShellIsAutomaton
  <2> QED BY <1>8, <1>10, <2>1
<1> QED BY <1>2, <1>9, <1>11 DEF base, done

(* The states of the shell between the arguments that are joined.          *)
Between(argv, k) ==
  IF k = 0 THEN ShellAt(<<>>, <<>>, "between")
  ELSE ShellAt(SubSeq(argv, 1, k - 1), argv[k], "word")

LEMMA BetweenIs ==
  ASSUME NEW argv \in Seq(Text), NEW k \in 0..Len(argv)
  PROVE  Between(argv, k) \in ShellState
<1>1. CASE k = 0
  <2>1. <<>> \in Text /\ <<>> \in Seq(Text)
    BY TextGrows
  <2> QED BY <1>1, <2>1, ShellAtIs DEF Between
<1>2. CASE k # 0
  <2> DEFINE before == SubSeq(argv, 1, k - 1)
  <2>1. k - 1 \in 0..Len(argv) /\ argv[k] \in Text
    BY <1>2
  <2>2. before \in Seq(Text)
    BY <2>1, PrefixesAre
  <2> HIDE DEF before
  <2>3. ShellAt(before, argv[k], "word") \in ShellState
    BY <2>1, <2>2, ShellAtIs
  <2> QED BY <1>2, <2>3 DEF Between, before
<1> QED BY <1>1, <1>2

LEMMA ShellReadsPart ==
  ASSUME NEW argv \in Seq(Text), NEW k \in 1..Len(argv)
  PROVE  /\ ShellPart(argv, k) \in Text
         /\ Run(ShellReads, Between(argv, k - 1), ShellPart(argv, k)) = Between(argv, k)
<1> DEFINE argument == argv[k]
           before == SubSeq(argv, 1, k - 1)
           quoted == ShellQuoted(argument)
           start == ShellAt(before, <<>>, "between")
<1>1. argument \in Text /\ k - 1 \in 0..Len(argv)
  OBVIOUS
<1>2. before \in Seq(Text)
  BY <1>1, PrefixesAre
<1>3. Between(argv, k) = ShellAt(before, argument, "word")
  BY DEF Between
<1> HIDE DEF before, argument
<1>4. quoted \in Text /\ Run(ShellReads, start, quoted) = ShellAt(before, argument, "word")
  BY <1>1, <1>2, ShellReadsArgument
<1>5. start \in ShellState
  BY <1>2, ShellAtIs, TextGrows
<1>6. CASE k = 1
  <2>1. before = <<>>
    <3>1. SubSeq(argv, 1, 0) = <<>> /\ 1 - 1 = 0
      BY PrefixesAre
    <3> QED BY <1>6, <3>1 DEF before
  <2>2. Between(argv, k - 1) = start
    <3>1. k - 1 = 0
      BY <1>6
    <3> QED BY <2>1, <3>1 DEF Between
  <2> HIDE DEF start, quoted
  <2>3. <<>> \o quoted = quoted
    BY <1>4 DEF Text
  <2>4. ShellPart(argv, k) = quoted
    BY <1>6, <2>3 DEF ShellPart, quoted, argument
  <2> QED BY <1>3, <1>4, <2>2, <2>4
<1>7. CASE k # 1
  <2> DEFINE last == argv[k - 1]
             earlier == SubSeq(argv, 1, (k - 1) - 1)
             word == ShellAt(earlier, last, "word")
             blank == <<" ">>
  <2>1. k - 1 \in 1..Len(argv) /\ (k - 1) - 1 \in 0..Len(argv) /\ last \in Text
    BY <1>7
  <2>2. earlier \in Seq(Text) /\ Append(earlier, last) = before
    BY <2>1, PrefixesAre DEF before
  <2>3. Between(argv, k - 1) = word
    BY <2>1 DEF Between
  <2> HIDE DEF last, earlier
  <2>4. word \in ShellState
    BY <2>1, <2>2, ShellAtIs
  <2>5. Walk!ShellStep(word, " ") = start
    BY <2>2 DEF Walk!ShellStep, ShellAt
  <2>6. blank \in Text /\ " " \in Alphabet
    BY Letters, TextGrows
  <2>a. " " \in Alphabet
    BY Letters
  <2> HIDE DEF word, start
  <2>7. Run(ShellReads, word, blank) = start
    <3>1. Run(ShellReads, word, <<" ">>) = Walk!ShellStep(word, " ")
      BY <2>4, <2>a, ShellReadsOne
    <3> QED BY <2>5, <3>1
  <2>8. ShellPart(argv, k) = blank \o quoted
    BY <1>7 DEF ShellPart, quoted, argument
  <2> HIDE DEF blank, quoted
  <2>9. blank \in Seq(Alphabet) /\ quoted \in Seq(Alphabet) /\ blank \o quoted \in Text
    <3>1. blank \in Seq(Alphabet) /\ quoted \in Seq(Alphabet)
      BY <1>4, <2>6 DEF Text
    <3> QED BY <3>1 DEF Text
  <2>10. Run(ShellReads, word, blank \o quoted)
           = Run(ShellReads, Run(ShellReads, word, blank), quoted)
    BY <2>4, <2>9, RunJoins, ShellIsAutomaton
  <2> QED BY <1>3, <1>4, <2>3, <2>7, <2>8, <2>9, <2>10
<1> QED BY <1>6, <1>7

(* The shell behind greetd reads the arguments that shell_join was given,  *)
(* one word for each, whatever characters they hold: blanks, quotes and    *)
(* signs that mean something to a shell, and none at all (shell_join).     *)
THEOREM ShellReadsBack ==
  \A argv \in Seq(Seq(Alphabet)) : Walk!ShellWords(Walk!ShellJoin(argv)) = argv
<1> SUFFICES ASSUME NEW argv \in Seq(Text) PROVE Walk!ShellWords(Walk!ShellJoin(argv)) = argv
  BY DEF Text
<1> DEFINE n == Len(argv)
           seqs == [i \in 1..n |-> ShellPart(argv, i)]
           s == [k \in 0..n |-> Between(argv, k)]
           text == Walk!FlattenSeq(seqs)
           base == ShellAt(<<>>, <<>>, "between")
<1>1. n \in Nat /\ DOMAIN argv = 1..n
  OBVIOUS
<1>2. Walk!ShellJoin(argv) = text
  BY <1>1, ShellParts
<1>3. seqs \in [1..n -> Text] /\ \A k \in 1..n : seqs[k] = ShellPart(argv, k)
  BY ShellReadsPart
<1>4. s \in [0..n -> ShellState] /\ \A k \in 0..n : s[k] = Between(argv, k)
  BY BetweenIs
<1> HIDE DEF seqs, s
<1>5. seqs \in Seq(Seq(Alphabet)) /\ Len(seqs) = n
  <2> HIDE DEF n
  <2>1. seqs \in Seq(Text) /\ Len(seqs) = n
    BY <1>1, <1>3
  <2> QED BY <2>1 DEF Text
<1>6. Passes(s, ShellState, ShellReads, seqs)
  <2>1. ASSUME NEW k \in 1..n PROVE Run(ShellReads, s[k - 1], seqs[k]) = s[k]
    <3>1. k - 1 \in 0..n /\ k \in 0..n
      BY <1>1
    <3> QED BY <1>3, <1>4, <3>1, ShellReadsPart
  <2> QED BY <1>4, <1>5, <2>1 DEF Passes
<1>7. Run(ShellReads, s[0], text) = s[n]
  <2>1. Run(ShellReads, s[0], Walk!FlattenSeq(seqs)) = s[Len(seqs)]
    BY <1>5, <1>6, RunFlattens, ShellIsAutomaton
  <2> QED BY <1>5, <2>1
<1>8. text \in Text
  <2>1. CASE n = 0
    <3>1. seqs = <<>>
      BY <1>5, <2>1
    <3>2. text = <<>>
      BY <3>1 DEF Walk!FlattenSeq
    <3> QED BY <3>2, TextGrows
  <2>2. CASE n # 0
    <3>1. seqs \in [1..n -> Seq(Alphabet)]
      BY <1>3 DEF Text
    <3> HIDE DEF n
    <3> QED BY <1>1, <2>2, <3>1, FlattenStarts DEF Text
  <2> QED BY <2>1, <2>2
<1>9. s[0] = base /\ base \in ShellState
  <2>1. 0 \in 0..n
    BY <1>1
  <2> QED BY <1>4, <2>1 DEF Between
<1>10. s[n] = Between(argv, n)
  <2>1. n \in 0..n
    BY <1>1
  <2> QED BY <1>4, <2>1
<1> HIDE DEF text
<1>11. Walk!FoldLeft(Walk!ShellStep, base, text) = Between(argv, n)
  BY <1>7, <1>8, <1>9, <1>10, ShellRuns
<1> DEFINE end == Walk!FoldLeft(Walk!ShellStep, base, text)
<1>12. Walk!ShellWords(text) = CASE end.at = "word" -> Append(end.words, end.value)
                                 [] end.at = "between" -> end.words
                                 [] OTHER -> None
  BY DEF Walk!ShellWords, ShellAt
<1>13. end = Between(argv, n)
  BY <1>11
<1> HIDE DEF end
<1>14. CASE n = 0
  <2>1. end.at = "between" /\ end.words = <<>> /\ argv = <<>>
    BY <1>13, <1>14 DEF Between, ShellAt
  <2> QED BY <1>2, <1>12, <2>1
<1>15. CASE n # 0
  <2> DEFINE before == SubSeq(argv, 1, n - 1)
  <2>1. end.at = "word" /\ end.words = before /\ end.value = argv[n]
    BY <1>13, <1>15 DEF Between, ShellAt
  <2>2. Append(before, argv[n]) = argv
    <3>1. n \in 1..Len(argv)
      BY <1>1, <1>15
    <3> QED BY <3>1, PrefixesAre
  <2> HIDE DEF before
  <2> QED BY <1>2, <1>12, <2>1, <2>2
<1> QED BY <1>14, <1>15

LEMMA RunOfTwo ==
  ASSUME NEW V, NEW C, NEW step, Automaton(step, V, C), NEW base \in V, NEW c \in C, NEW d \in C
  PROVE  Run(step, base, <<c, d>>) = step[<<step[<<base, c>>], d>>]
<1> DEFINE two == <<c, d>>
<1>1. two \in Seq(C) /\ Len(two) = 2 /\ two[1] = c /\ two[2] = d
  OBVIOUS
<1> HIDE DEF two
<1>2. PICK p \in [0..Len(two) -> V] : IsRun(p, step, base, two)
  BY <1>1, RunExists
<1>3. Run(step, base, two) = p[2]
  BY <1>1, <1>2, RunIs
<1>4. p[0] = base /\ p[1] = step[<<p[0], two[1]>>] /\ p[2] = step[<<p[1], two[2]>>]
  <2>1. 1 \in 1..Len(two) /\ 1 - 1 = 0 /\ 2 \in 1..Len(two) /\ 2 - 1 = 1
    BY <1>1
  <2> QED BY <1>2, <2>1 DEF IsRun
<1> QED BY <1>1, <1>3, <1>4 DEF two

-----------------------------------------------------------------------------
(* What tokenize reads                                                     *)

Token == [value : Text, quoted : BOOLEAN]
Places == {"between", "bare", "quoted", "escape", "closed", "bad"}
TokenState == [arguments : Seq(Token), value : Text, at : Places]
TokenReads == [q \in TokenState \X Alphabet |-> Walk!TokenStep(q[1], q[2])]
TokenAt(arguments, value, at) == [arguments |-> arguments, value |-> value, at |-> at]

LEMMA TokenAtIs ==
  ASSUME NEW arguments \in Seq(Token), NEW value \in Text, NEW at \in Places
  PROVE  TokenAt(arguments, value, at) \in TokenState
BY DEF TokenAt, TokenState

LEMMA TokensGrow ==
  ASSUME NEW arguments \in Seq(Token), NEW value \in Text, NEW quoted \in BOOLEAN
  PROVE  Append(arguments, [value |-> value, quoted |-> quoted]) \in Seq(Token)
<1>1. [value |-> value, quoted |-> quoted] \in Token
  BY DEF Token
<1> HIDE DEF Token
<1> QED BY <1>1

LEMMA TokenStays == \A s \in TokenState, c \in Alphabet : Walk!TokenStep(s, c) \in TokenState
<1> SUFFICES ASSUME NEW s \in TokenState, NEW c \in Alphabet
             PROVE  Walk!TokenStep(s, c) \in TokenState
  OBVIOUS
<1> DEFINE a == s.arguments
           v == s.value
           t == s.at
           longer == Append(v, c)
           quoted == Append(a, [value |-> v, quoted |-> TRUE])
           bare == Append(a, [value |-> v, quoted |-> FALSE])
<1>1. a \in Seq(Token) /\ v \in Text /\ t \in Places
  BY DEF TokenState
<1>2. longer \in Text /\ quoted \in Seq(Token) /\ bare \in Seq(Token) /\ <<>> \in Text
  BY <1>1, TextGrows, TokensGrow
<1>3. s = TokenAt(a, v, t)
  BY DEF TokenState, TokenAt
<1>4. Walk!InQuotes(s, c) \in
        {TokenAt(quoted, <<>>, "closed"), TokenAt(a, v, "escape"), TokenAt(a, v, "bad"),
         TokenAt(a, longer, t)}
  BY <1>1, <1>3 DEF Walk!InQuotes, Walk!Push, Walk!At, Walk!Finish, TokenAt
<1>a. " " \notin Walk!Reserved
  BY DEF Walk!Reserved
<1>5. Walk!OutsideQuotes(s, c) \in
        {TokenAt(bare, <<>>, "between"), s, TokenAt(a, v, "quoted"), TokenAt(a, v, "bad"),
         TokenAt(a, longer, "bare")}
  BY <1>1, <1>3, <1>a DEF Walk!OutsideQuotes, Walk!Push, Walk!At, Walk!Finish, TokenAt
<1>6. Walk!TokenStep(s, c) \in
        {s, Walk!InQuotes(s, c), Walk!OutsideQuotes(s, c), TokenAt(a, longer, "quoted"),
         TokenAt(a, v, "bad"), TokenAt(a, v, "between")}
  BY <1>1, <1>3 DEF Walk!TokenStep, Walk!Push, Walk!At, TokenAt
<1> HIDE DEF a, v, t, longer, quoted, bare
<1>7. \A place \in Places : TokenAt(a, v, place) \in TokenState
                            /\ TokenAt(a, longer, place) \in TokenState
                            /\ TokenAt(quoted, <<>>, place) \in TokenState
                            /\ TokenAt(bare, <<>>, place) \in TokenState
  BY <1>1, <1>2, TokenAtIs
<1>8. /\ "between" \in Places /\ "bare" \in Places /\ "quoted" \in Places
      /\ "escape" \in Places /\ "closed" \in Places /\ "bad" \in Places
  BY DEF Places
<1> QED BY <1>1, <1>4, <1>5, <1>6, <1>7, <1>8

LEMMA TokenIsAutomaton == Automaton(TokenReads, TokenState, Alphabet)
BY TokenStays DEF Automaton, TokenReads

LEMMA TokenReadsOne ==
  ASSUME NEW s \in TokenState, NEW c \in Alphabet
  PROVE  Run(TokenReads, s, <<c>>) = Walk!TokenStep(s, c)
<1>1. Run(TokenReads, s, <<c>>) = TokenReads[<<s, c>>]
  BY TokenIsAutomaton, RunOfOne
<1>2. TokenReads[<<s, c>>] = Walk!TokenStep(s, c)
  BY DEF TokenReads
<1> QED BY <1>1, <1>2

LEMMA TokenReadsTwo ==
  ASSUME NEW s \in TokenState, NEW c \in Alphabet, NEW d \in Alphabet
  PROVE  Run(TokenReads, s, <<c, d>>) = Walk!TokenStep(Walk!TokenStep(s, c), d)
<1>1. Run(TokenReads, s, <<c, d>>) = TokenReads[<<TokenReads[<<s, c>>], d>>]
  BY TokenIsAutomaton, RunOfTwo
<1>2. TokenReads[<<s, c>>] = Walk!TokenStep(s, c) /\ Walk!TokenStep(s, c) \in TokenState
  BY TokenStays DEF TokenReads
<1>3. \A v \in TokenState : TokenReads[<<v, d>>] = Walk!TokenStep(v, d)
  BY DEF TokenReads
<1> QED BY <1>1, <1>2, <1>3

(* The fold of Tokenize is a run. *)
LEMMA TokenRuns ==
  ASSUME NEW base \in TokenState, NEW text \in Text
  PROVE  Walk!FoldLeft(Walk!TokenStep, base, text) = Run(TokenReads, base, text)
<1> DEFINE F(h) == h = [s \in SUBSET (DOMAIN text) |->
                          IF s = {} THEN base
                          ELSE Walk!TokenStep(h[s \ {Max(s)}], text[Max(s)])]
           H == CHOOSE h : F(h)
           n == Len(text)
<1>1. Walk!FoldLeft(Walk!TokenStep, base, text) = H[DOMAIN text]
  BY DEF Walk!FoldLeft, Walk!MapThenFoldSet, Walk!Max, Max
<1>2. n \in Nat /\ DOMAIN text = 1..n /\ \A k \in 1..n : text[k] \in Alphabet
  BY DEF Text
<1>3. \A s \in SUBSET (1..n) : s # {} => text[Max(s)] \in Alphabet
  BY <1>2, MaxIs
<1>4. \A v \in TokenState, c \in Alphabet : TokenReads[<<v, c>>] = Walk!TokenStep(v, c)
  BY DEF TokenReads
<1>5. PICK g \in [SUBSET (1..n) -> TokenState] : Unfolds(g, TokenReads, base, text)
  BY UnfoldExists, TokenIsAutomaton DEF Text
<1>6. \E h : F(h)
  <2>1. ASSUME NEW s \in SUBSET (1..n)
        PROVE  g[s] = IF s = {} THEN base ELSE Walk!TokenStep(g[s \ {Max(s)}], text[Max(s)])
    <3>1. s \ {Max(s)} \in SUBSET (1..n)
      OBVIOUS
    <3>2. g[s \ {Max(s)}] \in TokenState
      BY <3>1
    <3> QED BY <1>3, <1>4, <1>5, <3>2 DEF Unfolds
  <2>2. F(g)
    BY <1>2, <2>1
  <2> QED BY <2>2
<1>7. F(H)
  <2> HIDE DEF F
  <2> QED BY <1>6
<1> HIDE DEF H
<1>8. \A s \in SUBSET (1..n) :
        H[s] = IF s = {} THEN base ELSE Walk!TokenStep(H[s \ {Max(s)}], text[Max(s)])
  BY <1>2, <1>7
<1>9. H[{}] = base
  <2>1. {} \in SUBSET (1..n)
    OBVIOUS
  <2> QED BY <1>8, <2>1
<1>10. \A s \in SUBSET (1..n) :
         (s # {} /\ H[s \ {Max(s)}] \in TokenState) =>
           H[s] = TokenReads[<<H[s \ {Max(s)}], text[Max(s)]>>]
  BY <1>3, <1>4, <1>8
<1>11. H[1..n] = Run(TokenReads, base, text)
  <2>1. text \in Seq(Alphabet)
    BY DEF Text
  <2>2. Follows(H, TokenState, TokenReads, base, text)
    BY <1>9, <1>10 DEF Follows
  <2> HIDE DEF F
  <2> QED BY <2>1, <2>2, UnfoldRuns, TokenIsAutomaton
<1> QED BY <1>1, <1>2, <1>11

LEMMA JoinOne ==
  ASSUME NEW S, NEW seq \in Seq(S), NEW c \in S
  PROVE  seq \o <<c>> = Append(seq, c)
OBVIOUS

LEMMA JoinTwo ==
  ASSUME NEW S, NEW seq \in Seq(S), NEW c \in S, NEW d \in S
  PROVE  seq \o <<c, d>> = Append(Append(seq, c), d)
<1> DEFINE first == <<c>>
           last == <<d>>
           both == <<c, d>>
           once == seq \o first
<1>1. first \in Seq(S) /\ last \in Seq(S)
  OBVIOUS
<1>2. both = Append(first, d)
  OBVIOUS
<1>3. once = Append(seq, c)
  BY AppendIsConcat
<1> HIDE DEF first, both, once
<1>4. both = first \o last
  BY <1>1, <1>2, AppendIsConcat
<1>5. seq \o (first \o last) = (seq \o first) \o last
  BY <1>1, ConcatAssociative
<1>6. once \in Seq(S)
  BY <1>3
<1>7. once \o last = Append(once, d)
  BY <1>6, AppendIsConcat
<1> HIDE DEF last
<1>8. seq \o both = Append(once, d)
  BY <1>4, <1>5, <1>7 DEF once
<1> QED BY <1>3, <1>8 DEF both

LEMMA PercentJoins ==
  \A value \in Text, c \in Alphabet : value \o <<"%", c>> = Append(Append(value, "%"), c)
<1> SUFFICES ASSUME NEW value \in Text, NEW c \in Alphabet
             PROVE  value \o <<"%", c>> = Append(Append(value, "%"), c)
  OBVIOUS
<1>1. value \in Seq(Alphabet) /\ "%" \in Alphabet
  BY Letters DEF Text
<1> QED BY <1>1, JoinTwo

(* The characters that an Exec value may hold. *)
Safe == Alphabet \ Walk!Unwritable

LEMMA ArgumentFields ==
  ASSUME NEW argument \in Walk!Argument
  PROVE  /\ argument.items \in Seq(Walk!Item) /\ argument.quoted \in BOOLEAN
         /\ argument.blanks \in Nat
BY DEF Walk!Argument

LEMMA ItemIs ==
  ASSUME NEW argument \in Walk!Argument, Walk!WellWritten(argument),
         NEW j \in 1..Len(argument.items), NEW item, item = argument.items[j]
  PROVE  /\ item \in Walk!Item /\ item.code \in BOOLEAN /\ item.char \in Safe
         /\ Walk!MayStandIn(argument, item)
         /\ argument.quoted => ~item.code
         /\ ~argument.quoted => item.char \notin Walk!Reserved \cup {" "}
<1>1. argument.items \in Seq(Walk!Item)
  BY ArgumentFields
<1>2. item \in Walk!Item /\ j \in DOMAIN argument.items
  <2> HIDE DEF Walk!Item
  <2> QED BY <1>1
<1>3. item.code \in BOOLEAN /\ item.char \in Alphabet
  BY <1>2 DEF Walk!Item
<1>4. Walk!MayStandIn(argument, item)
  BY <1>2 DEF Walk!WellWritten
<1>5. CASE item.code
  BY <1>2, <1>3, <1>4, <1>5
    DEF Walk!MayStandIn, Safe, Walk!Unwritable, Walk!FileCodes, Walk!Deprecated, Walk!Reserved
<1>6. CASE ~item.code
  BY <1>2, <1>3, <1>4, <1>6 DEF Walk!MayStandIn, Safe
<1> QED BY <1>5, <1>6

(* What is written for an item is one character or two. *)
LEMMA WrittenItem ==
  ASSUME NEW item, item.char \in Safe
  PROVE  Walk!Plain(item) \in Seq(Safe) /\ Walk!InDoubleQuotes(item) \in Seq(Safe)
         /\ Walk!Plain(item) # <<>>
<1>1. "%" \in Safe /\ "backslash" \in Safe
  BY Letters DEF Safe, Walk!Unwritable
<1> DEFINE c == item.char
<1> HIDE DEF c
<1>2. <<c>> \in Seq(Safe) /\ <<"%", c>> \in Seq(Safe) /\ <<"backslash", c>> \in Seq(Safe)
  BY <1>1 DEF c
<1>3. <<c>> # <<>> /\ <<"%", c>> # <<>>
  OBVIOUS
<1>4. Walk!Plain(item) = <<c>> \/ Walk!Plain(item) = <<"%", c>>
  BY DEF Walk!Plain, c
<1>5. Walk!InDoubleQuotes(item) = <<"backslash", c>> \/ Walk!InDoubleQuotes(item) = Walk!Plain(item)
  BY DEF Walk!InDoubleQuotes, c
<1> QED BY <1>2, <1>3, <1>4, <1>5

LEMMA SafeIsText == Seq(Safe) \subseteq Text
BY DEF Safe, Text

(* Outside of quotes, what is written for an item is read as it is. *)
LEMMA TokenReadsBare ==
  ASSUME NEW done \in Seq(Token), NEW value \in Text, NEW at \in {"between", "bare"},
         NEW item, item.char \in Safe, item.char \notin Walk!Reserved \cup {" "}
  PROVE  Run(TokenReads, TokenAt(done, value, at), Walk!Plain(item))
           = TokenAt(done, value \o Walk!Plain(item), "bare")
<1> DEFINE c == item.char
           base == TokenAt(done, value, at)
<1>1. /\ c \in Alphabet /\ "%" \in Alphabet /\ c \notin Walk!Reserved \cup {" "}
      /\ "%" \notin Walk!Reserved \cup {" "}
  BY Letters DEF Safe, Walk!Reserved
<1>2. "double" \in Walk!Reserved
  BY DEF Walk!Reserved
<1>3. ASSUME NEW v \in Text, NEW place \in {"between", "bare"}, NEW d \in Alphabet,
             d \notin Walk!Reserved \cup {" "}
      PROVE  Walk!TokenStep(TokenAt(done, v, place), d) = TokenAt(done, Append(v, d), "bare")
  <2>1. d # " " /\ d # "double"
    BY <1>2, <1>3
  <2>2. Walk!OutsideQuotes(TokenAt(done, v, place), d) = TokenAt(done, Append(v, d), "bare")
    BY <1>3, <2>1 DEF Walk!OutsideQuotes, Walk!Push, Walk!At, TokenAt
  <2> QED BY <2>2 DEF Walk!TokenStep, TokenAt
<1>4. base \in TokenState /\ at \in Places
  BY TokenAtIs DEF Places
<1>5. CASE Walk!Plain(item) = <<c>>
  <2>1. Run(TokenReads, base, <<c>>) = Walk!TokenStep(base, c)
    BY <1>1, <1>4, TokenReadsOne
  <2>2. Walk!TokenStep(base, c) = TokenAt(done, Append(value, c), "bare")
    BY <1>1, <1>3
  <2>3. value \o <<c>> = Append(value, c)
    BY <1>1, JoinOne DEF Text
  <2> HIDE DEF base, c
  <2> QED BY <1>5, <2>1, <2>2, <2>3 DEF base
<1>6. CASE Walk!Plain(item) = <<"%", c>>
  <2> DEFINE longer == Append(value, "%")
  <2>1. Run(TokenReads, base, <<"%", c>>) = Walk!TokenStep(Walk!TokenStep(base, "%"), c)
    BY <1>1, <1>4, TokenReadsTwo
  <2>2. Walk!TokenStep(base, "%") = TokenAt(done, longer, "bare")
    BY <1>1, <1>3
  <2>3. longer \in Text
    BY <1>1, TextGrows
  <2>4. value \o <<"%", c>> = Append(longer, c)
    <3> HIDE DEF c
    <3> QED BY <1>1, PercentJoins DEF longer
  <2> HIDE DEF base, longer, c
  <2>5. Walk!TokenStep(TokenAt(done, longer, "bare"), c) = TokenAt(done, Append(longer, c), "bare")
    BY <1>1, <1>3, <2>3
  <2> QED BY <1>6, <2>1, <2>2, <2>4, <2>5 DEF base
<1>7. Walk!Plain(item) = <<c>> \/ Walk!Plain(item) = <<"%", c>>
  BY DEF Walk!Plain
<1> QED BY <1>5, <1>6, <1>7

(* Inside of quotes, it is read without its escape. *)
LEMMA TokenReadsQuoted ==
  ASSUME NEW done \in Seq(Token), NEW value \in Text,
         NEW item, item.char \in Safe, ~item.code
  PROVE  Run(TokenReads, TokenAt(done, value, "quoted"), Walk!InDoubleQuotes(item))
           = TokenAt(done, value \o Walk!Plain(item), "quoted")
<1> DEFINE c == item.char
           base == TokenAt(done, value, "quoted")
           longer == Append(value, "%")
<1>1. c \in Alphabet /\ "%" \in Alphabet /\ "backslash" \in Alphabet
  BY Letters DEF Safe
<1>2. base \in TokenState /\ longer \in Text /\ TokenAt(done, longer, "quoted") \in TokenState
  <2>1. "quoted" \in Places /\ longer \in Text
    BY <1>1, TextGrows DEF Places
  <2> HIDE DEF longer
  <2> QED BY <2>1, TokenAtIs
<1>3. value \o <<c>> = Append(value, c) /\ value \o <<"%", c>> = Append(longer, c)
  <2> HIDE DEF c
  <2>1. value \in Seq(Alphabet)
    BY DEF Text
  <2>2. value \o <<c>> = Append(value, c)
    BY <1>1, <2>1, JoinOne
  <2> QED BY <1>1, <2>2, PercentJoins DEF longer
<1>4. ASSUME NEW v \in Text, NEW d \in Alphabet, d \notin Walk!Escapable
      PROVE  Walk!TokenStep(TokenAt(done, v, "quoted"), d) = TokenAt(done, Append(v, d), "quoted")
  <2>1. d # "double" /\ d # "backslash" /\ d \notin {"$", "backtick"}
    BY <1>4 DEF Walk!Escapable
  <2> QED BY <2>1 DEF Walk!TokenStep, Walk!InQuotes, Walk!Push, TokenAt
<1>5. CASE c \in Walk!Escapable
  <2>1. Walk!InDoubleQuotes(item) = <<"backslash", c>> /\ Walk!Plain(item) = <<c>>
    BY <1>5 DEF Walk!InDoubleQuotes, Walk!Plain, Walk!Escapable
  <2>2. Run(TokenReads, base, <<"backslash", c>>) = Walk!TokenStep(Walk!TokenStep(base, "backslash"), c)
    BY <1>1, <1>2, TokenReadsTwo
  <2>3. Walk!TokenStep(base, "backslash") = TokenAt(done, value, "escape")
    BY DEF Walk!TokenStep, Walk!InQuotes, Walk!At, TokenAt
  <2>4. Walk!TokenStep(TokenAt(done, value, "escape"), c) = TokenAt(done, Append(value, c), "quoted")
    BY <1>5 DEF Walk!TokenStep, Walk!Push, Walk!At, TokenAt
  <2> HIDE DEF base, c
  <2> QED BY <1>3, <2>1, <2>2, <2>3, <2>4 DEF base
<1>6. CASE c \notin Walk!Escapable /\ c # "%"
  <2>1. Walk!InDoubleQuotes(item) = <<c>> /\ Walk!Plain(item) = <<c>>
    BY <1>6 DEF Walk!InDoubleQuotes, Walk!Plain
  <2>2. Run(TokenReads, base, <<c>>) = Walk!TokenStep(base, c)
    BY <1>1, <1>2, TokenReadsOne
  <2>3. Walk!TokenStep(base, c) = TokenAt(done, Append(value, c), "quoted")
    BY <1>1, <1>4, <1>6
  <2> HIDE DEF base, c
  <2> QED BY <1>3, <2>1, <2>2, <2>3 DEF base
<1>7. CASE c = "%"
  <2>1. Walk!InDoubleQuotes(item) = <<"%", c>> /\ Walk!Plain(item) = <<"%", c>>
        /\ c \notin Walk!Escapable
    BY <1>7 DEF Walk!InDoubleQuotes, Walk!Plain, Walk!Escapable
  <2>2. Run(TokenReads, base, <<"%", c>>) = Walk!TokenStep(Walk!TokenStep(base, "%"), c)
    BY <1>1, <1>2, TokenReadsTwo
  <2>3. Walk!TokenStep(base, "%") = TokenAt(done, longer, "quoted")
    BY <1>1, <1>4, <1>7, <2>1
  <2> HIDE DEF base, c, longer
  <2>4. Walk!TokenStep(TokenAt(done, longer, "quoted"), c) = TokenAt(done, Append(longer, c), "quoted")
    BY <1>1, <1>2, <1>4, <2>1
  <2> QED BY <1>3, <2>1, <2>2, <2>3, <2>4 DEF base
<1> QED BY <1>5, <1>6, <1>7

(* A sequence of one character. *)
Repeats(seq, c) == \A k \in 1..Len(seq) : seq[k] = c

(* It brings an automaton from start to base, where it rests.              *)
Rests(step, start, base, c) == step[<<start, c>>] = base /\ step[<<base, c>>] = base

(* Characters that change nothing any more. *)
LEMMA RunRests ==
  ASSUME NEW V, NEW C, NEW step, Automaton(step, V, C), NEW c, NEW seq \in Seq(C), Repeats(seq, c),
         NEW start \in V, NEW base \in V, Rests(step, start, base, c),
         (seq = <<>>) => (start = base)
  PROVE  Run(step, start, seq) = base
<1> DEFINE n == Len(seq)
           p == [k \in 0..n |-> IF k = 0 THEN start ELSE base]
<1>1. n \in Nat /\ \A k \in 1..n : seq[k] = c
  BY DEF Repeats
<1>2. \A k \in 0..n : p[k] = IF k = 0 THEN start ELSE base
  OBVIOUS
<1> HIDE DEF p
<1>3. p[0] = start
  <2>1. 0 \in 0..n
    BY <1>1
  <2> QED BY <1>2, <2>1
<1>4. p[n] = base
  <2>1. n \in 0..n /\ (n = 0 => seq = <<>>)
    BY <1>1
  <2> QED BY <1>2, <2>1
<1>5. ASSUME NEW k \in 1..n PROVE p[k] = step[<<p[k - 1], seq[k]>>]
  <2>1. k \in 0..n /\ k - 1 \in 0..n /\ k # 0
    BY <1>1
  <2>2. p[k] = base /\ seq[k] = c /\ p[k - 1] \in {start, base}
    BY <1>1, <1>2, <2>1
  <2> QED BY <2>2 DEF Rests
<1>6. IsRun(p, step, start, seq)
  BY <1>3, <1>5 DEF IsRun
<1>7. Run(step, start, seq) = p[n]
  BY <1>6, RunIs
<1> QED BY <1>4, <1>7

Blanks(n) == [i \in 1..n |-> " "]

LEMMA BlanksAre ==
  ASSUME NEW n \in Nat
  PROVE  Blanks(n) \in Seq(Safe) /\ Blanks(n) \in Seq(Alphabet) /\ Len(Blanks(n)) = n
         /\ Repeats(Blanks(n), " ")
<1>1. " " \in Alphabet /\ " " \in Safe
  BY Letters DEF Safe, Walk!Unwritable
<1>2. Blanks(n) \in [1..n -> Safe] /\ Blanks(n) \in [1..n -> Alphabet]
      /\ \A k \in 1..n : Blanks(n)[k] = " "
  BY <1>1 DEF Blanks
<1>3. Blanks(n) \in Seq(Safe) /\ Len(Blanks(n)) = n
  <2>1. Blanks(n) \in [1..n -> Safe]
    BY <1>2
  <2> QED BY <2>1
<1>4. Blanks(n) \in Seq(Alphabet)
  <2>1. Blanks(n) \in [1..n -> Alphabet]
    BY <1>2
  <2> QED BY <2>1
<1> QED BY <1>2, <1>3, <1>4 DEF Repeats

LEMMA BlanksAreRead ==
  ASSUME NEW start \in TokenState, NEW base \in TokenState,
         NEW blanks \in Seq(Alphabet), Repeats(blanks, " "),
         Rests(TokenReads, start, base, " "), (blanks = <<>>) => (start = base)
  PROVE  Run(TokenReads, start, blanks) = base
BY RunRests, TokenIsAutomaton

(* The argument of tokenize that an argument of the author becomes.        *)
TokenOf(argument) == [value |-> Walk!Value(argument.items), quoted |-> argument.quoted]

(* The value of an argument is what its items are written as.              *)
Values(items, p) ==
  /\ p \in [0..Len(items) -> Seq(Safe)]
  /\ p[0] = <<>>
  /\ \A k \in 1..Len(items) : p[k] = p[k - 1] \o Walk!Plain(items[k])
  /\ Walk!Value(items) = p[Len(items)]

LEMMA ValueIs ==
  ASSUME NEW argument \in Walk!Argument, Walk!WellWritten(argument)
  PROVE  \E p : Values(argument.items, p)
<1> DEFINE items == argument.items
           n == Len(items)
           seqs == [j \in 1..n |-> Walk!Plain(items[j])]
<1>1. items \in Seq(Walk!Item)
  BY ArgumentFields
<1>2. n \in Nat /\ DOMAIN items = 1..n
  <2> HIDE DEF items, Walk!Item
  <2> QED BY <1>1
<1>3. seqs \in [1..n -> Seq(Safe)] /\ \A j \in 1..n : seqs[j] = Walk!Plain(items[j])
  <2>1. ASSUME NEW j \in 1..n PROVE Walk!Plain(items[j]) \in Seq(Safe)
    BY ItemIs, WrittenItem
  <2> HIDE DEF n
  <2> QED BY <2>1
<1>4. Walk!Value(items) = Walk!FlattenSeq(seqs)
  <2> HIDE DEF n, items
  <2> QED BY <1>2 DEF Walk!Value
<1> HIDE DEF seqs
<1>5. PICK p \in [0..n -> Seq(Safe)] :
        /\ p[0] = <<>> /\ \A k \in 1..n : p[k] = p[k - 1] \o seqs[k]
        /\ Walk!FlattenSeq(seqs) = p[n]
  <2> HIDE DEF n
  <2> QED BY <1>2, <1>3, FlattenIs
<1>6. Values(items, p)
  BY <1>3, <1>4, <1>5 DEF Values
<1> QED BY <1>6

LEMMA ValueIsText ==
  ASSUME NEW argument \in Walk!Argument, Walk!WellWritten(argument)
  PROVE  Walk!Value(argument.items) \in Seq(Safe) /\ TokenOf(argument) \in Token
<1> DEFINE n == Len(argument.items)
<1>1. PICK p : Values(argument.items, p)
  BY ValueIs
<1>2. n \in Nat
  <2>1. argument.items \in Seq(Walk!Item)
    BY ArgumentFields
  <2> HIDE DEF Walk!Item
  <2> QED BY <2>1
<1>3. Walk!Value(argument.items) \in Seq(Safe)
  <2>1. n \in 0..n
    BY <1>2
  <2> QED BY <1>1, <2>1 DEF Values
<1>4. argument.quoted \in BOOLEAN
  BY ArgumentFields
<1> QED BY <1>3, <1>4, SafeIsText DEF TokenOf, Token

LEMMA BareIsRead ==
  ASSUME NEW argument \in Walk!Argument, Walk!WellWritten(argument), ~argument.quoted,
         NEW done \in Seq(Token)
  PROVE  Run(TokenReads, TokenAt(done, <<>>, "between"), Walk!Value(argument.items))
           = TokenAt(done, Walk!Value(argument.items), "bare")
<1> DEFINE items == argument.items
           n == Len(items)
           seqs == [j \in 1..n |-> Walk!Plain(items[j])]
<1>1. items \in Seq(Walk!Item)
  BY ArgumentFields
<1>2. n \in Nat /\ DOMAIN items = 1..n
  <2> HIDE DEF items, Walk!Item
  <2> QED BY <1>1
<1>3. PICK p : Values(items, p)
  BY ValueIs
<1>4. /\ \A k \in 0..n : p[k] \in Text
      /\ p[0] = <<>>
      /\ \A k \in 1..n : p[k] = p[k - 1] \o Walk!Plain(items[k])
      /\ Walk!Value(items) = p[n]
  BY <1>3, SafeIsText DEF Values
<1>5. \A j \in 1..n : Walk!Plain(items[j]) \in Text
  <2>1. ASSUME NEW j \in 1..n PROVE Walk!Plain(items[j]) \in Seq(Safe)
    BY ItemIs, WrittenItem
  <2> QED BY <2>1, SafeIsText
<1>6. Walk!Value(items) = Walk!FlattenSeq(seqs)
  <2> HIDE DEF n, items
  <2> QED BY <1>2 DEF Walk!Value
<1> DEFINE s == [k \in 0..n |-> TokenAt(done, p[k], IF k = 0 THEN "between" ELSE "bare")]
<1>7. s \in [0..n -> TokenState]
      /\ \A k \in 0..n : s[k] = TokenAt(done, p[k], IF k = 0 THEN "between" ELSE "bare")
  <2>1. ASSUME NEW k \in 0..n
        PROVE  TokenAt(done, p[k], IF k = 0 THEN "between" ELSE "bare") \in TokenState
    <3>1. (IF k = 0 THEN "between" ELSE "bare") \in Places
      BY DEF Places
    <3> HIDE DEF n
    <3> QED BY <1>4, <3>1, TokenAtIs
  <2> HIDE DEF n
  <2> QED BY <2>1
<1>8. seqs \in Seq(Seq(Alphabet)) /\ Len(seqs) = n /\ \A j \in 1..n : seqs[j] = Walk!Plain(items[j])
  <2> HIDE DEF n, items
  <2> QED BY <1>2, <1>5 DEF Text
<1> HIDE DEF s, seqs
<1>9. ASSUME NEW k \in 1..n PROVE Run(TokenReads, s[k - 1], seqs[k]) = s[k]
  <2> DEFINE item == items[k]
             v == p[k - 1]
             at == IF k - 1 = 0 THEN "between" ELSE "bare"
  <2>1. k - 1 \in 0..n /\ k \in 0..n /\ k # 0
    BY <1>2
  <2>2. item.char \in Safe /\ item.char \notin Walk!Reserved \cup {" "}
    BY ItemIs
  <2>3. v \in Text /\ at \in {"between", "bare"}
    <3> HIDE DEF n
    <3> QED BY <1>4, <2>1
  <2>4. s[k - 1] = TokenAt(done, v, at)
    BY <1>7, <2>1
  <2>5. s[k] = TokenAt(done, v \o Walk!Plain(item), "bare")
    BY <1>4, <1>7, <2>1
  <2>6. seqs[k] = Walk!Plain(item)
    BY <1>8
  <2> HIDE DEF item, v, at
  <2>7. Run(TokenReads, TokenAt(done, v, at), Walk!Plain(item))
          = TokenAt(done, v \o Walk!Plain(item), "bare")
    BY <2>2, <2>3, TokenReadsBare
  <2> QED BY <2>4, <2>5, <2>6, <2>7
<1>10. Run(TokenReads, s[0], Walk!FlattenSeq(seqs)) = s[Len(seqs)]
  <2>1. Passes(s, TokenState, TokenReads, seqs)
    <3> HIDE DEF n
    <3> QED BY <1>7, <1>8, <1>9 DEF Passes
  <2> QED BY <1>8, <2>1, RunFlattens, TokenIsAutomaton
<1>11. s[0] = TokenAt(done, <<>>, "between")
  <2>1. 0 \in 0..n
    BY <1>2
  <2> QED BY <1>4, <1>7, <2>1
<1>12. s[n] = TokenAt(done, Walk!Value(items), "bare")
  <2>1. n \in 0..n /\ n # 0
    BY <1>2, <1>1 DEF Walk!WellWritten
  <2> QED BY <1>4, <1>7, <2>1
<1> QED BY <1>6, <1>8, <1>10, <1>11, <1>12

(* What stands inside of the quotes. *)
LEMMA InsideIsRead ==
  ASSUME NEW argument \in Walk!Argument, Walk!WellWritten(argument), argument.quoted,
         NEW done \in Seq(Token), NEW inside,
         inside = Walk!FlattenSeq([j \in DOMAIN argument.items |->
                                     Walk!InDoubleQuotes(argument.items[j])])
  PROVE  /\ inside \in Seq(Safe)
         /\ Run(TokenReads, TokenAt(done, <<>>, "quoted"), inside)
              = TokenAt(done, Walk!Value(argument.items), "quoted")
<1> DEFINE items == argument.items
           n == Len(items)
           seqs == [j \in 1..n |-> Walk!InDoubleQuotes(items[j])]
<1>1. items \in Seq(Walk!Item)
  BY ArgumentFields
<1>2. n \in Nat /\ DOMAIN items = 1..n
  <2> HIDE DEF items, Walk!Item
  <2> QED BY <1>1
<1>3. PICK p : Values(items, p)
  BY ValueIs
<1>4. /\ \A k \in 0..n : p[k] \in Text
      /\ p[0] = <<>>
      /\ \A k \in 1..n : p[k] = p[k - 1] \o Walk!Plain(items[k])
      /\ Walk!Value(items) = p[n]
  BY <1>3, SafeIsText DEF Values
<1>5. \A j \in 1..n : Walk!InDoubleQuotes(items[j]) \in Seq(Safe)
  BY ItemIs, WrittenItem
<1>6. inside = Walk!FlattenSeq(seqs)
  <2> HIDE DEF n
  <2> QED BY <1>2
<1> DEFINE s == [k \in 0..n |-> TokenAt(done, p[k], "quoted")]
<1>7. s \in [0..n -> TokenState] /\ \A k \in 0..n : s[k] = TokenAt(done, p[k], "quoted")
  <2>1. ASSUME NEW k \in 0..n PROVE TokenAt(done, p[k], "quoted") \in TokenState
    <3>1. "quoted" \in Places
      BY DEF Places
    <3> HIDE DEF n
    <3> QED BY <1>4, <3>1, TokenAtIs
  <2> HIDE DEF n
  <2> QED BY <2>1
<1>8. seqs \in [1..n -> Seq(Safe)] /\ \A j \in 1..n : seqs[j] = Walk!InDoubleQuotes(items[j])
  <2> HIDE DEF n, items
  <2> QED BY <1>2, <1>5
<1> HIDE DEF s, seqs
<1>9. seqs \in Seq(Text) /\ Len(seqs) = n
  <2> HIDE DEF n
  <2>1. seqs \in [1..n -> Text]
    BY <1>8, SafeIsText
  <2> QED BY <1>2, <2>1
<1>10. ASSUME NEW k \in 1..n PROVE Run(TokenReads, s[k - 1], seqs[k]) = s[k]
  <2> DEFINE item == items[k]
             v == p[k - 1]
  <2>1. k - 1 \in 0..n /\ k \in 0..n
    BY <1>2
  <2>2. item.char \in Safe /\ ~item.code
    BY ItemIs
  <2>3. v \in Text
    <3> HIDE DEF n
    <3> QED BY <1>4, <2>1
  <2>4. s[k - 1] = TokenAt(done, v, "quoted")
    BY <1>7, <2>1
  <2>5. s[k] = TokenAt(done, v \o Walk!Plain(item), "quoted")
    BY <1>4, <1>7, <2>1
  <2>6. seqs[k] = Walk!InDoubleQuotes(item)
    BY <1>8
  <2> HIDE DEF item, v
  <2>7. Run(TokenReads, TokenAt(done, v, "quoted"), Walk!InDoubleQuotes(item))
          = TokenAt(done, v \o Walk!Plain(item), "quoted")
    BY <2>2, <2>3, TokenReadsQuoted
  <2> QED BY <2>4, <2>5, <2>6, <2>7
<1>11. Run(TokenReads, s[0], Walk!FlattenSeq(seqs)) = s[Len(seqs)]
  <2>1. Passes(s, TokenState, TokenReads, seqs)
    <3> HIDE DEF n
    <3> QED BY <1>7, <1>9, <1>10 DEF Passes
  <2>2. seqs \in Seq(Seq(Alphabet))
    BY <1>9 DEF Text
  <2> QED BY <2>1, <2>2, RunFlattens, TokenIsAutomaton
<1>12. s[0] = TokenAt(done, <<>>, "quoted") /\ s[n] = TokenAt(done, Walk!Value(items), "quoted")
  <2>1. 0 \in 0..n /\ n \in 0..n
    BY <1>2
  <2> QED BY <1>4, <1>7, <2>1
<1>13. inside \in Seq(Safe)
  <2>1. PICK q \in [0..n -> Seq(Safe)] : Walk!FlattenSeq(seqs) = q[n]
    <3>1. \E q \in [0..n -> Seq(Safe)] :
            /\ q[0] = <<>> /\ \A k \in 1..n : q[k] = q[k - 1] \o seqs[k]
            /\ Walk!FlattenSeq(seqs) = q[n]
      <4> HIDE DEF n
      <4> QED BY <1>2, <1>8, FlattenIs
    <3> QED BY <3>1
  <2>2. q[n] \in Seq(Safe)
    <3> HIDE DEF n
    <3>1. n \in 0..n
      BY <1>2
    <3> QED BY <2>1, <3>1
  <2> HIDE DEF n
  <2> QED BY <1>6, <2>1, <2>2
<1> QED BY <1>6, <1>9, <1>11, <1>12, <1>13

(* An argument in double quotes. *)
LEMMA QuotedIsRead ==
  ASSUME NEW argument \in Walk!Argument, Walk!WellWritten(argument), argument.quoted,
         NEW done \in Seq(Token)
  PROVE  /\ Walk!Quoted(argument.items) \in Seq(Safe)
         /\ Run(TokenReads, TokenAt(done, <<>>, "between"), Walk!Quoted(argument.items))
              = TokenAt(Append(done, TokenOf(argument)), <<>>, "closed")
<1> DEFINE inside == Walk!FlattenSeq([j \in DOMAIN argument.items |->
                                        Walk!InDoubleQuotes(argument.items[j])])
           value == Walk!Value(argument.items)
           mark == <<"double">>
           base == TokenAt(done, <<>>, "between")
           open == TokenAt(done, <<>>, "quoted")
           full == TokenAt(done, value, "quoted")
           more == Append(done, TokenOf(argument))
           last == TokenAt(more, <<>>, "closed")
<1>1. inside \in Seq(Safe) /\ Run(TokenReads, open, inside) = full
  BY InsideIsRead
<1>2. Walk!Quoted(argument.items) = (mark \o inside) \o mark
  BY DEF Walk!Quoted
<1>3. "double" \in Alphabet /\ "double" \in Safe
  BY Letters DEF Safe, Walk!Unwritable
<1>4. mark \in Seq(Safe)
  BY <1>3
<1>5. value \in Text /\ TokenOf(argument) \in Token /\ <<>> \in Text
  BY ValueIsText, SafeIsText, TextGrows
<1>6. more \in Seq(Token)
  <2> HIDE DEF Token
  <2> QED BY <1>5
<1>7. "between" \in Places /\ "quoted" \in Places /\ "closed" \in Places
  BY DEF Places
<1> HIDE DEF inside, value, mark, more
<1>8. base \in TokenState /\ open \in TokenState /\ full \in TokenState /\ last \in TokenState
  BY <1>5, <1>6, <1>7, TokenAtIs
<1>9. Walk!TokenStep(base, "double") = open
  <2>1. Walk!OutsideQuotes(base, "double") = open
    BY DEF Walk!OutsideQuotes, Walk!At, TokenAt
  <2> QED BY <2>1 DEF Walk!TokenStep, TokenAt
<1>10. Walk!TokenStep(full, "double") = last
  <2>1. TokenOf(argument) = [value |-> value, quoted |-> TRUE]
    BY DEF TokenOf, value
  <2> QED BY <2>1 DEF Walk!TokenStep, Walk!InQuotes, Walk!Finish, TokenAt, more
<1> HIDE DEF base, open, full, last
<1>11. Run(TokenReads, base, mark) = open /\ Run(TokenReads, full, mark) = last
  <2>1. Run(TokenReads, base, <<"double">>) = Walk!TokenStep(base, "double")
    BY <1>3, <1>8, TokenReadsOne
  <2>2. Run(TokenReads, full, <<"double">>) = Walk!TokenStep(full, "double")
    BY <1>3, <1>8, TokenReadsOne
  <2> QED BY <1>9, <1>10, <2>1, <2>2 DEF mark
<1> DEFINE front == mark \o inside
<1>12. front \in Seq(Safe)
  BY <1>1, <1>4
<1>13. inside \in Seq(Alphabet) /\ mark \in Seq(Alphabet)
  BY <1>1, <1>4, SafeIsText DEF Text
<1>14. Run(TokenReads, base, front) = full
  <2>1. Run(TokenReads, base, mark \o inside) = Run(TokenReads, Run(TokenReads, base, mark), inside)
    BY <1>8, <1>13, RunJoins, TokenIsAutomaton
  <2> QED BY <1>1, <1>11, <2>1
<1> HIDE DEF front
<1>15. Run(TokenReads, base, front \o mark) = last
  <2>1. front \in Seq(Alphabet)
    BY <1>12, SafeIsText DEF Text
  <2>2. Run(TokenReads, base, front \o mark) = Run(TokenReads, Run(TokenReads, base, front), mark)
    BY <1>8, <1>13, <2>1, RunJoins, TokenIsAutomaton
  <2> QED BY <1>11, <1>14, <2>2
<1>16. front \o mark \in Seq(Safe)
  BY <1>4, <1>12
<1> QED BY <1>2, <1>15, <1>16 DEF front, base, last, more

LEMMA BlankIsPlain == " " \notin Walk!Reserved
BY DEF Walk!Reserved

LEMMA NothingHasNoLength ==
  ASSUME NEW seq PROVE (seq = <<>>) => (Len(seq) = 0)
OBVIOUS

LEMMA SafeJoins ==
  ASSUME NEW start \in TokenState, NEW a \in Seq(Safe), NEW b \in Seq(Safe)
  PROVE  /\ a \o b \in Seq(Safe)
         /\ Run(TokenReads, start, a \o b) = Run(TokenReads, Run(TokenReads, start, a), b)
<1>1. a \in Seq(Alphabet) /\ b \in Seq(Alphabet)
  BY SafeIsText DEF Text
<1>2. Run(TokenReads, start, a \o b) = Run(TokenReads, Run(TokenReads, start, a), b)
  BY <1>1, RunJoins, TokenIsAutomaton
<1>3. a \o b \in Seq(Safe)
  OBVIOUS
<1> QED BY <1>2, <1>3

(* Blanks and an argument, after a state that they may follow. *)
LEMMA ArgumentIsRead ==
  ASSUME NEW argument \in Walk!Argument, Walk!WellWritten(argument), NEW done \in Seq(Token),
         NEW start \in TokenState, Rests(TokenReads, start, TokenAt(done, <<>>, "between"), " "),
         (argument.blanks = 0) => (start = TokenAt(done, <<>>, "between"))
  PROVE  /\ Walk!Written(argument) \in Seq(Safe)
         /\ Run(TokenReads, start, Walk!Written(argument))
              = IF argument.quoted THEN TokenAt(Append(done, TokenOf(argument)), <<>>, "closed")
                ELSE TokenAt(done, Walk!Value(argument.items), "bare")
<1> DEFINE blanks == Blanks(argument.blanks)
           base == TokenAt(done, <<>>, "between")
           body == IF argument.quoted THEN Walk!Quoted(argument.items) ELSE Walk!Value(argument.items)
           last == IF argument.quoted THEN TokenAt(Append(done, TokenOf(argument)), <<>>, "closed")
                   ELSE TokenAt(done, Walk!Value(argument.items), "bare")
<1>1. body \in Seq(Safe) /\ Run(TokenReads, base, body) = last
  <2>1. CASE argument.quoted
    BY <2>1, QuotedIsRead
  <2>2. CASE ~argument.quoted
    BY <2>2, BareIsRead, ValueIsText
  <2> QED BY <2>1, <2>2
<1>2. argument.blanks \in Nat
  BY ArgumentFields
<1>3. /\ blanks \in Seq(Safe) /\ blanks \in Seq(Alphabet) /\ Len(blanks) = argument.blanks
      /\ Repeats(blanks, " ")
  BY <1>2, BlanksAre
<1>4. Walk!Written(argument) = blanks \o body
  BY DEF Walk!Written, Blanks
<1>5. base \in TokenState
  BY TokenAtIs, TextGrows DEF Places
<1>6. Rests(TokenReads, start, base, " ") /\ ((argument.blanks = 0) => (start = base))
  OBVIOUS
<1> HIDE DEF blanks, base, body, last
<1>7. Run(TokenReads, start, blanks) = base
  <2>1. (blanks = <<>>) => (start = base)
    <3>1. (blanks = <<>>) => (Len(blanks) = 0)
      BY NothingHasNoLength
    <3> QED BY <1>3, <1>6, <3>1
  <2> QED BY <1>3, <1>5, <1>6, <2>1, BlanksAreRead
<1>8. blanks \o body \in Seq(Safe) /\ Run(TokenReads, start, blanks \o body) = last
  <2>1. /\ blanks \o body \in Seq(Safe)
        /\ Run(TokenReads, start, blanks \o body) = Run(TokenReads, Run(TokenReads, start, blanks), body)
    BY <1>1, <1>3, SafeJoins
  <2> QED BY <1>1, <1>7, <2>1
<1> QED BY <1>4, <1>8 DEF last

(* The arguments of tokenize that those of the author become. *)
Tokens(author) == [i \in DOMAIN author |-> TokenOf(author[i])]

WrittenWell(author) == \A i \in 1..Len(author) : Walk!WellWritten(author[i])

LEMMA AuthorFields ==
  ASSUME NEW author \in Seq(Walk!Argument), WrittenWell(author)
  PROVE  /\ Len(author) \in Nat /\ DOMAIN author = 1..Len(author)
         /\ \A i \in 1..Len(author) : author[i] \in Walk!Argument /\ Walk!WellWritten(author[i])
<1> HIDE DEF Walk!Argument
<1> QED BY DEF WrittenWell

LEMMA TokensAre ==
  ASSUME NEW author \in Seq(Walk!Argument), WrittenWell(author)
  PROVE  /\ Tokens(author) \in Seq(Token) /\ Len(Tokens(author)) = Len(author)
         /\ \A i \in 1..Len(author) : Tokens(author)[i] = TokenOf(author[i])
<1> DEFINE n == Len(author)
<1>1. n \in Nat /\ DOMAIN author = 1..n
  BY AuthorFields
<1>2. \A i \in 1..n : TokenOf(author[i]) \in Token
  BY AuthorFields, ValueIsText
<1> HIDE DEF n
<1>3. Tokens(author) \in [1..n -> Token] /\ \A i \in 1..n : Tokens(author)[i] = TokenOf(author[i])
  BY <1>1, <1>2 DEF Tokens
<1>4. Tokens(author) \in Seq(Token)
  BY <1>1, <1>3
<1>5. Len(Tokens(author)) = n
  BY <1>1, <1>3
<1> QED BY <1>3, <1>4, <1>5 DEF n

(* The states of tokenize between the author's arguments. *)
AfterToken(author, k) ==
  IF k = 0 THEN TokenAt(<<>>, <<>>, "between")
  ELSE IF author[k].quoted THEN TokenAt(SubSeq(Tokens(author), 1, k), <<>>, "closed")
  ELSE TokenAt(SubSeq(Tokens(author), 1, k - 1), Walk!Value(author[k].items), "bare")

LEMMA AfterTokenIs ==
  ASSUME NEW author \in Seq(Walk!Argument), WrittenWell(author), NEW k \in 0..Len(author)
  PROVE  AfterToken(author, k) \in TokenState
<1> DEFINE some == SubSeq(Tokens(author), 1, k)
           fewer == SubSeq(Tokens(author), 1, k - 1)
           value == Walk!Value(author[k].items)
<1>1. "between" \in Places /\ "closed" \in Places /\ "bare" \in Places /\ <<>> \in Text
  BY TextGrows DEF Places
<1>2. CASE k = 0
  <2>1. <<>> \in Seq(Token)
    OBVIOUS
  <2> QED BY <1>1, <1>2, <2>1, TokenAtIs DEF AfterToken
<1>3. CASE k # 0
  <2>1. k \in 1..Len(author) /\ k - 1 \in 0..Len(author)
    BY <1>3, AuthorFields
  <2>2. value \in Text
    BY <2>1, AuthorFields, ValueIsText, SafeIsText
  <2>3. some \in Seq(Token) /\ fewer \in Seq(Token)
    BY <2>1, TokensAre, PrefixesAre
  <2> HIDE DEF some, fewer, value
  <2>4. TokenAt(some, <<>>, "closed") \in TokenState /\ TokenAt(fewer, value, "bare") \in TokenState
    BY <1>1, <2>2, <2>3, TokenAtIs
  <2> QED BY <1>3, <2>4 DEF AfterToken, some, fewer, value
<1> QED BY <1>2, <1>3

LEMMA AfterTokenRests ==
  ASSUME NEW author \in Seq(Walk!Argument), WrittenWell(author), NEW k \in 0..Len(author)
  PROVE  Rests(TokenReads, AfterToken(author, k),
               TokenAt(SubSeq(Tokens(author), 1, k), <<>>, "between"), " ")
<1> DEFINE some == SubSeq(Tokens(author), 1, k)
           start == AfterToken(author, k)
           base == TokenAt(some, <<>>, "between")
<1>1. " " \in Alphabet
  BY Letters
<1>2. some \in Seq(Token)
  BY TokensAre, PrefixesAre
<1> HIDE DEF some
<1>3. start \in TokenState /\ base \in TokenState
  BY <1>2, AfterTokenIs, TokenAtIs, TextGrows DEF Places
<1>4. Walk!TokenStep(base, " ") = base
  <2>1. Walk!OutsideQuotes(base, " ") = base
    BY BlankIsPlain DEF Walk!OutsideQuotes, TokenAt
  <2> QED BY <2>1 DEF Walk!TokenStep, TokenAt
<1>5. Walk!TokenStep(start, " ") = base
  <2>1. CASE k = 0
    <3>1. some = <<>>
      <4>1. SubSeq(Tokens(author), 1, 0) = <<>>
        BY TokensAre, PrefixesAre
      <4> QED BY <2>1, <4>1 DEF some
    <3> QED BY <1>4, <2>1, <3>1 DEF AfterToken
  <2>2. CASE k # 0 /\ author[k].quoted
    <3>1. start = TokenAt(some, <<>>, "closed")
      BY <2>2 DEF AfterToken, some
    <3> QED BY <3>1 DEF Walk!TokenStep, Walk!At, TokenAt
  <2>3. CASE k # 0 /\ ~author[k].quoted
    <3> DEFINE fewer == SubSeq(Tokens(author), 1, k - 1)
               value == Walk!Value(author[k].items)
    <3>1. start = TokenAt(fewer, value, "bare")
      BY <2>3 DEF AfterToken
    <3>2. some = Append(fewer, [value |-> value, quoted |-> FALSE])
      <4>1. k \in 1..Len(author)
        BY <2>3, AuthorFields
      <4>2. Append(fewer, Tokens(author)[k]) = some
        BY <4>1, TokensAre, PrefixesAre DEF some
      <4>3. author[k].quoted = FALSE
        BY <2>3, <4>1, AuthorFields, ArgumentFields
      <4>4. Tokens(author)[k] = [value |-> value, quoted |-> FALSE]
        <5>1. Tokens(author)[k] = TokenOf(author[k])
          BY <4>1, TokensAre
        <5> QED BY <4>3, <5>1 DEF TokenOf
      <4> QED BY <4>2, <4>4
    <3> HIDE DEF fewer, value, start
    <3>3. Walk!OutsideQuotes(start, " ") = base
      BY <3>1, <3>2, BlankIsPlain DEF Walk!OutsideQuotes, Walk!Finish, TokenAt
    <3> QED BY <3>1, <3>3 DEF Walk!TokenStep, TokenAt
  <2> QED BY <2>1, <2>2, <2>3
<1>6. TokenReads[<<start, " ">>] = Walk!TokenStep(start, " ")
      /\ TokenReads[<<base, " ">>] = Walk!TokenStep(base, " ")
  BY <1>1, <1>3 DEF TokenReads
<1> QED BY <1>4, <1>5, <1>6 DEF Rests, some

LEMMA ProperIsWritten ==
  ASSUME NEW author \in Seq(Walk!Argument), Walk!Proper(author)
  PROVE  /\ WrittenWell(author)
         /\ \A i \in 1..Len(author) : i > 1 => author[i].blanks > 0
<1>1. DOMAIN author = 1..Len(author)
  <2> HIDE DEF Walk!Argument
  <2> QED OBVIOUS
<1> QED BY <1>1 DEF Walk!Proper, WrittenWell

LEMMA AuthorIsRead ==
  ASSUME NEW author \in Seq(Walk!Argument), Walk!Proper(author), NEW k \in 1..Len(author)
  PROVE  /\ Walk!Written(author[k]) \in Seq(Safe)
         /\ Run(TokenReads, AfterToken(author, k - 1), Walk!Written(author[k]))
              = AfterToken(author, k)
<1> DEFINE argument == author[k]
           done == SubSeq(Tokens(author), 1, k - 1)
           more == SubSeq(Tokens(author), 1, k)
           start == AfterToken(author, k - 1)
<1>1. WrittenWell(author) /\ (k > 1 => argument.blanks > 0)
  BY ProperIsWritten
<1>2. k \in Nat /\ k # 0 /\ k - 1 \in 0..Len(author)
  BY <1>1, AuthorFields
<1>3. argument \in Walk!Argument /\ Walk!WellWritten(argument)
  BY <1>1, AuthorFields
<1>4. /\ Tokens(author) \in Seq(Token) /\ Len(Tokens(author)) = Len(author)
      /\ Tokens(author)[k] = TokenOf(argument)
  BY <1>1, TokensAre
<1>5. done \in Seq(Token)
  BY <1>2, <1>4, PrefixesAre
<1>6. Append(done, TokenOf(argument)) = more
  <2>1. Append(done, Tokens(author)[k]) = more
    BY <1>4, PrefixesAre
  <2> QED BY <1>4, <2>1
<1>7. start \in TokenState
  BY <1>1, <1>2, AfterTokenIs
<1>8. Rests(TokenReads, start, TokenAt(done, <<>>, "between"), " ")
  BY <1>1, <1>2, AfterTokenRests
<1>9. (argument.blanks = 0) => (start = TokenAt(done, <<>>, "between"))
  <2> SUFFICES ASSUME argument.blanks = 0 PROVE start = TokenAt(done, <<>>, "between")
    OBVIOUS
  <2>1. k = 1
    <3> HIDE DEF argument, start, done, more
    <3> QED BY <1>1, <1>2
  <2>2. SubSeq(Tokens(author), 1, 0) = <<>>
    BY <1>4, PrefixesAre
  <2>3. k - 1 = 0
    BY <2>1
  <2>4. done = <<>>
    BY <2>2, <2>3
  <2>5. start = TokenAt(<<>>, <<>>, "between")
    BY <2>3 DEF AfterToken
  <2> HIDE DEF done, start
  <2> QED BY <2>4, <2>5
<1>10. AfterToken(author, k) = IF argument.quoted THEN TokenAt(more, <<>>, "closed")
                               ELSE TokenAt(done, Walk!Value(argument.items), "bare")
  BY <1>2 DEF AfterToken
<1> HIDE DEF argument, done, more, start
<1>11. /\ Walk!Written(argument) \in Seq(Safe)
       /\ Run(TokenReads, start, Walk!Written(argument))
            = IF argument.quoted THEN TokenAt(Append(done, TokenOf(argument)), <<>>, "closed")
              ELSE TokenAt(done, Walk!Value(argument.items), "bare")
  BY <1>3, <1>5, <1>7, <1>8, <1>9, ArgumentIsRead
<1> QED BY <1>6, <1>10, <1>11 DEF argument, start

(* What tokenize makes of an Exec value is what its author put into it,    *)
(* argument by argument, each with its quoting: no blank, quote or escape  *)
(* joins two of them, splits one or changes a character (tokenize).        *)
THEOREM TokenizeReadsBack ==
  \A author \in Seq(Walk!Argument) :
    Walk!Proper(author) =>
      Walk!Writing(author) \in Seq(Safe) /\ Walk!Tokenize(Walk!Writing(author)) = Tokens(author)
<1> SUFFICES ASSUME NEW author \in Seq(Walk!Argument), Walk!Proper(author)
             PROVE  /\ Walk!Writing(author) \in Seq(Safe)
                    /\ Walk!Tokenize(Walk!Writing(author)) = Tokens(author)
  OBVIOUS
<1> DEFINE n == Len(author)
           seqs == [i \in 1..n |-> Walk!Written(author[i])]
           s == [k \in 0..n |-> AfterToken(author, k)]
           text == Walk!FlattenSeq(seqs)
           base == TokenAt(<<>>, <<>>, "between")
<1>1. WrittenWell(author)
  BY ProperIsWritten
<1>2. n \in Nat /\ DOMAIN author = 1..n
  BY <1>1, AuthorFields
<1>3. Walk!Writing(author) = text
  <2> HIDE DEF n
  <2> QED BY <1>2 DEF Walk!Writing
<1>4. seqs \in [1..n -> Seq(Safe)] /\ \A k \in 1..n : seqs[k] = Walk!Written(author[k])
  <2>1. \A k \in 1..n : Walk!Written(author[k]) \in Seq(Safe)
    BY AuthorIsRead
  <2> HIDE DEF n
  <2> QED BY <2>1
<1>5. s \in [0..n -> TokenState] /\ \A k \in 0..n : s[k] = AfterToken(author, k)
  <2>1. \A k \in 0..n : AfterToken(author, k) \in TokenState
    BY <1>1, AfterTokenIs
  <2> HIDE DEF n
  <2> QED BY <2>1
<1> HIDE DEF seqs, s
<1>6. seqs \in Seq(Text) /\ Len(seqs) = n
  <2> HIDE DEF n
  <2>1. seqs \in [1..n -> Text]
    BY <1>4, SafeIsText
  <2> QED BY <1>2, <2>1
<1>7. Passes(s, TokenState, TokenReads, seqs)
  <2>1. ASSUME NEW k \in 1..n PROVE Run(TokenReads, s[k - 1], seqs[k]) = s[k]
    <3>1. k - 1 \in 0..n /\ k \in 0..n
      BY <1>2
    <3> QED BY <1>4, <1>5, <3>1, AuthorIsRead
  <2> HIDE DEF n
  <2> QED BY <1>5, <1>6, <2>1 DEF Passes
<1>8. Run(TokenReads, s[0], text) = s[n]
  <2>1. seqs \in Seq(Seq(Alphabet))
    BY <1>6 DEF Text
  <2>2. Run(TokenReads, s[0], Walk!FlattenSeq(seqs)) = s[Len(seqs)]
    BY <1>7, <2>1, RunFlattens, TokenIsAutomaton
  <2> QED BY <1>6, <2>2
<1>9. text \in Seq(Safe)
  <2> HIDE DEF n
  <2>1. PICK q \in [0..n -> Seq(Safe)] : Walk!FlattenSeq(seqs) = q[n]
    <3>1. \E q \in [0..n -> Seq(Safe)] :
            /\ q[0] = <<>> /\ \A k \in 1..n : q[k] = q[k - 1] \o seqs[k]
            /\ Walk!FlattenSeq(seqs) = q[n]
      BY <1>2, <1>4, FlattenIs
    <3> QED BY <3>1
  <2>2. n \in 0..n
    BY <1>2
  <2>3. q[n] \in Seq(Safe)
    BY <2>1, <2>2
  <2> QED BY <2>1, <2>3
<1>10. s[0] = base /\ base \in TokenState
  <2>1. 0 \in 0..n
    BY <1>2
  <2> QED BY <1>5, <2>1 DEF AfterToken
<1>11. s[n] = AfterToken(author, n)
  <2>1. n \in 0..n
    BY <1>2
  <2> QED BY <1>5, <2>1
<1> DEFINE end == Walk!FoldLeft(Walk!TokenStep, base, text)
<1> HIDE DEF text
<1>12. end = AfterToken(author, n)
  <2>1. text \in Text
    BY <1>9, SafeIsText
  <2>2. end = Run(TokenReads, base, text)
    BY <1>10, <2>1, TokenRuns
  <2> QED BY <1>8, <1>10, <1>11, <2>2
<1>13. Walk!Tokenize(text) = CASE end.at \in {"between", "closed"} -> end.arguments
                               [] end.at = "bare" -> Walk!Finish(end, FALSE, "between").arguments
                               [] OTHER -> None
  BY DEF Walk!Tokenize, TokenAt
<1>14. Tokens(author) \in Seq(Token) /\ Len(Tokens(author)) = n
       /\ SubSeq(Tokens(author), 1, n) = Tokens(author)
  BY <1>1, TokensAre, PrefixesAre
<1> HIDE DEF end
<1>15. Walk!Tokenize(text) = Tokens(author)
  <2>1. CASE n = 0
    <3>1. Tokens(author) = <<>>
      <4> HIDE DEF n
      <4> QED BY <1>14, <2>1
    <3>2. end.at = "between" /\ end.arguments = <<>>
      BY <1>12, <2>1 DEF AfterToken, TokenAt
    <3> QED BY <1>13, <3>1, <3>2
  <2>2. CASE n # 0 /\ author[n].quoted
    <3>1. end.at = "closed" /\ end.arguments = SubSeq(Tokens(author), 1, n)
      BY <1>12, <2>2 DEF AfterToken, TokenAt
    <3> QED BY <1>13, <1>14, <3>1
  <2>3. CASE n # 0 /\ ~author[n].quoted
    <3> DEFINE fewer == SubSeq(Tokens(author), 1, n - 1)
               value == Walk!Value(author[n].items)
               token == [value |-> value, quoted |-> FALSE]
    <3>1. end.at = "bare" /\ end.arguments = fewer /\ end.value = value
      BY <1>12, <2>3 DEF AfterToken, TokenAt
    <3>2. n \in 1..Len(author)
      <4> HIDE DEF fewer, value
      <4> QED BY <1>2, <2>3
    <3>3. Append(fewer, Tokens(author)[n]) = Tokens(author)
      <4>1. Append(fewer, Tokens(author)[n]) = SubSeq(Tokens(author), 1, n)
        BY <1>14, <3>2, PrefixesAre
      <4> QED BY <1>14, <4>1
    <3>4. Tokens(author)[n] = token
      <4>1. Tokens(author)[n] = TokenOf(author[n])
        BY <1>1, <3>2, TokensAre
      <4>2. author[n].quoted = FALSE
        BY <1>1, <2>3, <3>2, AuthorFields, ArgumentFields
      <4> QED BY <4>1, <4>2 DEF TokenOf
    <3>5. Walk!Finish(end, FALSE, "between").arguments = Append(fewer, token)
      BY <3>1 DEF Walk!Finish
    <3> HIDE DEF fewer, value, token
    <3> QED BY <1>13, <3>1, <3>3, <3>4, <3>5
  <2> QED BY <2>1, <2>2, <2>3
<1> QED BY <1>3, <1>9, <1>15

-----------------------------------------------------------------------------
(* What the loop over the characters of one argument makes of them         *)

PercentState == [out : Text, percent : BOOLEAN, seen : BOOLEAN, ok : BOOLEAN]
PercentAt(out, percent, met, ok) == [out |-> out, percent |-> percent, seen |-> met, ok |-> ok]
PercentReads(token, name, file) ==
  [q \in PercentState \X Alphabet |-> Walk!PercentStep(q[1], q[2], token, name, file)]

LEMMA NoneIsNoText == None \notin Text
BY AuthorAssumption DEF Text

LEMMA PercentAtIs ==
  ASSUME NEW out \in Text, NEW percent \in BOOLEAN, NEW met \in BOOLEAN, NEW ok \in BOOLEAN
  PROVE  PercentAt(out, percent, met, ok) \in PercentState
BY DEF PercentAt, PercentState

LEMMA ExpansionIs ==
  ASSUME NEW token \in Token, NEW name \in Text, NEW file \in Text, NEW met \in BOOLEAN,
         NEW c \in Alphabet
  PROVE  Walk!Expansion(c, token, met, name, file) \in Text \cup {None}
<1>1. <<"%">> \in Text /\ <<>> \in Text
  BY Letters, TextGrows
<1> HIDE DEF Text
<1> QED BY <1>1 DEF Walk!Expansion

LEMMA PercentStays ==
  ASSUME NEW token \in Token, NEW name \in Text, NEW file \in Text
  PROVE  \A s \in PercentState, c \in Alphabet :
           Walk!PercentStep(s, c, token, name, file) \in PercentState
<1> SUFFICES ASSUME NEW s \in PercentState, NEW c \in Alphabet
             PROVE  Walk!PercentStep(s, c, token, name, file) \in PercentState
  OBVIOUS
<1> DEFINE o == s.out
           p == s.percent
           x == s.seen
           k == s.ok
           value == Walk!Expansion(c, token, x, name, file)
           longer == Append(o, c)
           joined == o \o value
           more == x \/ (c \in Walk!FileCodes /\ ~token.quoted)
<1>1. o \in Text /\ p \in BOOLEAN /\ x \in BOOLEAN /\ k \in BOOLEAN
  BY DEF PercentState
<1>2. value \in Text \cup {None}
  BY <1>1, ExpansionIs
<1>3. longer \in Text /\ (value # None => joined \in Text)
  <2>1. longer \in Text
    BY <1>1, TextGrows
  <2> HIDE DEF value
  <2>2. ASSUME value # None PROVE joined \in Text
    <3>1. value \in Seq(Alphabet) /\ o \in Seq(Alphabet)
      BY <1>1, <1>2, <2>2 DEF Text
    <3> HIDE DEF o
    <3> QED BY <3>1 DEF Text
  <2> QED BY <2>1, <2>2
<1>4. s = PercentAt(o, p, x, k)
  BY DEF PercentState, PercentAt
<1>5. more \in BOOLEAN
  OBVIOUS
<1>6. \/ Walk!PercentStep(s, c, token, name, file) \in
           {s, PercentAt(o, TRUE, x, k), PercentAt(longer, p, x, k), PercentAt(o, p, x, FALSE)}
      \/ value # None /\ Walk!PercentStep(s, c, token, name, file) = PercentAt(joined, FALSE, more, k)
  <2> HIDE DEF value, more
  <2> QED BY <1>1, <1>4 DEF Walk!PercentStep, PercentAt, value, more
<1> HIDE DEF o, p, x, k, value, longer, joined, more
<1>7. /\ PercentAt(o, TRUE, x, k) \in PercentState /\ PercentAt(longer, p, x, k) \in PercentState
      /\ PercentAt(o, p, x, FALSE) \in PercentState
      /\ value # None => PercentAt(joined, FALSE, more, k) \in PercentState
  BY <1>1, <1>3, <1>5, PercentAtIs
<1> QED BY <1>6, <1>7

LEMMA PercentIsAutomaton ==
  ASSUME NEW token \in Token, NEW name \in Text, NEW file \in Text
  PROVE  Automaton(PercentReads(token, name, file), PercentState, Alphabet)
BY PercentStays DEF Automaton, PercentReads

LEMMA PercentReadsOne ==
  ASSUME NEW token \in Token, NEW name \in Text, NEW file \in Text,
         NEW s \in PercentState, NEW c \in Alphabet
  PROVE  Run(PercentReads(token, name, file), s, <<c>>) = Walk!PercentStep(s, c, token, name, file)
<1>1. Run(PercentReads(token, name, file), s, <<c>>) = PercentReads(token, name, file)[<<s, c>>]
  BY PercentIsAutomaton, RunOfOne
<1>2. PercentReads(token, name, file)[<<s, c>>] = Walk!PercentStep(s, c, token, name, file)
  BY DEF PercentReads
<1> QED BY <1>1, <1>2

LEMMA PercentReadsTwo ==
  ASSUME NEW token \in Token, NEW name \in Text, NEW file \in Text,
         NEW s \in PercentState, NEW c \in Alphabet, NEW d \in Alphabet
  PROVE  Run(PercentReads(token, name, file), s, <<c, d>>)
           = Walk!PercentStep(Walk!PercentStep(s, c, token, name, file), d, token, name, file)
<1> DEFINE step == PercentReads(token, name, file)
           between == Walk!PercentStep(s, c, token, name, file)
<1>1. Run(step, s, <<c, d>>) = step[<<step[<<s, c>>], d>>]
  BY PercentIsAutomaton, RunOfTwo
<1>2. \A v \in PercentState, e \in Alphabet :
        step[<<v, e>>] = Walk!PercentStep(v, e, token, name, file)
  BY DEF PercentReads
<1>3. between \in PercentState
  BY PercentStays
<1> HIDE DEF step
<1>4. step[<<s, c>>] = between
  BY <1>2
<1> HIDE DEF between
<1>5. step[<<between, d>>] = Walk!PercentStep(between, d, token, name, file)
  BY <1>2, <1>3
<1>6. Run(step, s, <<c, d>>) = Walk!PercentStep(between, d, token, name, file)
  BY <1>1, <1>4, <1>5
<1> QED BY <1>6 DEF step, between

(* The fold of Expanded is a run. *)
LEMMA PercentRuns ==
  ASSUME NEW token \in Token, NEW name \in Text, NEW file \in Text,
         NEW base \in PercentState, NEW text \in Text
  PROVE  Walk!FoldLeft(LAMBDA s, c : Walk!PercentStep(s, c, token, name, file), base, text)
           = Run(PercentReads(token, name, file), base, text)
<1> DEFINE step == PercentReads(token, name, file)
           Step(s, c) == Walk!PercentStep(s, c, token, name, file)
           F(h) == h = [s \in SUBSET (DOMAIN text) |->
                          IF s = {} THEN base ELSE Step(h[s \ {Max(s)}], text[Max(s)])]
           H == CHOOSE h : F(h)
           n == Len(text)
<1>1. Walk!FoldLeft(LAMBDA s, c : Walk!PercentStep(s, c, token, name, file), base, text)
        = H[DOMAIN text]
  BY DEF Walk!FoldLeft, Walk!MapThenFoldSet, Walk!Max, Max
<1>2. n \in Nat /\ DOMAIN text = 1..n /\ \A k \in 1..n : text[k] \in Alphabet
  BY DEF Text
<1>3. \A s \in SUBSET (1..n) : s # {} => text[Max(s)] \in Alphabet
  BY <1>2, MaxIs
<1>4. \A v \in PercentState, c \in Alphabet : step[<<v, c>>] = Step(v, c)
  BY DEF PercentReads
<1> HIDE DEF step, Step
<1>5. PICK g \in [SUBSET (1..n) -> PercentState] : Unfolds(g, step, base, text)
  BY UnfoldExists, PercentIsAutomaton DEF Text, step
<1>6. \E h : F(h)
  <2>1. ASSUME NEW s \in SUBSET (1..n)
        PROVE  g[s] = IF s = {} THEN base ELSE Step(g[s \ {Max(s)}], text[Max(s)])
    <3>1. s \ {Max(s)} \in SUBSET (1..n)
      OBVIOUS
    <3>2. g[s \ {Max(s)}] \in PercentState
      BY <3>1
    <3> QED BY <1>3, <1>4, <1>5, <3>2 DEF Unfolds
  <2>2. F(g)
    BY <1>2, <2>1
  <2> QED BY <2>2
<1>7. F(H)
  <2> HIDE DEF F
  <2> QED BY <1>6
<1> HIDE DEF H
<1>8. \A s \in SUBSET (1..n) :
        H[s] = IF s = {} THEN base ELSE Step(H[s \ {Max(s)}], text[Max(s)])
  BY <1>2, <1>7
<1>9. H[{}] = base
  <2>1. {} \in SUBSET (1..n)
    OBVIOUS
  <2> QED BY <1>8, <2>1
<1>10. \A s \in SUBSET (1..n) :
         (s # {} /\ H[s \ {Max(s)}] \in PercentState) =>
           H[s] = step[<<H[s \ {Max(s)}], text[Max(s)]>>]
  BY <1>3, <1>4, <1>8
<1>11. H[1..n] = Run(step, base, text)
  <2>1. text \in Seq(Alphabet)
    BY DEF Text
  <2>2. Follows(H, PercentState, step, base, text)
    BY <1>9, <1>10 DEF Follows
  <2>3. Automaton(step, PercentState, Alphabet)
    BY PercentIsAutomaton DEF step
  <2> HIDE DEF F
  <2> QED BY <2>1, <2>2, <2>3, UnfoldRuns
<1> QED BY <1>1, <1>2, <1>11 DEF step

(* An argument of one item. *)
LEMMA LoneValue ==
  ASSUME NEW argument \in Walk!Argument, Walk!WellWritten(argument), Len(argument.items) = 1
  PROVE  Walk!Value(argument.items) = Walk!Plain(argument.items[1])
<1> DEFINE items == argument.items
           first == Walk!Plain(items[1])
<1>1. PICK p : Values(items, p)
  BY ValueIs
<1>2. 1 \in 1..Len(items) /\ 1 - 1 = 0
  OBVIOUS
<1>3. p[1] = <<>> \o first /\ Walk!Value(items) = p[1]
  BY <1>1, <1>2 DEF Values
<1>4. first \in Seq(Safe)
  BY <1>2, ItemIs, WrittenItem
<1> HIDE DEF first, items
<1>5. <<>> \o first = first
  BY <1>4
<1>6. Walk!Value(items) = first
  BY <1>3, <1>5
<1> QED BY <1>6 DEF first, items

LEMMA LoneIcon ==
  ASSUME NEW argument \in Walk!Argument, Walk!WellWritten(argument),
         NEW j \in 1..Len(argument.items), argument.items[j].code, argument.items[j].char = "i"
  PROVE  argument.items = <<Walk!Code("i")>>
<1> DEFINE items == argument.items
           icon == Walk!Code("i")
<1>1. items \in Seq(Walk!Item)
  BY ArgumentFields
<1>2. items[j] \in Walk!Item /\ Walk!MayStandIn(argument, items[j])
  BY ItemIs
<1>3. items[j] = icon
  BY <1>2 DEF Walk!Item, Walk!Code
<1>4. Len(items) = 1
  BY <1>2 DEF Walk!MayStandIn
<1>5. j = 1
  BY <1>4
<1> HIDE DEF items, icon, Walk!Item
<1>6. items = <<icon>>
  BY <1>1, <1>3, <1>4, <1>5
<1> QED BY <1>6 DEF items, icon

(* That a file code was met, now or before. *)
Marks(met, c, token) == met \/ (c \in Walk!FileCodes /\ ~token.quoted)

(* What a percent sign and a character come to. *)
LEMMA PairExpands ==
  ASSUME NEW token \in Token, NEW name \in Text, NEW file \in Text, NEW out \in Text,
         NEW met \in BOOLEAN, NEW c \in Alphabet,
         Walk!Expansion(c, token, met, name, file) # None
  PROVE  Run(PercentReads(token, name, file), PercentAt(out, FALSE, met, TRUE), <<"%", c>>)
           = PercentAt(out \o Walk!Expansion(c, token, met, name, file), FALSE,
                       Marks(met, c, token), TRUE)
<1> DEFINE base == PercentAt(out, FALSE, met, TRUE)
           half == PercentAt(out, TRUE, met, TRUE)
           value == Walk!Expansion(c, token, met, name, file)
<1>1. base \in PercentState /\ "%" \in Alphabet
  BY PercentAtIs, Letters
<1>2. Run(PercentReads(token, name, file), base, <<"%", c>>)
        = Walk!PercentStep(Walk!PercentStep(base, "%", token, name, file), c, token, name, file)
  <2> HIDE DEF base, half, value
  <2> QED BY <1>1, PercentReadsTwo
<1>3. Walk!PercentStep(base, "%", token, name, file) = half
  BY DEF Walk!PercentStep, PercentAt
<1>4. Walk!PercentStep(half, c, token, name, file)
        = PercentAt(out \o value, FALSE, Marks(met, c, token), TRUE)
  <2>1. value # None
    OBVIOUS
  <2> HIDE DEF value
  <2> QED BY <2>1 DEF Walk!PercentStep, PercentAt, value, Marks
<1> HIDE DEF base, half, value
<1> QED BY <1>2, <1>3, <1>4 DEF base, value

(* Where it is known to be what the author meant. *)
LEMMA CodeExpands ==
  ASSUME NEW argument \in Walk!Argument, Walk!WellWritten(argument),
         NEW j \in 1..Len(argument.items), NEW item, item = argument.items[j], item.code,
         argument.items # <<Walk!Code("i")>>,
         NEW name \in Text, NEW file \in Text, NEW met \in BOOLEAN,
         Walk!IsFileCode(item) => ~met
  PROVE  Walk!Expansion(item.char, TokenOf(argument), met, name, file)
           = Walk!ItemMeaning(item, name, file)
<1> DEFINE c == item.char
           token == TokenOf(argument)
<1>1. Walk!MayStandIn(argument, item) /\ item.code \in BOOLEAN /\ argument.quoted \in BOOLEAN
  BY ItemIs, ArgumentFields
<1>2. c # "i"
  BY LoneIcon
<1>3. ~argument.quoted /\ c \in Walk!FileCodes \cup Walk!Deprecated \cup {"c", "k"}
  BY <1>1, <1>2 DEF Walk!MayStandIn
<1>4. ~token.quoted
  BY <1>3 DEF TokenOf
<1>5. c \in {"F", "U"} => Len(token.value) = 2
  <2> SUFFICES ASSUME c \in {"F", "U"} PROVE Len(token.value) = 2
    OBVIOUS
  <2>1. Len(argument.items) = 1
    BY <1>1 DEF Walk!MayStandIn
  <2>2. j = 1
    BY <2>1
  <2>3. token.value = Walk!Plain(item)
    BY <2>1, <2>2, LoneValue DEF TokenOf
  <2>4. Walk!Plain(item) = <<"%", c>>
    BY DEF Walk!Plain
  <2>5. Len(<<"%", c>>) = 2
    OBVIOUS
  <2> QED BY <2>3, <2>4, <2>5
<1>6. c \in Walk!FileCodes => ~met
  BY DEF Walk!IsFileCode
<1> HIDE DEF token
<1>7. CASE c \in Walk!FileCodes
  <2>1. c # "%" /\ c # "c" /\ c # "k"
    BY <1>7 DEF Walk!FileCodes
  <2>2. Walk!Expansion(c, token, met, name, file) = <<>>
    BY <1>4, <1>5, <1>6, <1>7, <2>1 DEF Walk!Expansion, Walk!FileCodes, Walk!Deprecated
  <2>3. Walk!ItemMeaning(item, name, file) = <<>>
    BY <2>1 DEF Walk!ItemMeaning
  <2> QED BY <2>2, <2>3 DEF token
<1>8. CASE c \in Walk!Deprecated
  <2>1. c # "%" /\ c # "c" /\ c # "k" /\ c \notin Walk!FileCodes
    BY <1>8 DEF Walk!FileCodes, Walk!Deprecated
  <2>2. Walk!Expansion(c, token, met, name, file) = <<>>
    BY <1>4, <1>8, <2>1 DEF Walk!Expansion
  <2>3. Walk!ItemMeaning(item, name, file) = <<>>
    BY <2>1 DEF Walk!ItemMeaning
  <2> QED BY <2>2, <2>3 DEF token
<1>9. CASE c = "c"
  <2>1. c # "%" /\ c # "k" /\ c \notin Walk!FileCodes /\ c \notin Walk!Deprecated
    BY <1>9 DEF Walk!FileCodes, Walk!Deprecated
  <2>2. Walk!Expansion(c, token, met, name, file) = name
    BY <1>4, <1>9, <2>1 DEF Walk!Expansion
  <2>3. Walk!ItemMeaning(item, name, file) = name
    BY <1>9 DEF Walk!ItemMeaning
  <2> QED BY <2>2, <2>3 DEF token
<1>10. CASE c = "k"
  <2>1. c # "%" /\ c # "c" /\ c \notin Walk!FileCodes /\ c \notin Walk!Deprecated
    BY <1>10 DEF Walk!FileCodes, Walk!Deprecated
  <2>2. Walk!Expansion(c, token, met, name, file) = file
    BY <1>4, <1>10, <2>1 DEF Walk!Expansion
  <2>3. Walk!ItemMeaning(item, name, file) = file
    BY <1>10 DEF Walk!ItemMeaning
  <2> QED BY <2>2, <2>3 DEF token
<1> QED BY <1>3, <1>7, <1>8, <1>9, <1>10

LEMMA ItemMeaningIs ==
  ASSUME NEW item, item.char \in Safe, NEW name \in Text, NEW file \in Text
  PROVE  Walk!ItemMeaning(item, name, file) \in Text
<1>1. <<item.char>> \in Text /\ <<>> \in Text
  BY TextGrows DEF Safe
<1> HIDE DEF Text
<1> QED BY <1>1 DEF Walk!ItemMeaning

(* An item comes to what it means. *)
LEMMA ItemExpands ==
  ASSUME NEW argument \in Walk!Argument, Walk!WellWritten(argument),
         NEW j \in 1..Len(argument.items), NEW item, item = argument.items[j],
         argument.items # <<Walk!Code("i")>>,
         NEW name \in Text, NEW file \in Text, NEW met \in BOOLEAN, NEW out \in Text,
         Walk!IsFileCode(item) => ~met
  PROVE  Run(PercentReads(TokenOf(argument), name, file), PercentAt(out, FALSE, met, TRUE),
             Walk!Plain(item))
           = PercentAt(out \o Walk!ItemMeaning(item, name, file), FALSE,
                       met \/ Walk!IsFileCode(item), TRUE)
<1> DEFINE c == item.char
           token == TokenOf(argument)
           step == PercentReads(token, name, file)
           base == PercentAt(out, FALSE, met, TRUE)
           value == Walk!ItemMeaning(item, name, file)
           more == met \/ Walk!IsFileCode(item)
<1>1. /\ item.code \in BOOLEAN /\ c \in Safe /\ c \in Alphabet
      /\ item.code => ~argument.quoted
  <2>1. item.code \in BOOLEAN /\ c \in Safe /\ (argument.quoted => ~item.code)
    BY ItemIs
  <2> QED BY <2>1 DEF Safe
<1>2. token \in Token /\ token.quoted = argument.quoted
  <2>1. token.quoted = argument.quoted
    BY DEF TokenOf
  <2> QED BY <2>1, ValueIsText
<1>3. value \in Text /\ value # None
  BY <1>1, ItemMeaningIs, NoneIsNoText
<1>4. base \in PercentState
  BY PercentAtIs
<1>5. CASE item.code
  <2>1. Walk!Expansion(c, token, met, name, file) = value
    BY <1>5, CodeExpands
  <2>2. Walk!Plain(item) = <<"%", c>>
    BY <1>5 DEF Walk!Plain
  <2>3. more = Marks(met, c, token)
    BY <1>1, <1>2, <1>5 DEF Walk!IsFileCode, Marks
  <2> HIDE DEF value, c, token, more
  <2>4. Run(PercentReads(token, name, file), PercentAt(out, FALSE, met, TRUE), <<"%", c>>)
          = PercentAt(out \o Walk!Expansion(c, token, met, name, file), FALSE,
                      Marks(met, c, token), TRUE)
    <3>1. Walk!Expansion(c, token, met, name, file) # None
      BY <1>3, <2>1
    <3>2. c \in Alphabet /\ token \in Token
      BY <1>1, <1>2
    <3> QED BY <3>1, <3>2, PairExpands, ZenonT(30)
  <2> QED BY <2>1, <2>2, <2>3, <2>4 DEF value, c, token, more
<1>6. CASE ~item.code /\ c = "%"
  <2>1. value = <<"%">>
    BY <1>6 DEF Walk!ItemMeaning
  <2>2. Walk!Expansion("%", token, met, name, file) = <<"%">>
    <3>1. "%" \notin Walk!FileCodes /\ "%" \notin Walk!Deprecated
      BY DEF Walk!FileCodes, Walk!Deprecated
    <3> QED BY <3>1 DEF Walk!Expansion
  <2>3. Walk!Plain(item) = <<"%", c>>
    BY <1>6 DEF Walk!Plain
  <2>4. more = Marks(met, c, token)
    <3>1. "%" \notin Walk!FileCodes
      BY DEF Walk!FileCodes
    <3> QED BY <1>6, <3>1 DEF Walk!IsFileCode, Marks
  <2>5. Walk!Expansion(c, token, met, name, file) = value
    BY <1>6, <2>1, <2>2
  <2> HIDE DEF value, c, token, more
  <2>6. Run(PercentReads(token, name, file), PercentAt(out, FALSE, met, TRUE), <<"%", c>>)
          = PercentAt(out \o Walk!Expansion(c, token, met, name, file), FALSE,
                      Marks(met, c, token), TRUE)
    <3>1. Walk!Expansion(c, token, met, name, file) # None
      BY <1>3, <2>5
    <3>2. c \in Alphabet /\ token \in Token
      BY <1>1, <1>2
    <3> QED BY <3>1, <3>2, PairExpands, ZenonT(30)
  <2> QED BY <2>3, <2>4, <2>5, <2>6 DEF value, c, token, more
<1>7. CASE ~item.code /\ c # "%"
  <2>1. Walk!Plain(item) = <<c>> /\ value = <<c>>
    BY <1>7 DEF Walk!Plain, Walk!ItemMeaning
  <2>2. Run(step, base, <<c>>) = Walk!PercentStep(base, c, token, name, file)
    BY <1>1, <1>2, <1>4, PercentReadsOne
  <2>3. Walk!PercentStep(base, c, token, name, file) = PercentAt(Append(out, c), FALSE, met, TRUE)
    BY <1>7 DEF Walk!PercentStep, PercentAt
  <2>4. out \o <<c>> = Append(out, c)
    <3> HIDE DEF c
    <3>1. out \in Seq(Alphabet)
      BY DEF Text
    <3> QED BY <1>1, <3>1, JoinOne
  <2>5. more = met
    BY <1>7 DEF Walk!IsFileCode
  <2> HIDE DEF base, c, step, more, value
  <2> QED BY <2>1, <2>2, <2>3, <2>4, <2>5 DEF step, base, value, more
<1> QED BY <1>1, <1>5, <1>6, <1>7

(* That a file code was met before, or among the first items. *)
MetBy(met, items, k) == met \/ \E j \in 1..k : Walk!IsFileCode(items[j])

(* No two items ask for a file. *)
OneFile(items) ==
  \A j, l \in 1..Len(items) : (Walk!IsFileCode(items[j]) /\ Walk!IsFileCode(items[l])) => j = l

LEMMA MetGrows ==
  ASSUME NEW items, Len(items) \in Nat, OneFile(items), NEW met \in BOOLEAN,
         MetBy(FALSE, items, Len(items)) => ~met, NEW k \in 1..Len(items)
  PROVE  /\ MetBy(met, items, k) = (MetBy(met, items, k - 1) \/ Walk!IsFileCode(items[k]))
         /\ Walk!IsFileCode(items[k]) => ~MetBy(met, items, k - 1)
<1>1. k \in Nat /\ \A j \in 1..k : j \in 1..(k - 1) \/ j = k
  OBVIOUS
<1>2. k \in 1..k /\ \A j \in 1..(k - 1) : j \in 1..k /\ j # k /\ j \in 1..Len(items)
  OBVIOUS
<1>3. MetBy(met, items, k) = (MetBy(met, items, k - 1) \/ Walk!IsFileCode(items[k]))
  BY <1>1, <1>2 DEF MetBy
<1>4. ASSUME Walk!IsFileCode(items[k]) PROVE ~MetBy(met, items, k - 1)
  <2>1. ~met
    BY <1>4 DEF MetBy
  <2>2. ASSUME NEW j \in 1..(k - 1) PROVE ~Walk!IsFileCode(items[j])
    BY <1>2, <1>4 DEF OneFile
  <2> QED BY <2>1, <2>2 DEF MetBy
<1> QED BY <1>3, <1>4

(* An argument comes to what its items mean, unless it is the icon's. *)
LEMMA ArgumentExpands ==
  ASSUME NEW argument \in Walk!Argument, Walk!WellWritten(argument),
         argument.items # <<Walk!Code("i")>>, OneFile(argument.items),
         NEW name \in Text, NEW file \in Text, NEW met \in BOOLEAN,
         MetBy(FALSE, argument.items, Len(argument.items)) => ~met
  PROVE  /\ Walk!Spelled(argument.items, name, file) \in Text
         /\ Walk!Expanded(TokenOf(argument), met, name, file)
              = PercentAt(Walk!Spelled(argument.items, name, file), FALSE,
                          MetBy(met, argument.items, Len(argument.items)), TRUE)
<1> DEFINE items == argument.items
           n == Len(items)
           token == TokenOf(argument)
           step == PercentReads(token, name, file)
           means == [j \in 1..n |-> Walk!ItemMeaning(items[j], name, file)]
           seqs == [j \in 1..n |-> Walk!Plain(items[j])]
           value == Walk!Value(items)
           spelled == Walk!Spelled(items, name, file)
           base == PercentAt(<<>>, FALSE, met, TRUE)
           last == PercentAt(spelled, FALSE, MetBy(met, items, n), TRUE)
<1>1. items \in Seq(Walk!Item)
  BY ArgumentFields
<1>2. n \in Nat /\ DOMAIN items = 1..n
  <2> HIDE DEF items, Walk!Item
  <2> QED BY <1>1
<1>3. token \in Token /\ value \in Text /\ token.value = value
  <2>1. value \in Seq(Safe) /\ token \in Token
    BY ValueIsText
  <2>2. token.value = value
    BY DEF TokenOf
  <2> HIDE DEF value, token
  <2> QED BY <2>1, <2>2, SafeIsText
<1>4. means \in [1..n -> Text] /\ \A j \in 1..n : means[j] = Walk!ItemMeaning(items[j], name, file)
  <2>1. \A j \in 1..n : Walk!ItemMeaning(items[j], name, file) \in Text
    BY ItemIs, ItemMeaningIs
  <2> HIDE DEF n, items
  <2> QED BY <2>1
<1>5. seqs \in [1..n -> Text] /\ \A j \in 1..n : seqs[j] = Walk!Plain(items[j])
  <2>1. \A j \in 1..n : Walk!Plain(items[j]) \in Text
    <3>1. \A j \in 1..n : Walk!Plain(items[j]) \in Seq(Safe)
      BY ItemIs, WrittenItem
    <3> QED BY <3>1, SafeIsText
  <2> HIDE DEF n, items
  <2> QED BY <2>1
<1>6. spelled = Walk!FlattenSeq(means) /\ value = Walk!FlattenSeq(seqs)
  <2> HIDE DEF n, items
  <2> QED BY <1>2 DEF Walk!Spelled, Walk!Value
<1> HIDE DEF means, seqs
<1>7. PICK p \in [0..n -> Text] :
        /\ p[0] = <<>> /\ \A k \in 1..n : p[k] = p[k - 1] \o means[k]
        /\ Walk!FlattenSeq(means) = p[n]
  <2>1. means \in [1..n -> Seq(Alphabet)]
    BY <1>4 DEF Text
  <2> HIDE DEF n
  <2> QED BY <1>2, <2>1, FlattenIs DEF Text
<1>8. 0 \in 0..n /\ n \in 0..n /\ \A k \in 1..n : k \in 0..n /\ k - 1 \in 0..n
  <2> HIDE DEF n
  <2> QED BY <1>2
<1>9. spelled \in Text
  <2> HIDE DEF spelled, n
  <2> QED BY <1>6, <1>7, <1>8
<1> DEFINE s == [k \in 0..n |-> PercentAt(p[k], FALSE, MetBy(met, items, k), TRUE)]
<1>10. s \in [0..n -> PercentState]
       /\ \A k \in 0..n : s[k] = PercentAt(p[k], FALSE, MetBy(met, items, k), TRUE)
  <2>1. ASSUME NEW k \in 0..n
        PROVE  PercentAt(p[k], FALSE, MetBy(met, items, k), TRUE) \in PercentState
    <3>1. MetBy(met, items, k) \in BOOLEAN
      BY DEF MetBy
    <3> HIDE DEF n
    <3> QED BY <1>7, <3>1, PercentAtIs
  <2> HIDE DEF n
  <2> QED BY <2>1
<1> HIDE DEF s
<1>11. ASSUME NEW k \in 1..n PROVE Run(step, s[k - 1], seqs[k]) = s[k]
  <2> DEFINE item == items[k]
             out == p[k - 1]
             before == MetBy(met, items, k - 1)
  <2>1. out \in Text
    <3> HIDE DEF n
    <3> QED BY <1>7, <1>8
  <2>2. before \in BOOLEAN
    BY DEF MetBy
  <2>3. /\ MetBy(met, items, k) = (before \/ Walk!IsFileCode(item))
        /\ Walk!IsFileCode(item) => ~before
    BY <1>2, MetGrows
  <2>4. s[k - 1] = PercentAt(out, FALSE, before, TRUE)
    BY <1>8, <1>10
  <2>5. s[k] = PercentAt(out \o Walk!ItemMeaning(item, name, file), FALSE,
                         MetBy(met, items, k), TRUE)
    BY <1>4, <1>7, <1>8, <1>10
  <2>6. seqs[k] = Walk!Plain(item)
    BY <1>5
  <2>7. item = argument.items[k] /\ k \in 1..Len(argument.items)
    OBVIOUS
  <2> HIDE DEF item, out, before
  <2>8. Run(PercentReads(TokenOf(argument), name, file), PercentAt(out, FALSE, before, TRUE),
            Walk!Plain(item))
          = PercentAt(out \o Walk!ItemMeaning(item, name, file), FALSE,
                      before \/ Walk!IsFileCode(item), TRUE)
    BY <2>1, <2>2, <2>3, <2>7, ItemExpands
  <2> HIDE DEF items
  <2> QED BY <2>3, <2>4, <2>5, <2>6, <2>8
<1>12. Run(step, s[0], value) = s[n]
  <2>1. seqs \in Seq(Seq(Alphabet)) /\ Len(seqs) = n
    <3> HIDE DEF n
    <3>1. seqs \in [1..n -> Seq(Alphabet)]
      BY <1>5 DEF Text
    <3>2. seqs \in Seq(Seq(Alphabet))
      BY <1>2, <3>1
    <3> QED BY <1>2, <3>1, <3>2
  <2>2. Passes(s, PercentState, step, seqs)
    <3> HIDE DEF n, step
    <3> QED BY <1>10, <1>11, <2>1 DEF Passes
  <2>3. Automaton(step, PercentState, Alphabet)
    BY <1>3, PercentIsAutomaton
  <2> HIDE DEF step, n
  <2>4. Run(step, s[0], Walk!FlattenSeq(seqs)) = s[Len(seqs)]
    BY <2>1, <2>2, <2>3, RunFlattens
  <2> QED BY <1>6, <2>1, <2>4
<1>13. s[0] = base /\ s[n] = last
  <2>1. MetBy(met, items, 0) = met
    BY DEF MetBy
  <2>2. s[0] = PercentAt(p[0], FALSE, MetBy(met, items, 0), TRUE)
    BY <1>8, <1>10
  <2>3. s[n] = PercentAt(p[n], FALSE, MetBy(met, items, n), TRUE)
    BY <1>8, <1>10
  <2> HIDE DEF n, items, spelled
  <2> QED BY <1>6, <1>7, <2>1, <2>2, <2>3
<1> DEFINE end == Walk!FoldLeft(LAMBDA v, c : Walk!PercentStep(v, c, token, name, file), base, value)
<1>14. end = last
  <2>1. base \in PercentState
    BY TextGrows, PercentAtIs
  <2> HIDE DEF base, last, value, token, n
  <2>2. end = Run(PercentReads(token, name, file), base, value)
    BY <1>3, <2>1, PercentRuns
  <2> QED BY <1>12, <1>13, <2>2
<1>15. Walk!Expanded(token, met, name, file) = [end EXCEPT !.ok = @ /\ ~end.percent]
  <2>1. base = [out |-> <<>>, percent |-> FALSE, seen |-> met, ok |-> TRUE]
    BY DEF PercentAt
  <2> HIDE DEF base, token, value
  <2> QED BY <1>3, <2>1 DEF Walk!Expanded
<1> HIDE DEF end
<1>16. [end EXCEPT !.ok = @ /\ ~end.percent] = last
  <2> HIDE DEF spelled, n, items
  <2> QED BY <1>14 DEF PercentAt
<1> HIDE DEF last
<1> QED BY <1>9, <1>15, <1>16 DEF last

-----------------------------------------------------------------------------
(* What parse_exec makes of the arguments, one after the other             *)

ExpandState == [argv : Seq(Text), seen : BOOLEAN, ok : BOOLEAN]
ExpandAt(argv, met, ok) == [argv |-> argv, seen |-> met, ok |-> ok]
ExpandReads(name, icon, file) ==
  [q \in ExpandState \X Token |-> Walk!ExpandStep(q[1], q[2], name, icon, file)]
Icons == Text \cup {None}

LEMMA ExpandAtIs ==
  ASSUME NEW argv \in Seq(Text), NEW met \in BOOLEAN, NEW ok \in BOOLEAN
  PROVE  ExpandAt(argv, met, ok) \in ExpandState
BY DEF ExpandAt, ExpandState

LEMMA ExpandedIs ==
  ASSUME NEW token \in Token, NEW name \in Text, NEW file \in Text, NEW met \in BOOLEAN
  PROVE  Walk!Expanded(token, met, name, file) \in PercentState
<1> DEFINE base == PercentAt(<<>>, FALSE, met, TRUE)
           value == token.value
           end == Walk!FoldLeft(LAMBDA v, c : Walk!PercentStep(v, c, token, name, file), base, value)
<1>1. base \in PercentState /\ value \in Text
  BY TextGrows, PercentAtIs DEF Token
<1> HIDE DEF value
<1>2. Walk!Expanded(token, met, name, file) = [end EXCEPT !.ok = @ /\ ~end.percent]
  <2>1. base = [out |-> <<>>, percent |-> FALSE, seen |-> met, ok |-> TRUE]
    BY DEF PercentAt
  <2> HIDE DEF base
  <2> QED BY <2>1 DEF Walk!Expanded, value
<1> HIDE DEF base
<1>3. end = Run(PercentReads(token, name, file), base, value)
  BY <1>1, PercentRuns
<1>4. end \in PercentState
  <2>1. Run(PercentReads(token, name, file), base, value) \in PercentState
    <3>1. value \in Seq(Alphabet)
      BY <1>1 DEF Text
    <3> QED BY <1>1, <3>1, PercentIsAutomaton, RunStays
  <2> QED BY <1>3, <2>1
<1> HIDE DEF end
<1>5. [end EXCEPT !.ok = @ /\ ~end.percent] \in PercentState
  BY <1>4 DEF PercentState
<1> QED BY <1>2, <1>5

LEMMA IconIs ==
  ASSUME NEW icon \in Icons
  PROVE  Walk!IconArguments(icon) \in Seq(Text)
<1> DEFINE flag == <<"-", "-", "i", "c", "o", "n">>
<1>1. flag \in Text
  <2>1. ASSUME NEW d \in Alphabet, NEW i \in Alphabet, NEW c \in Alphabet,
               NEW o \in Alphabet, NEW n \in Alphabet
        PROVE  <<d, d, i, c, o, n>> \in Text
    BY DEF Text
  <2> QED BY <2>1, Letters
<1> HIDE DEF flag
<1>2. CASE icon \in {None, <<>>}
  <2>1. Walk!IconArguments(icon) = <<>>
    BY <1>2 DEF Walk!IconArguments
  <2> QED BY <2>1
<1>3. CASE icon \notin {None, <<>>}
  <2>1. Walk!IconArguments(icon) = <<flag, icon>>
    BY <1>3 DEF Walk!IconArguments, flag
  <2>2. icon \in Text
    BY <1>3 DEF Icons
  <2> HIDE DEF Text
  <2>3. <<flag, icon>> \in Seq(Text)
    BY <1>1, <2>2
  <2> QED BY <2>1, <2>3
<1> QED BY <1>2, <1>3

LEMMA ExpandStays ==
  ASSUME NEW name \in Text, NEW icon \in Icons, NEW file \in Text,
         NEW s \in ExpandState, NEW token \in Token
  PROVE  Walk!ExpandStep(s, token, name, icon, file) \in ExpandState
<1> DEFINE a == s.argv
           x == s.seen
           k == s.ok
           read == Walk!Expanded(token, x, name, file)
           more == a \o Walk!IconArguments(icon)
           longer == Append(a, read.out)
<1>1. a \in Seq(Text) /\ x \in BOOLEAN /\ k \in BOOLEAN
  BY DEF ExpandState
<1>2. read \in PercentState
  BY <1>1, ExpandedIs
<1>3. read.out \in Text /\ read.seen \in BOOLEAN /\ read.ok \in BOOLEAN
  <2> HIDE DEF read
  <2> QED BY <1>2 DEF PercentState
<1>4. more \in Seq(Text) /\ longer \in Seq(Text)
  <2> HIDE DEF a, read
  <2> QED BY <1>1, <1>3, IconIs
<1>5. s = ExpandAt(a, x, k)
  BY DEF ExpandState, ExpandAt
<1>6. Walk!ExpandStep(s, token, name, icon, file) \in
        {s, ExpandAt(more, x, k), ExpandAt(longer, read.seen, read.ok),
         ExpandAt(a, read.seen, read.ok)}
  <2> HIDE DEF read
  <2> QED BY <1>1, <1>5 DEF Walk!ExpandStep, ExpandAt, read
<1> HIDE DEF a, x, k, read, more, longer
<1>7. /\ ExpandAt(more, x, k) \in ExpandState
      /\ ExpandAt(longer, read.seen, read.ok) \in ExpandState
      /\ ExpandAt(a, read.seen, read.ok) \in ExpandState
  BY <1>1, <1>3, <1>4, ExpandAtIs
<1> QED BY <1>6, <1>7

LEMMA ExpandIsAutomaton ==
  ASSUME NEW name \in Text, NEW icon \in Icons, NEW file \in Text
  PROVE  Automaton(ExpandReads(name, icon, file), ExpandState, Token)
<1> HIDE DEF Token, ExpandState
<1> QED BY ExpandStays DEF Automaton, ExpandReads

(* The fold of ParseExec is a run. *)
LEMMA ExpandRuns ==
  ASSUME NEW name \in Text, NEW icon \in Icons, NEW file \in Text,
         NEW base \in ExpandState, NEW tokens \in Seq(Token)
  PROVE  Walk!FoldLeft(LAMBDA s, argument : Walk!ExpandStep(s, argument, name, icon, file),
                       base, tokens)
           = Run(ExpandReads(name, icon, file), base, tokens)
<1> DEFINE step == ExpandReads(name, icon, file)
           Step(s, c) == Walk!ExpandStep(s, c, name, icon, file)
           F(h) == h = [s \in SUBSET (DOMAIN tokens) |->
                          IF s = {} THEN base ELSE Step(h[s \ {Max(s)}], tokens[Max(s)])]
           H == CHOOSE h : F(h)
           n == Len(tokens)
<1>1. Walk!FoldLeft(LAMBDA s, argument : Walk!ExpandStep(s, argument, name, icon, file),
                    base, tokens)
        = H[DOMAIN tokens]
  BY DEF Walk!FoldLeft, Walk!MapThenFoldSet, Walk!Max, Max
<1>2. n \in Nat /\ DOMAIN tokens = 1..n /\ \A k \in 1..n : tokens[k] \in Token
  <2> HIDE DEF Token
  <2> QED OBVIOUS
<1>3. \A s \in SUBSET (1..n) : s # {} => tokens[Max(s)] \in Token
  BY <1>2, MaxIs
<1>4. \A v \in ExpandState, c \in Token : step[<<v, c>>] = Step(v, c)
  BY DEF ExpandReads
<1> HIDE DEF step, Step
<1>5. PICK g \in [SUBSET (1..n) -> ExpandState] : Unfolds(g, step, base, tokens)
  BY UnfoldExists, ExpandIsAutomaton DEF step
<1>6. \E h : F(h)
  <2>1. ASSUME NEW s \in SUBSET (1..n)
        PROVE  g[s] = IF s = {} THEN base ELSE Step(g[s \ {Max(s)}], tokens[Max(s)])
    <3>1. s \ {Max(s)} \in SUBSET (1..n)
      OBVIOUS
    <3>2. g[s \ {Max(s)}] \in ExpandState
      BY <3>1
    <3> QED BY <1>3, <1>4, <1>5, <3>2 DEF Unfolds
  <2>2. F(g)
    BY <1>2, <2>1
  <2> QED BY <2>2
<1>7. F(H)
  <2> HIDE DEF F
  <2> QED BY <1>6
<1> HIDE DEF H
<1>8. \A s \in SUBSET (1..n) :
        H[s] = IF s = {} THEN base ELSE Step(H[s \ {Max(s)}], tokens[Max(s)])
  BY <1>2, <1>7
<1>9. H[{}] = base
  <2>1. {} \in SUBSET (1..n)
    OBVIOUS
  <2> QED BY <1>8, <2>1
<1>10. \A s \in SUBSET (1..n) :
         (s # {} /\ H[s \ {Max(s)}] \in ExpandState) =>
           H[s] = step[<<H[s \ {Max(s)}], tokens[Max(s)]>>]
  BY <1>3, <1>4, <1>8
<1>11. H[1..n] = Run(step, base, tokens)
  <2>1. Follows(H, ExpandState, step, base, tokens)
    BY <1>9, <1>10 DEF Follows
  <2>2. Automaton(step, ExpandState, Token)
    BY ExpandIsAutomaton DEF step
  <2> HIDE DEF F
  <2> QED BY <2>1, <2>2, UnfoldRuns
<1> QED BY <1>1, <1>2, <1>11 DEF step

LEMMA TwoLetters ==
  ASSUME NEW C, NEW text, NEW c \in C, NEW d \in C, text = <<c, d>>
  PROVE  text \in Seq(C) /\ Len(text) = 2 /\ text[1] = c /\ text[2] = d
OBVIOUS

LEMMA OneLetter ==
  ASSUME NEW C, NEW text, NEW c \in C, text = <<c>>
  PROVE  text \in Seq(C) /\ Len(text) = 1 /\ text[1] = c
OBVIOUS

(* Only the icon's code writes what stands for it. *)
LEMMA IconIsWritten ==
  ASSUME NEW argument \in Walk!Argument, Walk!WellWritten(argument)
  PROVE  (~TokenOf(argument).quoted /\ TokenOf(argument).value = <<"%", "i">>)
           <=> argument.items = <<Walk!Code("i")>>
<1> DEFINE items == argument.items
           value == Walk!Value(items)
           n == Len(items)
           icon == <<"%", "i">>
           code == Walk!Code("i")
<1>1. items \in Seq(Walk!Item) /\ argument.quoted \in BOOLEAN
  BY ArgumentFields
<1>2. n \in Nat /\ DOMAIN items = 1..n
  <2> HIDE DEF items, Walk!Item
  <2> QED BY <1>1
<1>3. TokenOf(argument).quoted = argument.quoted /\ TokenOf(argument).value = value
  BY DEF TokenOf
<1>4. icon \in Text /\ Len(icon) = 2 /\ icon[1] = "%" /\ icon[2] = "i"
  BY TwoLetters, Letters DEF Text
<1>5. ASSUME items = <<code>> PROVE ~argument.quoted /\ value = icon
  <2>1. Len(items) = 1 /\ items[1] = code
    BY <1>5
  <2>2. code.code /\ code.char = "i"
    BY DEF Walk!Code
  <2>3. ~argument.quoted
    <3>1. argument.quoted => ~items[1].code
      <4>1. 1 \in 1..Len(items)
        BY <2>1
      <4> QED BY <4>1, ItemIs
    <3> QED BY <2>1, <2>2, <3>1
  <2>4. Walk!Plain(code) = icon
    BY <2>2 DEF Walk!Plain
  <2>5. value = Walk!Plain(items[1])
    BY <2>1, LoneValue
  <2> HIDE DEF items, value, code, icon
  <2> QED BY <2>1, <2>3, <2>4, <2>5
<1>6. ASSUME ~argument.quoted, value = icon PROVE items = <<code>>
  <2> DEFINE first == items[1]
             written == Walk!Plain(first)
             seqs == [j \in 1..n |-> Walk!Plain(items[j])]
  <2>1. n # 0
    <3>1. items # <<>>
      BY <1>6 DEF Walk!WellWritten
    <3> HIDE DEF items, Walk!Item
    <3> QED BY <1>1, <3>1
  <2>2. 1 \in 1..n
    BY <1>2, <2>1
  <2>3. seqs \in [1..n -> Seq(Safe)] /\ seqs[1] = written
    <3>1. \A j \in 1..n : Walk!Plain(items[j]) \in Seq(Safe)
      BY ItemIs, WrittenItem
    <3> HIDE DEF n, items
    <3> QED BY <2>2, <3>1
  <2>4. value = Walk!FlattenSeq(seqs)
    <3> HIDE DEF n, items
    <3> QED BY <1>2 DEF Walk!Value
  <2> HIDE DEF seqs
  <2>5. Len(written) <= Len(value) /\ \A j \in 1..Len(written) : value[j] = written[j]
    <3> HIDE DEF n, value, written
    <3>1. /\ Len(seqs[1]) <= Len(Walk!FlattenSeq(seqs))
          /\ \A j \in 1..Len(seqs[1]) : Walk!FlattenSeq(seqs)[j] = seqs[1][j]
      BY <1>2, <2>1, <2>3, FlattenStarts
    <3> QED BY <2>3, <2>4, <3>1
  <2>6. first.code \in BOOLEAN /\ first.char \in Safe
    BY <2>2, ItemIs
  <2>7. written = <<"%", first.char>>
    <3>1. CASE first.code \/ first.char = "%"
      BY <3>1 DEF Walk!Plain
    <3>2. CASE ~first.code /\ first.char # "%"
      <4> DEFINE c == first.char
      <4>1. written = <<c>>
        BY <3>2 DEF Walk!Plain
      <4> HIDE DEF c, written
      <4>2. Len(written) = 1 /\ written[1] = c
        BY <4>1
      <4>3. 1 \in 1..Len(written)
        BY <4>2
      <4>4. value[1] = c
        BY <2>5, <4>2, <4>3
      <4>5. value[1] = "%"
        BY <1>4, <1>6
      <4> QED BY <3>2, <4>4, <4>5 DEF c
    <3> QED BY <3>1, <3>2
  <2>8. first.char = "i"
    <3> DEFINE c == first.char
    <3>1. "%" \in Alphabet /\ c \in Alphabet
      BY <2>6, Letters DEF Safe
    <3> HIDE DEF c, written
    <3>2. Len(written) = 2 /\ written[2] = c
      BY <2>7, <3>1, TwoLetters DEF c
    <3>3. 2 \in 1..Len(written)
      BY <3>2
    <3>4. value[2] = c
      BY <2>5, <3>2, <3>3
    <3>5. value[2] = "i"
      BY <1>4, <1>6
    <3> QED BY <3>4, <3>5 DEF c
  <2>9. first.code
    <3>1. ASSUME ~first.code PROVE FALSE
      <4>1. written = IF first.char = "%" THEN <<"%", first.char>> ELSE <<first.char>>
        BY <3>1 DEF Walk!Plain
      <4>2. first.char # "%"
        BY <2>8
      <4> DEFINE c == first.char
      <4>3. written = <<c>>
        BY <4>1, <4>2
      <4>4. "%" \in Alphabet /\ c \in Alphabet
        BY <2>6, Letters DEF Safe
      <4> HIDE DEF c, written
      <4>5. Len(written) = 1
        BY <4>3, <4>4, OneLetter
      <4>6. Len(written) = 2
        BY <2>7, <4>4, TwoLetters DEF c
      <4> QED BY <4>5, <4>6
    <3> QED BY <2>6, <3>1
  <2> QED BY <2>2, <2>8, <2>9, LoneIcon
<1> HIDE DEF items, value, n, icon, code
<1>7. (~argument.quoted /\ value = icon) <=> (items = <<code>>)
  BY <1>1, <1>5, <1>6
<1> QED BY <1>3, <1>7 DEF items, value, icon, code

LEMMA JoinNothing ==
  ASSUME NEW S, NEW seq \in Seq(S) PROVE seq \o <<>> = seq
OBVIOUS

(* An argument comes to what it means. *)
LEMMA ArgumentIsMeant ==
  ASSUME NEW argument \in Walk!Argument, Walk!WellWritten(argument), OneFile(argument.items),
         NEW name \in Text, NEW icon \in Icons, NEW file \in Text, NEW argv \in Seq(Text),
         NEW met \in BOOLEAN,
         MetBy(FALSE, argument.items, Len(argument.items)) => ~met
  PROVE  /\ Walk!ArgumentMeaning(argument, name, icon, file) \in Seq(Text)
         /\ Walk!ExpandStep(ExpandAt(argv, met, TRUE), TokenOf(argument), name, icon, file)
              = ExpandAt(argv \o Walk!ArgumentMeaning(argument, name, icon, file),
                         MetBy(met, argument.items, Len(argument.items)), TRUE)
<1> DEFINE items == argument.items
           n == Len(items)
           token == TokenOf(argument)
           base == ExpandAt(argv, met, TRUE)
           meaning == Walk!ArgumentMeaning(argument, name, icon, file)
           more == MetBy(met, items, n)
           spelled == Walk!Spelled(items, name, file)
           read == Walk!Expanded(token, met, name, file)
           arguments == Walk!IconArguments(icon)
<1>1. (~token.quoted /\ token.value = <<"%", "i">>) <=> items = <<Walk!Code("i")>>
  BY IconIsWritten
<1>2. token.quoted = argument.quoted /\ argument.quoted \in BOOLEAN
  BY ArgumentFields DEF TokenOf
<1>3. CASE items = <<Walk!Code("i")>>
  <2>1. meaning = arguments
    BY <1>3 DEF Walk!ArgumentMeaning
  <2>2. arguments \in Seq(Text)
    BY IconIs
  <2>3. more = met
    <3>1. n = 1 /\ items[1] = Walk!Code("i")
      BY <1>3
    <3>2. ~Walk!IsFileCode(Walk!Code("i"))
      BY DEF Walk!IsFileCode, Walk!FileCodes, Walk!Code
    <3>3. \A j \in 1..n : j = 1
      BY <3>1
    <3> HIDE DEF items, n
    <3> QED BY <3>1, <3>2, <3>3 DEF MetBy
  <2>4. Walk!ExpandStep(base, token, name, icon, file) = ExpandAt(argv \o arguments, met, TRUE)
    <3> HIDE DEF token, arguments
    <3> QED BY <1>1, <1>3 DEF Walk!ExpandStep, ExpandAt, arguments
  <2> HIDE DEF arguments, meaning, base, more, token
  <2> QED BY <2>1, <2>2, <2>3, <2>4 DEF base, meaning, more, token
<1>4. CASE items # <<Walk!Code("i")>>
  <2>1. spelled \in Text /\ read = PercentAt(spelled, FALSE, more, TRUE)
    BY <1>4, ArgumentExpands
  <2>2. meaning = IF argument.quoted \/ spelled # <<>> THEN <<spelled>> ELSE <<>>
    BY <1>4 DEF Walk!ArgumentMeaning
  <2>3. Walk!ExpandStep(base, token, name, icon, file)
          = [ok |-> read.ok, seen |-> read.seen,
             argv |-> IF token.quoted \/ read.out # <<>> THEN Append(argv, read.out) ELSE argv]
    <3> HIDE DEF token, read
    <3> QED BY <1>1, <1>4 DEF Walk!ExpandStep, ExpandAt, read
  <2>4. read.ok = TRUE /\ read.seen = more /\ read.out = spelled
    <3> HIDE DEF read, more, spelled
    <3> QED BY <2>1 DEF PercentAt
  <2> HIDE DEF spelled, read, token
  <2>5. Append(argv, spelled) = argv \o <<spelled>> /\ argv = argv \o <<>>
    <3> HIDE DEF Text
    <3> QED BY <2>1, JoinOne, JoinNothing
  <2>6. meaning \in Seq(Text)
    <3> HIDE DEF Text, meaning
    <3>1. <<spelled>> \in Seq(Text) /\ <<>> \in Seq(Text)
      BY <2>1
    <3> QED BY <2>2, <3>1
  <2> HIDE DEF meaning, more
  <2>7. Walk!ExpandStep(base, token, name, icon, file) = ExpandAt(argv \o meaning, more, TRUE)
    <3>1. CASE argument.quoted \/ spelled # <<>>
      BY <1>2, <2>2, <2>3, <2>4, <2>5, <3>1 DEF ExpandAt
    <3>2. CASE ~(argument.quoted \/ spelled # <<>>)
      BY <1>2, <2>2, <2>3, <2>4, <2>5, <3>2 DEF ExpandAt
    <3> QED BY <3>1, <3>2
  <2> HIDE DEF base
  <2> QED BY <2>6, <2>7 DEF base, meaning, more, token
<1> QED BY <1>3, <1>4

(* That an argument, or one among the first, asks for a file.              *)
Asks(argument) == MetBy(FALSE, argument.items, Len(argument.items))
AskedBy(author, k) == \E i \in 1..k : Asks(author[i])

LEMMA AskedGrows ==
  ASSUME NEW author \in Seq(Walk!Argument), Walk!Proper(author), NEW k \in 1..Len(author)
  PROVE  /\ OneFile(author[k].items)
         /\ Asks(author[k]) => ~AskedBy(author, k - 1)
         /\ AskedBy(author, k) = MetBy(AskedBy(author, k - 1), author[k].items, Len(author[k].items))
<1>1. /\ \A i \in 1..Len(author) : author[i] \in Walk!Argument
      /\ Len(author) \in Nat /\ DOMAIN author = 1..Len(author)
  BY ProperIsWritten, AuthorFields
<1>2. \A i \in 1..Len(author) : DOMAIN author[i].items = 1..Len(author[i].items)
  <2> SUFFICES ASSUME NEW i \in 1..Len(author)
               PROVE  DOMAIN author[i].items = 1..Len(author[i].items)
    OBVIOUS
  <2>1. author[i].items \in Seq(Walk!Item)
    BY <1>1, ArgumentFields
  <2> HIDE DEF Walk!Item, Walk!Argument
  <2> QED BY <2>1
<1>3. ASSUME NEW i \in 1..Len(author), NEW m \in 1..Len(author),
             NEW j \in 1..Len(author[i].items), NEW l \in 1..Len(author[m].items),
             Walk!IsFileCode(author[i].items[j]), Walk!IsFileCode(author[m].items[l])
      PROVE  i = m /\ j = l
  <2>1. i \in DOMAIN author /\ m \in DOMAIN author
        /\ j \in DOMAIN author[i].items /\ l \in DOMAIN author[m].items
    BY <1>1, <1>2
  <2> QED BY <1>3, <2>1 DEF Walk!Proper
<1>4. OneFile(author[k].items)
  BY <1>3 DEF OneFile
<1>5. k \in Nat /\ \A i \in 1..k : i \in 1..(k - 1) \/ i = k
  BY <1>1
<1>6. k \in 1..k /\ \A i \in 1..(k - 1) : i \in 1..k /\ i # k /\ i \in 1..Len(author)
  BY <1>1
<1>7. ASSUME Asks(author[k]) PROVE ~AskedBy(author, k - 1)
  <2>1. ASSUME NEW i \in 1..(k - 1), Asks(author[i]) PROVE FALSE
    <3>1. PICK j \in 1..Len(author[k].items) : Walk!IsFileCode(author[k].items[j])
      BY <1>7 DEF Asks, MetBy
    <3>2. PICK l \in 1..Len(author[i].items) : Walk!IsFileCode(author[i].items[l])
      BY <2>1 DEF Asks, MetBy
    <3>3. i = k
      BY <1>3, <1>6, <3>1, <3>2
    <3> QED BY <1>6, <3>3
  <2> QED BY <2>1 DEF AskedBy
<1>8. AskedBy(author, k) = (AskedBy(author, k - 1) \/ Asks(author[k]))
  BY <1>5, <1>6 DEF AskedBy
<1>9. MetBy(AskedBy(author, k - 1), author[k].items, Len(author[k].items))
        = (AskedBy(author, k - 1) \/ Asks(author[k]))
  BY DEF MetBy, Asks
<1> QED BY <1>4, <1>7, <1>8, <1>9

LEMMA AllAreMeant ==
  ASSUME NEW author \in Seq(Walk!Argument), Walk!Proper(author),
         NEW name \in Text, NEW icon \in Icons, NEW file \in Text
  PROVE  /\ Walk!Meaning(author, name, icon, file) \in Seq(Text)
         /\ Run(ExpandReads(name, icon, file), ExpandAt(<<>>, FALSE, TRUE), Tokens(author))
              = ExpandAt(Walk!Meaning(author, name, icon, file), AskedBy(author, Len(author)), TRUE)
<1> DEFINE n == Len(author)
           step == ExpandReads(name, icon, file)
           seqs == [i \in 1..n |-> Walk!ArgumentMeaning(author[i], name, icon, file)]
           meaning == Walk!Meaning(author, name, icon, file)
           base == ExpandAt(<<>>, FALSE, TRUE)
           tokens == Tokens(author)
<1>1. WrittenWell(author)
  BY ProperIsWritten
<1>2. /\ n \in Nat /\ DOMAIN author = 1..n
      /\ \A i \in 1..n : author[i] \in Walk!Argument /\ Walk!WellWritten(author[i])
  BY <1>1, AuthorFields
<1>3. /\ tokens \in Seq(Token) /\ Len(tokens) = n
      /\ \A i \in 1..n : tokens[i] = TokenOf(author[i])
  BY <1>1, TokensAre
<1>4. ASSUME NEW k \in 1..n, NEW argv \in Seq(Text)
      PROVE  /\ Walk!ArgumentMeaning(author[k], name, icon, file) \in Seq(Text)
             /\ Walk!ExpandStep(ExpandAt(argv, AskedBy(author, k - 1), TRUE), TokenOf(author[k]),
                                name, icon, file)
                  = ExpandAt(argv \o Walk!ArgumentMeaning(author[k], name, icon, file),
                             AskedBy(author, k), TRUE)
  <2> DEFINE argument == author[k]
             before == AskedBy(author, k - 1)
  <2>1. argument \in Walk!Argument /\ Walk!WellWritten(argument)
    BY <1>2
  <2>2. /\ OneFile(argument.items)
        /\ MetBy(FALSE, argument.items, Len(argument.items)) => ~before
        /\ AskedBy(author, k) = MetBy(before, argument.items, Len(argument.items))
    BY AskedGrows DEF Asks
  <2>3. before \in BOOLEAN
    BY DEF AskedBy
  <2> HIDE DEF argument, before
  <2>4. /\ Walk!ArgumentMeaning(argument, name, icon, file) \in Seq(Text)
        /\ Walk!ExpandStep(ExpandAt(argv, before, TRUE), TokenOf(argument), name, icon, file)
             = ExpandAt(argv \o Walk!ArgumentMeaning(argument, name, icon, file),
                        MetBy(before, argument.items, Len(argument.items)), TRUE)
    BY <2>1, <2>2, <2>3, ArgumentIsMeant
  <2> QED BY <2>2, <2>4 DEF argument, before
<1>5. seqs \in [1..n -> Seq(Text)]
      /\ \A i \in 1..n : seqs[i] = Walk!ArgumentMeaning(author[i], name, icon, file)
  <2>1. <<>> \in Seq(Text)
    OBVIOUS
  <2>2. \A i \in 1..n : Walk!ArgumentMeaning(author[i], name, icon, file) \in Seq(Text)
    BY <1>4, <2>1
  <2> HIDE DEF n
  <2> QED BY <2>2
<1>6. meaning = Walk!FlattenSeq(seqs)
  <2> HIDE DEF n
  <2> QED BY <1>2 DEF Walk!Meaning
<1> HIDE DEF seqs, n, tokens
<1>7. PICK p \in [0..n -> Seq(Text)] :
        /\ p[0] = <<>> /\ \A k \in 1..n : p[k] = p[k - 1] \o seqs[k]
        /\ Walk!FlattenSeq(seqs) = p[n]
  BY <1>2, <1>5, FlattenIs
<1>8. 0 \in 0..n /\ n \in 0..n /\ \A k \in 1..n : k \in 0..n /\ k - 1 \in 0..n
  BY <1>2
<1>9. \A k \in 0..n : p[k] \in Seq(Text)
  BY <1>7
<1> DEFINE s == [k \in 0..n |-> ExpandAt(p[k], AskedBy(author, k), TRUE)]
<1>10. \A k \in 0..n : s[k] = ExpandAt(p[k], AskedBy(author, k), TRUE)
  OBVIOUS
<1>11. \A k \in 0..n : ExpandAt(p[k], AskedBy(author, k), TRUE) \in ExpandState
  <2> SUFFICES ASSUME NEW k \in 0..n PROVE ExpandAt(p[k], AskedBy(author, k), TRUE) \in ExpandState
    OBVIOUS
  <2>1. AskedBy(author, k) \in BOOLEAN
    BY DEF AskedBy
  <2> QED BY <1>9, <2>1, ExpandAtIs
<1> HIDE DEF s
<1>12. s[0] = base
  <2>1. ~AskedBy(author, 0)
    BY DEF AskedBy
  <2>2. AskedBy(author, 0) = FALSE
    BY <2>1 DEF AskedBy
  <2> QED BY <1>7, <1>8, <1>10, <2>2
<1>13. ASSUME NEW k \in 1..n PROVE s[k] = step[<<s[k - 1], tokens[k]>>]
  <2> DEFINE argv == p[k - 1]
             token == TokenOf(author[k])
             before == ExpandAt(argv, AskedBy(author, k - 1), TRUE)
  <2>1. argv \in Seq(Text) /\ p[k] = argv \o seqs[k]
    BY <1>7, <1>8, <1>9
  <2>2. tokens[k] = token /\ token \in Token
    BY <1>2, <1>3, ValueIsText
  <2>3. s[k - 1] = before /\ before \in ExpandState
    BY <1>8, <1>10, <1>11
  <2>4. step[<<before, token>>] = Walk!ExpandStep(before, token, name, icon, file)
    <3> HIDE DEF before, token
    <3> QED BY <2>2, <2>3 DEF ExpandReads
  <2>5. Walk!ExpandStep(before, token, name, icon, file)
          = ExpandAt(argv \o seqs[k], AskedBy(author, k), TRUE)
    BY <1>4, <1>5, <2>1
  <2>6. s[k] = ExpandAt(argv \o seqs[k], AskedBy(author, k), TRUE)
    BY <1>8, <1>10, <2>1
  <2> HIDE DEF argv, token, before, step
  <2> QED BY <2>2, <2>3, <2>4, <2>5, <2>6
<1>14. IsRun(s, step, base, tokens)
  <2> HIDE DEF step, base
  <2> QED BY <1>3, <1>12, <1>13 DEF IsRun
<1>15. Run(step, base, tokens) = s[n]
  <2> HIDE DEF step, base
  <2> QED BY <1>3, <1>14, RunIs
<1>16. s[n] = ExpandAt(meaning, AskedBy(author, n), TRUE)
  <2>1. p[n] = meaning
    BY <1>6, <1>7
  <2> QED BY <1>8, <1>10, <2>1
<1>17. meaning \in Seq(Text)
  BY <1>6, <1>7, <1>8, <1>9
<1> HIDE DEF step, base, meaning
<1> QED BY <1>15, <1>16, <1>17 DEF step, base, meaning, n, tokens

(* An Exec value that keeps the rules is read as the command that its      *)
(* author meant, and refused only if that command cannot run (parse_exec). *)
THEOREM ParseExecIsExact ==
  \A author \in Seq(Walk!Argument), name \in Text, icon \in Icons, file \in Text :
    Walk!Proper(author) =>
      /\ Walk!Meaning(author, name, icon, file) \in Seq(Text)
      /\ Walk!ParseExec(Walk!Writing(author), name, icon, file)
           = IF Walk!Runnable(Walk!Meaning(author, name, icon, file))
             THEN Walk!Meaning(author, name, icon, file) ELSE None
<1> SUFFICES ASSUME NEW author \in Seq(Walk!Argument), NEW name \in Text, NEW icon \in Icons,
                    NEW file \in Text, Walk!Proper(author)
             PROVE  /\ Walk!Meaning(author, name, icon, file) \in Seq(Text)
                    /\ Walk!ParseExec(Walk!Writing(author), name, icon, file)
                         = IF Walk!Runnable(Walk!Meaning(author, name, icon, file))
                           THEN Walk!Meaning(author, name, icon, file) ELSE None
  OBVIOUS
<1> DEFINE exec == Walk!Writing(author)
           meaning == Walk!Meaning(author, name, icon, file)
           tokens == Tokens(author)
           base == ExpandAt(<<>>, FALSE, TRUE)
           all == Walk!FoldLeft(LAMBDA s, argument : Walk!ExpandStep(s, argument, name, icon, file),
                                base, tokens)
<1>1. exec \in Seq(Safe) /\ Walk!Tokenize(exec) = tokens
  BY TokenizeReadsBack
<1>2. tokens \in Seq(Token)
  BY ProperIsWritten, TokensAre
<1>3. tokens # None
  <2>1. None \notin Seq([value : Seq(Alphabet), quoted : BOOLEAN])
    BY AuthorAssumption
  <2>2. None \notin Seq(Token)
    BY <2>1 DEF Token, Text
  <2> HIDE DEF tokens
  <2> QED BY <1>2, <2>2
<1> HIDE DEF exec, tokens
<1>4. Walk!ToSet(exec) \cap {"nul", "nonascii"} = {}
  <2>1. \A i \in DOMAIN exec : exec[i] \in Safe
    BY <1>1
  <2> QED BY <2>1 DEF Walk!ToSet, Safe, Walk!Unwritable
<1>5. base \in ExpandState
  <2>1. <<>> \in Seq(Text)
    OBVIOUS
  <2> QED BY <2>1, ExpandAtIs
<1> HIDE DEF base
<1>6. all = Run(ExpandReads(name, icon, file), base, tokens)
  BY <1>2, <1>5, ExpandRuns
<1>7. meaning \in Seq(Text)
      /\ Run(ExpandReads(name, icon, file), base, tokens)
           = ExpandAt(meaning, AskedBy(author, Len(author)), TRUE)
  BY AllAreMeant DEF base, tokens
<1>8. Walk!ParseExec(exec, name, icon, file)
        = IF all.ok /\ Walk!Runnable(all.argv) THEN all.argv ELSE None
  BY <1>1, <1>3, <1>4 DEF Walk!ParseExec, base, ExpandAt
<1> HIDE DEF all
<1>9. all.ok = TRUE /\ all.argv = meaning
  BY <1>6, <1>7 DEF ExpandAt
<1> HIDE DEF meaning
<1> QED BY <1>7, <1>8, <1>9 DEF exec, meaning

-----------------------------------------------------------------------------
(* From the file to the menu and on to the shell                           *)

(* What a walk may find is one of the cases. *)
Known ==
  \E case \in Cases :
    /\ disk = case.disk /\ meant = case.meant
    /\ sessions \in case.lists /\ xsessions \in case.lists

(* A directory that alone has an id, and is searched, decides about it. *)
LEMMA LoneDecides ==
  ASSUME Given, NEW type \in Types, NEW dir \in Directories, NEW id \in Ids,
         \A d \in Directories, i \in Ids : Walk!Has(d, i) <=> (d = dir /\ i = id),
         \E i \in DOMAIN Walk!Search(type) : Walk!Search(type)[i] = dir
  PROVE  Walk!Decides(type, dir, id)
<1> DEFINE list == Walk!Search(type)
           T == {i \in DOMAIN list : list[i] = dir}
<1>1. list \in Seq(Directories)
  BY SearchIs DEF Types
<1>2. T # {}
  OBVIOUS
<1> HIDE DEF list
<1>3. Len(list) \in Nat /\ DOMAIN list = 1..Len(list) /\ \A i \in DOMAIN list : list[i] \in Directories
  BY <1>1
<1>4. T \subseteq Nat
  BY <1>3
<1>5. PICK m \in T : \A y \in T : ~(<<y, m>> \in OpToRel(<, Nat))
  <2> HIDE DEF T
  <2> QED BY <1>2, <1>4, WFMin, NatLessThanWellFounded
<1>6. \A y \in T : ~(y < m)
  BY <1>4, <1>5 DEF OpToRel
<1>7. m \in DOMAIN list /\ list[m] = dir
  OBVIOUS
<1>8. Walk!Has(dir, id)
  OBVIOUS
<1>9. ASSUME NEW j \in 1..(m - 1) PROVE ~Walk!Has(list[j], id)
  <2>1. j \in DOMAIN list /\ j < m
    BY <1>3, <1>7
  <2>2. list[j] # dir
    BY <1>6, <2>1
  <2>3. list[j] \in Directories
    BY <1>3, <2>1
  <2> QED BY <2>2, <2>3
<1> HIDE DEF T
<1> QED BY <1>7, <1>8, <1>9 DEF Walk!Decides, list

(* What is known of the one file of a case with an author. *)
LEMMA AuthorsFile ==
  ASSUME Known, meant # Anything
  PROVE  /\ meant \in Seq(Walk!Argument) /\ Walk!Proper(meant)
         /\ \E dir \in Directories, id \in Ids :
              /\ \A d \in Directories, i \in Ids : Walk!Has(d, i) <=> (d = dir /\ i = id)
              /\ \E i \in DOMAIN sessions : sessions[i] = dir
              /\ \E i \in DOMAIN xsessions : xsessions[i] = dir
              /\ Walk!Key(disk[dir][id], "Exec") = Walk!Writing(meant)
              /\ Walk!Key(disk[dir][id], "Name") \in Text /\ PathText(dir, id) \in Text
              /\ Walk!Key(disk[dir][id], "Icon") \in Icons
              /\ Walk!CommandLine(disk[dir][id], PathText(dir, id)) # None =>
                   Walk!Loaded(dir, id) = "shown"
<1>1. PICK case \in Cases : /\ disk = case.disk /\ meant = case.meant
                            /\ sessions \in case.lists /\ xsessions \in case.lists
  BY DEF Known
<1>2. case.meant # Anything
  BY <1>1
<1>3. case.meant \in Seq(Walk!Argument) /\ Walk!Proper(case.meant) /\ Authored(case)
  BY <1>2, AuthorAssumption
<1>4. PICK dir \in Directories, id \in Ids :
        /\ \A d \in Directories, i \in Ids :
             (case.disk[d] # Unreadable /\ case.disk[d][i] # Absent) <=> (d = dir /\ i = id)
        /\ \A list \in case.lists : \E i \in DOMAIN list : list[i] = dir
        /\ Walk!Key(case.disk[dir][id], "Exec") = Walk!Writing(case.meant)
        /\ {Walk!Key(case.disk[dir][id], "Name"), PathText(dir, id)} \subseteq Seq(Alphabet)
        /\ Walk!Key(case.disk[dir][id], "Icon") \in Seq(Alphabet) \cup {None}
        /\ Walk!CommandLine(case.disk[dir][id], PathText(dir, id)) # None =>
             Walk!Load(case.disk[dir][id], PathText(dir, id)) = "shown"
  BY <1>3 DEF Authored
<1>5. meant \in Seq(Walk!Argument) /\ Walk!Proper(meant)
  BY <1>1, <1>3
<1>6. \A d \in Directories, i \in Ids : Walk!Has(d, i) <=> (d = dir /\ i = id)
  BY <1>1, <1>4 DEF Walk!Has
<1>7. (\E i \in DOMAIN sessions : sessions[i] = dir) /\ \E i \in DOMAIN xsessions : xsessions[i] = dir
  BY <1>1, <1>4
<1>8. Walk!Key(disk[dir][id], "Exec") = Walk!Writing(meant)
  BY <1>1, <1>4
<1>9. Walk!Key(disk[dir][id], "Name") \in Text /\ PathText(dir, id) \in Text
  BY <1>1, <1>4 DEF Text
<1>10. Walk!Key(disk[dir][id], "Icon") \in Icons
  BY <1>1, <1>4 DEF Icons, Text
<1>11. Walk!CommandLine(disk[dir][id], PathText(dir, id)) # None => Walk!Loaded(dir, id) = "shown"
  BY <1>1, <1>4 DEF Walk!Loaded
<1> QED BY <1>5, <1>6, <1>7, <1>8, <1>9, <1>10, <1>11

(* A file whose command is refused is not shown. *)
LEMMA ShownHasCommand ==
  ASSUME NEW lines, NEW file, Walk!Load(lines, file) = "shown"
  PROVE  Walk!CommandLine(lines, file) # None
BY DEF Walk!Load

(* A listing that is the view of such a case offers what the author meant. *)
LEMMA ViewIsExact ==
  ASSUME Known, Given, Walk!ListingIsTheView
  PROVE  Walk!ExecIsExact
<1> SUFFICES ASSUME phase = "listed", meant # Anything
             PROVE  {Walk!ShellWords(session.command) : session \in Walk!ToSet(listing)}
                      = {argv \in Walk!Meant : Walk!Runnable(argv)}
  BY DEF Walk!ExecIsExact
<1>1. PICK dir \in Directories, id \in Ids :
        /\ \A d \in Directories, i \in Ids : Walk!Has(d, i) <=> (d = dir /\ i = id)
        /\ \E i \in DOMAIN sessions : sessions[i] = dir
        /\ \E i \in DOMAIN xsessions : xsessions[i] = dir
        /\ Walk!Key(disk[dir][id], "Exec") = Walk!Writing(meant)
        /\ Walk!Key(disk[dir][id], "Name") \in Text /\ PathText(dir, id) \in Text
        /\ Walk!Key(disk[dir][id], "Icon") \in Icons
        /\ Walk!CommandLine(disk[dir][id], PathText(dir, id)) # None =>
             Walk!Loaded(dir, id) = "shown"
  BY AuthorsFile
<1> DEFINE name == Walk!Key(disk[dir][id], "Name")
           icon == Walk!Key(disk[dir][id], "Icon")
           file == PathText(dir, id)
           meaning == Walk!Meaning(meant, name, icon, file)
           command == Walk!CommandLine(disk[dir][id], file)
           shown == {w \in Directories \X Ids \X {"wayland", "x11"} :
                       Walk!Decides(w[3], w[1], w[2]) /\ Walk!Loaded(w[1], w[2]) = "shown"}
<1>2. meaning \in Seq(Text)
      /\ command = IF Walk!Runnable(meaning) THEN meaning ELSE None
  <2>1. command = Walk!ParseExec(Walk!Writing(meant), name, icon, file)
    BY <1>1 DEF Walk!CommandLine
  <2>2. meant \in Seq(Walk!Argument) /\ Walk!Proper(meant)
    BY AuthorsFile
  <2>3. name \in Text /\ icon \in Icons /\ file \in Text
    BY <1>1
  <2> HIDE DEF name, icon, file, meaning, command
  <2>4. /\ Walk!Meaning(meant, name, icon, file) \in Seq(Text)
        /\ Walk!ParseExec(Walk!Writing(meant), name, icon, file)
             = IF Walk!Runnable(Walk!Meaning(meant, name, icon, file))
               THEN Walk!Meaning(meant, name, icon, file) ELSE None
    BY <2>2, <2>3, ParseExecIsExact
  <2> QED BY <2>1, <2>4 DEF meaning
<1>3. meaning # None
  <2>1. None \notin Seq(Text)
    BY AuthorAssumption DEF Text
  <2> HIDE DEF meaning
  <2> QED BY <1>2, <2>1
<1>4. Walk!Meant = {meaning}
  <2> DEFINE M(v) == Walk!Meaning(meant, Walk!Key(disk[v[1]][v[2]], "Name"),
                                  Walk!Key(disk[v[1]][v[2]], "Icon"), PathText(v[1], v[2]))
             held == {v \in Directories \X Ids : Walk!Has(v[1], v[2])}
  <2>1. Walk!Meant = {M(w) : w \in held}
    BY DEF Walk!Meant
  <2>2. held = {<<dir, id>>}
    BY <1>1
  <2>3. M(<<dir, id>>) = meaning
    OBVIOUS
  <2> HIDE DEF M, held, meaning
  <2> QED BY <2>1, <2>2, <2>3
<1>5. Walk!ToSet(listing) = {Walk!Session(v[1], v[2], v[3]) : v \in shown}
  BY DEF Walk!ListingIsTheView
<1>6. ASSUME NEW v \in shown PROVE v[1] = dir /\ v[2] = id /\ Walk!Loaded(dir, id) = "shown"
  <2>1. v[1] \in Directories /\ v[2] \in Ids /\ Walk!Decides(v[3], v[1], v[2])
        /\ Walk!Loaded(v[1], v[2]) = "shown"
    OBVIOUS
  <2>2. Walk!Has(v[1], v[2])
    BY <2>1 DEF Walk!Decides
  <2>3. v[1] = dir /\ v[2] = id
    BY <1>1, <2>1, <2>2
  <2> QED BY <2>1, <2>3
<1>7. Walk!Loaded(dir, id) = "shown" => Walk!Runnable(meaning)
  <2>1. Walk!Loaded(dir, id) = "shown" => command # None
    BY ShownHasCommand DEF Walk!Loaded
  <2> HIDE DEF command, meaning
  <2> QED BY <1>2, <2>1
<1>8. Walk!Runnable(meaning) => \E v \in shown : TRUE
  <2> SUFFICES ASSUME Walk!Runnable(meaning) PROVE \E v \in shown : TRUE
    OBVIOUS
  <2>1. Walk!Loaded(dir, id) = "shown"
    <3> HIDE DEF meaning
    <3> QED BY <1>1, <1>2, <1>3
  <2>2. \E i \in DOMAIN Walk!Search("wayland") : Walk!Search("wayland")[i] = dir
    <3>1. sessions # <<>>
      BY <1>1
    <3>2. Walk!Search("wayland") = sessions
      BY <3>1 DEF Walk!Search
    <3> QED BY <1>1, <3>2
  <2>3. Walk!Decides("wayland", dir, id)
    BY <1>1, <2>2, LoneDecides DEF Types
  <2>4. <<dir, id, "wayland">> \in shown
    BY <2>1, <2>3
  <2> QED BY <2>4
<1>9. \A v \in shown : Walk!ShellWords(Walk!Session(v[1], v[2], v[3]).command) = meaning
  <2> SUFFICES ASSUME NEW v \in shown
               PROVE  Walk!ShellWords(Walk!Session(v[1], v[2], v[3]).command) = meaning
    OBVIOUS
  <2>1. v[1] = dir /\ v[2] = id /\ Walk!Runnable(meaning)
    BY <1>6, <1>7
  <2>2. Walk!Session(v[1], v[2], v[3]).command = Walk!ShellJoin(command)
    BY <2>1 DEF Walk!Session
  <2> HIDE DEF command, meaning, shown
  <2>3. command = meaning
    BY <1>2, <2>1
  <2>4. Walk!ShellWords(Walk!ShellJoin(meaning)) = meaning
    BY <1>2, ShellReadsBack DEF Text
  <2> QED BY <2>2, <2>3, <2>4
<1> DEFINE words == {Walk!ShellWords(session.command) : session \in Walk!ToSet(listing)}
<1> HIDE DEF shown, meaning
<1>10. \A w \in words : w = meaning /\ Walk!Runnable(meaning)
  <2> SUFFICES ASSUME NEW session \in Walk!ToSet(listing)
               PROVE  Walk!ShellWords(session.command) = meaning /\ Walk!Runnable(meaning)
    OBVIOUS
  <2>1. PICK v \in shown : session = Walk!Session(v[1], v[2], v[3])
    BY <1>5
  <2> QED BY <1>6, <1>7, <1>9, <2>1
<1>11. Walk!Runnable(meaning) => meaning \in words
  <2> SUFFICES ASSUME Walk!Runnable(meaning) PROVE meaning \in words
    OBVIOUS
  <2>1. PICK v \in shown : TRUE
    BY <1>8
  <2>2. PICK session \in Walk!ToSet(listing) : session = Walk!Session(v[1], v[2], v[3])
    BY <1>5
  <2>3. Walk!ShellWords(session.command) = meaning
    BY <1>9, <2>2
  <2> QED BY <2>3
<1> HIDE DEF words
<1>12. words = {argv \in Walk!Meant : Walk!Runnable(argv)}
  BY <1>4, <1>10, <1>11
<1> QED BY <1>12 DEF words

LEMMA StepKnown == Known /\ (Walk!Next \/ UNCHANGED discoveryVars) => Known'
<1>1. Walk!Next \/ UNCHANGED discoveryVars =>
        sessions' = sessions /\ xsessions' = xsessions /\ disk' = disk /\ meant' = meant
  BY DEF Walk!Next, Walk!EffectivePaths, Walk!SkipDirectory, Walk!ReadDirectory, Walk!List,
         discoveryVars
<1> QED BY <1>1 DEF Known

(* The menu offers the command that the author of a session file meant,    *)
(* if it can run, and starting it runs exactly its arguments: for every    *)
(* command, however it is written within the rules of desktop entries, and *)
(* through the quoting of the Exec value, the field codes, the walk over   *)
(* the directories, the quoting for the shell and the shell's own reading  *)
(* (load_desktop_file, parse_exec, shell_join, get_sessions).              *)
THEOREM CommandsAreExact == PartsSpec => []ExecIsExact
<1> DEFINE Inv == which = "sessions" =>
                    WalkInv /\ Known /\ phase \in {"paths", "walk", "listed"}
<1>1. PartsInit => Inv
  <2>1. Walk!Init => Known
    BY DEF Walk!Init, Known
  <2> QED BY <2>1, InitWalked DEF PartsInit, Walk!Init
<1>2. Inv /\ [PartsNext]_partsVars => Inv'
  <2>1. phase \in {"paths", "walk", "listed"} /\ (Walk!Next \/ UNCHANGED discoveryVars)
          => phase' \in {"paths", "walk", "listed"}
    BY DEF Walk!Next, Walk!EffectivePaths, Walk!SkipDirectory, Walk!ReadDirectory, Walk!List,
           discoveryVars
  <2> QED BY <2>1, StepWalked, StepKnown DEF PartsNext, partsVars, discoveryVars
<1>3. Inv => ExecIsExact
  <2> SUFFICES ASSUME Inv, which = "sessions" PROVE Walk!ExecIsExact
    BY DEF ExecIsExact
  <2>1. CASE phase = "listed"
    BY <2>1, ViewIsExact DEF WalkInv
  <2>2. CASE phase # "listed"
    BY <2>2 DEF Walk!ExecIsExact
  <2> QED BY <2>1, <2>2
<1> QED
  BY <1>1, <1>2, <1>3, PTL DEF PartsSpec
=============================================================================
