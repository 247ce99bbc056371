-------------------------------- MODULE Layout --------------------------------
(***************************************************************************)
(* One frame of the login screen (ui/mod.rs: draw, and the views under     *)
(* ui/): how the rows of the terminal are shared out between the time and  *)
(* the battery, the status row, the box of the current view and its        *)
(* feedback, where the text cursor lands, and what of a field, a menu and  *)
(* the status row is shown when not all of it fits.  All of it is          *)
(* saturating 16 bit arithmetic on sizes that nobody checks.               *)
(*                                                                         *)
(* A screen is what a frame is drawn from.  Texts are given by their       *)
(* widths: a line that is only shown by its number of columns, a field     *)
(* that is edited by the widths of its graphemes.                          *)
(***************************************************************************)
EXTENDS Integers, Sequences, SequencesExt, FiniteSets

CONSTANTS
  MaxU16,        \* u16::MAX
  MaxColumns,    \* the longest text, in columns
  Lines(_, _),   \* ratatui's line_count: the rows of so many columns of text at a width
  Screens,       \* what a frame may be drawn from
  None

Modes == {"Username", "Password", "Action", "Users", "Command", "Sessions", "Power", "Processing"}
U16 == 0..MaxU16
Texts == 0..MaxColumns

ScreenType ==
  [width : U16, height : U16,               \* the terminal
   window_padding : U16, padding : U16,     \* the settings; padding is container_padding's
   prompt_padding : U16, box_width : U16,   \* box_width is the setting "width"
   mode : Modes, previous : Modes,
   prompt : Texts \cup {None},              \* the question of the conversation
   greeting : Texts \cup {None}, blank : BOOLEAN,   \* has_trailing_blank_line
   message : Texts \cup {None}, warning : Texts \cup {None},
   options : Nat, selected : Nat,           \* the open menu
   time : {"none", "top", "bottom"}, time_width : Nat,
   battery : Nat \cup {None}, side : {"left", "right"},
   status : {"top", "bottom", "hidden"}, caps : Nat \cup {None},
   entries : Seq([width : Nat \ {0}, priority : Nat]),   \* a label, a blank and a value
   label : Nat, spaced : BOOLEAN,           \* of the field; it ends in a space
   text : Seq(Nat), at : Nat,               \* the field, and the cursor in it
   secret : {"plain", "hidden", "masked"}, pool : Seq(Nat),
   choosing : BOOLEAN,                      \* user_menu with no name chosen
   accepts : BOOLEAN]                       \* auth_state.accepts_input

ASSUME MaxAssumption == MaxU16 \in Nat \ {0} /\ MaxColumns \in Nat
ASSUME LinesAssumption == \A columns \in Texts, width \in U16 : Lines(columns, width) \in Nat
ASSUME NoneAssumption == None \notin Nat /\ None \notin Nat \X Nat
ASSUME ScreensAssumption == Screens \subseteq ScreenType
ASSUME FieldAssumption == \A s \in Screens : s.at <= Len(s.text)

VARIABLES
  screen,   \* what the frame is drawn from
  frame     \* the frame, None before it is drawn

vars == <<screen, frame>>

-----------------------------------------------------------------------------
(* u16, saturating *)

Least(a, b) == IF a < b THEN a ELSE b
Most(a, b)  == IF a < b THEN b ELSE a
Plus(a, b)  == Least(MaxU16, a + b)
Minus(a, b) == IF a < b THEN 0 ELSE a - b
Flag(condition) == IF condition THEN 1 ELSE 0

Rect(x, y, width, height) == [x |-> x, y |-> y, width |-> width, height |-> height]
Right(area)  == area.x + area.width
Bottom(area) == area.y + area.height

(* util.rs *)
Inset(area, margin) ==
  Rect(Plus(area.x, Least(margin, area.width)), Plus(area.y, Least(margin, area.height)),
       Minus(area.width, Plus(margin, margin)), Minus(area.height, Plus(margin, margin)))

Centered(area, width, height) ==
  Rect(Plus(area.x, Minus(area.width, width) \div 2),
       Plus(area.y, Minus(area.height, height) \div 2), width, height)

(* Greeter::container_padding, and both sides of it *)
ContainerPadding(s) == Plus(s.padding, 1)
BothPaddings(s) == Plus(ContainerPadding(s), ContainerPadding(s))

Rows(columns, width, separator) ==
  IF columns = None \/ width = 0 THEN 0 ELSE Least(MaxU16, Lines(columns, width) + separator)

GreetingHeight(s, width) == Rows(s.greeting, width, Flag(~s.blank))
MessageHeight(columns, width) == Rows(columns, width, 0)

AsksAnswer(s) == s.mode = "Password" /\ s.prompt # None

(* get_height_with_greeting *)
HeightWithGreeting(s, greeting) ==
  CASE AsksAnswer(s) ->
         Plus(Plus(Plus(BothPaddings(s), s.prompt_padding), 2), greeting)
    [] s.mode \in {"Username", "Password", "Action"} /\ ~AsksAnswer(s) ->
         Plus(Plus(BothPaddings(s), 1), greeting)
    [] s.mode = "Command" -> Plus(BothPaddings(s), 1)
    [] s.mode = "Users" -> Plus(BothPaddings(s), greeting)
    [] OTHER -> BothPaddings(s)

ContentWidth(s, area) == Minus(Least(s.box_width, area.width), BothPaddings(s))

(* get_height, get_rect *)
Height(s, area) ==
  HeightWithGreeting(s, IF s.mode \in {"Command", "Sessions", "Power", "Processing"} THEN 0
                        ELSE GreetingHeight(s, ContentWidth(s, area)))
GetRect(s, area, items) ==
  Centered(area, Least(s.box_width, area.width),
           Least(Plus(Height(s, area), Least(MaxU16, items)), area.height))

(* feedback_layout *)
FeedbackBlock(area, width, preferred, minimum, requested) ==
  LET least == Least(Least(minimum, preferred), area.height)
      for_message == Flag(requested > 0 /\ area.height > least)
      for_gap == Flag(for_message > 0 /\ area.height > Plus(least, for_message))
      container == Most(Least(preferred, Minus(Minus(area.height, for_message), for_gap)), least)
      left == Minus(area.height, container)
      gap == Flag(requested > 0 /\ left > 1)
      message == Least(requested, Minus(left, gap))
      all == Centered(area, Least(width, area.width), Plus(Plus(container, gap), message))
  IN [container |-> Rect(all.x, all.y, all.width, container),
      message |-> Rect(all.x, Plus(Plus(all.y, container), gap), all.width, message),
      scroll |-> Minus(requested, message)]

(* input_area: what the label leaves of its row *)
InputArea(area, label, spaced) ==
  LET offset == Least(label + Flag(label > 0 /\ ~spaced), area.width)
  IN Rect(Plus(area.x, offset), area.y, area.width - offset, Least(area.height, 1))

-----------------------------------------------------------------------------
(* Fields (input.rs): the columns between two cursor positions, and the    *)
(* part of the text around the cursor that leaves a column for it.         *)

Columns(text, from, to) == FoldLeft(LAMBDA sum, w : sum + w, 0, SubSeq(text, from + 1, to))

Outermost(positions, last) ==
  CHOOSE p \in positions : \A q \in positions : IF last THEN q <= p ELSE p <= q

ViewWithBudget(text, at, columns, budget) ==
  LET start == Outermost({p \in 0..at : Columns(text, p, at) <= budget}, FALSE)
      end == Outermost({p \in at..Len(text) : Columns(text, start, p) <= columns} \cup {at}, TRUE)
  IN [start |-> start, end |-> end, column |-> Columns(text, start, at)]

(* Mutation: no column is kept for the cursor. *)
ViewToTheEdge(text, at, columns) == ViewWithBudget(text, at, columns, columns)

View(text, at, columns) == ViewWithBudget(text, at, columns, columns - 1)

(* mask_secret, masked_cursor *)
Mask(s) == IF s.pool = <<>> THEN <<>>
           ELSE [i \in DOMAIN s.text |-> s.pool[((i - 1) % Len(s.pool)) + 1]]
Shown(s) == IF s.secret = "masked" THEN Mask(s) ELSE s.text
ShownAt(s) == IF s.secret = "masked" /\ s.pool = <<>> THEN 0 ELSE s.at

HasRoom(field) == field.width > 0 /\ field.height > 0

(* render_input and area_cursor *)
AreaCursor(field, column) ==
  IF HasRoom(field) /\ column < field.width THEN <<field.x + column, field.y>> ELSE None
InputView(text, at, field) == IF HasRoom(field) THEN View(text, at, field.width) ELSE None
InputCursor(text, at, field) ==
  IF HasRoom(field) THEN AreaCursor(field, InputView(text, at, field).column) ELSE None

-----------------------------------------------------------------------------
(* The views *)

NoList == [start |-> 0, visible |-> 0]
Box(area, container, inner) ==
  [main |-> area, container |-> container, inner |-> inner,
   message |-> Rect(container.x, Bottom(container), container.width, 0), scroll |-> 0,
   greeting |-> 0, username |-> 0, gap |-> 0, answer |-> 0,
   list |-> NoList, field |-> None, drawn |-> None, cursor |-> None]

(* The rows of the prompt: the answer before the username before the       *)
(* greeting before the padding.                                            *)
PromptRows(s, available, greeting) ==
  LET answer == Least(Flag(AsksAnswer(s)), available)
      username == Least(1, Minus(available, answer))
      left == Minus(Minus(available, answer), username)
      shown == Least(greeting, left)
  IN [greeting |-> shown, username |-> username, answer |-> answer,
      gap |-> IF AsksAnswer(s) THEN Least(s.prompt_padding, Minus(left, shown)) ELSE 0]

(* prompt.rs *)
Answering(s) == s.mode = "Password" \/ s.previous = "Password"
MinimumHeight(s) == Plus(Plus(BothPaddings(s), 1), Flag(AsksAnswer(s)))
PromptMessage(s) == IF s.warning # None THEN s.warning ELSE s.message

(* What is drawn in the field, and the cursor in it. *)
PromptDrawn(s, field) ==
  CASE Answering(s) /\ s.secret = "hidden" -> None
    [] Answering(s) /\ s.secret # "hidden" -> InputView(Shown(s), ShownAt(s), field)
    [] ~Answering(s) /\ s.mode = "Username" /\ ~s.choosing -> InputView(s.text, s.at, field)
    [] OTHER -> None
PromptCursor(s, field) ==
  CASE Answering(s) /\ s.secret = "hidden" -> AreaCursor(field, 0)
    [] Answering(s) /\ s.secret # "hidden" -> InputCursor(Shown(s), ShownAt(s), field)
    [] ~Answering(s) /\ s.mode = "Username" /\ ~s.choosing -> InputCursor(s.text, s.at, field)
    [] OTHER -> None

Prompt(s, area) ==
  LET width == Least(s.box_width, area.width)
      greeting == GreetingHeight(s, ContentWidth(s, area))
      block == FeedbackBlock(area, width, HeightWithGreeting(s, greeting), MinimumHeight(s),
                             MessageHeight(PromptMessage(s), width))
      inner == Inset(block.container, ContainerPadding(s))
      rows == PromptRows(s, inner.height, greeting)
      username == Rect(inner.x, inner.y + rows.greeting, inner.width, rows.username)
      answer == Rect(inner.x, inner.y + rows.greeting + rows.username + rows.gap,
                     inner.width, rows.answer)
      field == InputArea(IF Answering(s) THEN answer ELSE username, s.label, s.spaced)
  IN [Box(area, block.container, inner) EXCEPT
        !.message = block.message, !.scroll = block.scroll,
        !.greeting = rows.greeting, !.username = rows.username,
        !.gap = rows.gap, !.answer = rows.answer,
        !.field = field,
        !.drawn = PromptDrawn(s, field), !.cursor = PromptCursor(s, field)]

(* command.rs *)
CommandCursor(s, field) ==
  IF HasRoom(field) THEN <<field.x + InputView(s.text, s.at, field).column, field.y>> ELSE None

Command(s, area) ==
  LET width == Least(s.box_width, area.width)
      block == FeedbackBlock(area, width, Height(s, area), Height(s, area),
                             MessageHeight(s.warning, width))
      inner == Inset(block.container, ContainerPadding(s))
      row == Rect(inner.x, inner.y, inner.width, Least(1, inner.height))
      field == InputArea(row, s.label, s.spaced)
  IN [Box(area, block.container, inner) EXCEPT
        !.message = block.message, !.scroll = block.scroll, !.field = field,
        !.drawn = InputView(s.text, s.at, field), !.cursor = CommandCursor(s, field)]

(* Mutation: the highlighted row is counted from zero. *)
ListOneShort(s, visible) ==
  [start |-> Minus(Least(s.selected, Minus(s.options, 1)), visible), visible |-> visible]

(* common/menu.rs: the first of the visible options *)
List(s, visible) ==
  [start |-> Minus(Least(s.selected, Minus(s.options, 1)) + 1, visible), visible |-> visible]

Menu(s, area) ==
  LET container == GetRect(s, area, s.options)
      inner == Inset(container, ContainerPadding(s))
  IN [Box(area, container, inner) EXCEPT !.list = List(s, inner.height)]

(* processing.rs *)
Processing(s, area) ==
  LET container == GetRect(s, area, 1)
  IN Box(area, container, Inset(container, ContainerPadding(s)))

BoxOf(s, area) ==
  CASE s.mode = "Command" -> Command(s, area)
    [] s.mode \in {"Users", "Sessions", "Power"} -> Menu(s, area)
    [] s.mode = "Processing" -> Processing(s, area)
    [] OTHER -> Prompt(s, area)

-----------------------------------------------------------------------------
(* The rows around the view (ui/mod.rs) *)

Wanted(s) ==
  [info |-> Flag(s.time = "top" \/ s.battery # None), above |-> Flag(s.status = "top"),
   below |-> Flag(s.status = "bottom"), clock |-> Flag(s.time = "bottom")]

Sum(rows) == rows.info + rows.above + rows.below + rows.clock

(* ratatui's Layout gives every Length(1) its row while they last; which   *)
(* of them goes without when the screen is too low is not ours to say.     *)
Shares(s, height) ==
  LET wanted == Wanted(s)
  IN {given \in [info : 0..1, above : 0..1, below : 0..1, clock : 0..1] :
        /\ \A row \in DOMAIN given : given[row] <= wanted[row]
        /\ Sum(given) = Least(Sum(wanted), height)}

MainArea(padded, given) ==
  Rect(padded.x, padded.y + given.info + given.above, padded.width, padded.height - Sum(given))

(* info_items_fit: the battery is left out unless a blank is beside it. *)
TimeStart(s, width) == (width - Least(s.time_width, width)) \div 2
BatteryFits(s, width) ==
  /\ s.battery # None
  /\ s.battery <= width
  /\ s.time = "top" =>
       IF s.side = "left" THEN s.battery + 1 <= TimeStart(s, width)
       ELSE width - s.battery >= TimeStart(s, width) + Least(s.time_width, width) + 1

(* render_status: the caps lock mark first, the entries in what it leaves. *)
CapsWidth(s, width) == IF s.caps # None /\ s.caps <= width THEN s.caps ELSE 0
EntriesWidth(s, width) ==
  LET caps == CapsWidth(s, width) IN Minus(width, caps + Flag(caps # 0 /\ width > caps))

(* select_status_entries: by priority and place, each that still fits.     *)
Earlier(entries, i) ==
  {j \in DOMAIN entries : \/ entries[j].priority < entries[i].priority
                          \/ entries[j].priority = entries[i].priority /\ j < i}
Order(entries) ==
  [n \in DOMAIN entries |->
     CHOOSE i \in DOMAIN entries : Cardinality(Earlier(entries, i)) = n - 1]

Take(s, entry, i, available) ==
  LET required == entry.width + Flag(s.used # 0)
  IN IF s.used + required <= available
     THEN [selected |-> s.selected \cup {i}, used |-> s.used + required] ELSE s
Select(entries, available) ==
  FoldLeft(LAMBDA s, i : Take(s, entries[i], i, available),
           [selected |-> {}, used |-> 0], Order(entries)).selected

ShouldHideCursor(s) ==
  \/ ~s.accepts
  \/ s.choosing /\ s.mode = "Username"
  \/ s.mode = "Password" /\ s.prompt = None
  \/ s.mode \notin {"Username", "Password", "Command"}

-----------------------------------------------------------------------------
Init == screen \in Screens /\ frame = None

(* draw, with the blinking cursor on *)
Draw ==
  /\ frame = None
  /\ LET padded == Inset(Rect(0, 0, screen.width, screen.height), screen.window_padding)
     IN \E given \in Shares(screen, padded.height) :
          LET box == BoxOf(screen, MainArea(padded, given))
          IN frame' = [padded |-> padded, given |-> given, box |-> box,
                       cursor |-> IF ShouldHideCursor(screen) THEN None ELSE box.cursor,
                       battery |-> BatteryFits(screen, padded.width),
                       entries |-> Select(screen.entries, EntriesWidth(screen, padded.width))]
  /\ UNCHANGED screen

Next == Draw

Spec == Init /\ [][Next]_vars

-----------------------------------------------------------------------------
Inside(inner, outer) ==
  /\ outer.x <= inner.x /\ Right(inner) <= Right(outer)
  /\ outer.y <= inner.y /\ Bottom(inner) <= Bottom(outer)

(* What must be left of the box for the login to go on, in true numbers.   *)
EssentialHeight(s) == 2 * (s.padding + 1) + 1 + Flag(AsksAnswer(s))
Feedback(s) == IF s.mode = "Command" THEN s.warning ELSE PromptMessage(s)
IsPrompt(s) == s.mode \in {"Username", "Password", "Action"}

(* Nothing lies outside what holds it, and the message is below the box,   *)
(* inside the same area.                                                   *)
BlocksNest(s, f) ==
  /\ Inside(f.padded, Rect(0, 0, s.width, s.height))
  /\ Inside(f.box.main, f.padded)
  /\ Inside(f.box.container, f.box.main)
  /\ Inside(f.box.inner, f.box.container)
  /\ Inside(f.box.message, f.box.main)
  /\ Bottom(f.box.container) <= f.box.message.y

(* The rows of the prompt have their place, and a screen with just enough  *)
(* rows for it shows the name and, when one is asked for, the answer.      *)
EssentialsShown(s, f) ==
  IsPrompt(s) =>
    /\ f.box.greeting + f.box.username + f.box.gap + f.box.answer <= f.box.inner.height
    /\ f.box.main.height >= EssentialHeight(s) =>
         f.box.username = 1 /\ f.box.answer = Flag(AsksAnswer(s))

(* One row more and the newest line of the feedback is there, two more and *)
(* there is a blank between; what is cut of the feedback are its first     *)
(* lines.                                                                  *)
FeedbackShown(s, f) ==
  LET rows == MessageHeight(Feedback(s), f.box.container.width)
  IN ((IsPrompt(s) \/ s.mode = "Command") /\ rows > 0) =>
       /\ f.box.scroll + f.box.message.height = rows
       /\ f.box.main.height > EssentialHeight(s) => f.box.message.height > 0
       /\ f.box.main.height > EssentialHeight(s) + 1 =>
            f.box.message.y > Bottom(f.box.container)

(* A menu that shows any row shows the highlighted one, and leaves no row  *)
(* empty while it hides an option.                                         *)
HighlightShown(s, f) ==
  LET list == f.box.list
  IN (s.mode \in {"Users", "Sessions", "Power"} /\ s.selected < s.options /\ list.visible > 0) =>
       /\ list.start <= s.selected /\ s.selected < list.start + list.visible
       /\ list.start > 0 => list.start + list.visible <= s.options

(* The frame holds on any screen and with any setting, from no row at all  *)
(* to paddings that overflow: the blocks nest, and what the user needs is  *)
(* the last to go (feedback_layout, get_rect, prompt.rs, menu.rs).         *)
LayoutFits ==
  frame # None =>
    /\ BlocksNest(screen, frame)
    /\ EssentialsShown(screen, frame)
    /\ FeedbackShown(screen, frame)
    /\ HighlightShown(screen, frame)

(* The columns of the shown entries, each with a blank before the next.    *)
EntriesTake(s, f) ==
  Minus(FoldLeft(LAMBDA sum, n : sum + n, 0,
                 [i \in DOMAIN s.entries |->
                    IF i \in f.entries THEN s.entries[i].width + 1 ELSE 0]), 1)

(* The text a view takes keys into, as it is shown, and the place in it    *)
(* where the next one goes.                                                *)
Typed(s)   == IF IsPrompt(s) /\ Answering(s) THEN Shown(s) ELSE s.text
TypedAt(s) == IF IsPrompt(s) /\ Answering(s) THEN ShownAt(s) ELSE s.at

(* What is drawn of a text lies in the field, around the place of the      *)
(* cursor; one grapheme more on either side would not fit, or take the     *)
(* cursor its column; and the cursor stands behind what is drawn before    *)
(* its place.                                                              *)
DrawnAround(drawn, text, at, field, column) ==
  /\ drawn.start \in 0..at /\ drawn.end \in at..Len(text)
  /\ Columns(text, drawn.start, drawn.end) <= field.width
  /\ drawn.start > 0 => Columns(text, drawn.start - 1, at) >= field.width
  /\ drawn.end < Len(text) => Columns(text, drawn.start, drawn.end + 1) > field.width
  /\ column = field.x + Columns(text, drawn.start, at)

(* A cursor is where the next key goes: in the field of the view, left of  *)
(* its edge, behind the text before its place in a window on the text as   *)
(* wide as the field allows, and it is there whenever the view takes text  *)
(* and its field has a column at all; a hidden secret does not move it.    *)
(* In the rows around, nothing is drawn over: the entries stay clear of    *)
(* the caps lock mark, the battery of the time on either way to center it  *)
(* (draw, input::view, render_status, info_items_fit).                     *)
CursorIsInField ==
  frame # None =>
    LET field == frame.box.field
        width == frame.padded.width
        time == Least(screen.time_width, width)
    IN /\ frame.cursor # None =>
            /\ field.x <= frame.cursor[1] /\ frame.cursor[1] < Right(field)
            /\ frame.cursor[2] = field.y /\ field.height = 1
            /\ IF IsPrompt(screen) /\ Answering(screen) /\ screen.secret = "hidden"
               THEN frame.cursor[1] = field.x
               ELSE DrawnAround(frame.box.drawn, Typed(screen), TypedAt(screen), field,
                                frame.cursor[1])
       /\ (~ShouldHideCursor(screen) /\ HasRoom(field)) => frame.cursor # None
       /\ EntriesTake(screen, frame) + CapsWidth(screen, width) <= width
       /\ (frame.battery /\ screen.time = "top") =>
            \A start \in {(width - time) \div 2, (width - time + 1) \div 2} :
              IF screen.side = "left" THEN screen.battery <= start
              ELSE start + time <= width - screen.battery
=============================================================================
