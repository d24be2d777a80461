-------------------------- MODULE FramePipelineProofs --------------------------
(***************************************************************************)
(* For any sizes, colours and scaling: the framebuffer of the encoder is   *)
(* what the client shows whenever no update is being sent, and the last    *)
(* frame of the pipeline is what the client shows once all that is on its  *)
(* way has been sent.                                                      *)
(***************************************************************************)
EXTENDS FramePipeline, SequenceTheorems, FunctionTheorems, FiniteSetTheorems, TLAPS

\* A tile that is still to be sent, and a tile that need not be.
SendInv ==
    bitmap # None =>
        /\ framebuffer = None =>
              \/ rects = {DOMAIN bitmap}
              \/ rects = {} /\ \A t \in desktop \cap DOMAIN bitmap : picture[t] = bitmap[t]
        /\ framebuffer # None =>
              /\ \A rect \in rects : \E t \in DOMAIN bitmap : rect = {t}
              /\ \A t \in desktop :
                    picture[t] = IF t \in DOMAIN bitmap /\ {t} \notin rects
                                 THEN bitmap[t] ELSE framebuffer[t]

\* A bitmap is of some tiles of a frame, a queue of them has a tile.
PieceOf(b, frame) == \A t \in DOMAIN b : t \in DOMAIN frame /\ b[t] = frame[t]
PiecesOf(queue, frame) == \A k \in DOMAIN queue : PieceOf(queue[k], frame)
Covers(queue, t) == \E k \in DOMAIN queue : t \in DOMAIN queue[k]

\* What is on its way are pieces of the last frame, and nothing is when there is
\* none; what is not on its way has arrived.
WayInv ==
    /\ PiecesOf(pending, prev)
    /\ bitmap # None => PieceOf(bitmap, prev)
    /\ prev # None =>
        \A t \in desktop \cap DOMAIN prev :
            Covers(pending, t) \/ (bitmap # None /\ t \in DOMAIN bitmap) \/ picture[t] = prev[t]

IInv == TypeOK /\ SendInv /\ ClientHasFramebuffer /\ WayInv

-----------------------------------------------------------------------------
(* Pictures and bitmaps. *)

\* A bitmap is a function of some tiles.
LEMMA BitmapFacts ==
    ASSUME NEW b \in Bitmaps
    PROVE  /\ b = [t \in DOMAIN b |-> b[t]]
           /\ DOMAIN b # {} /\ DOMAIN b \subseteq UNION Sizes
           /\ \A t \in DOMAIN b : b[t] \in Colours
           /\ b # None
<1>1. PICK tiles \in UNION {(SUBSET size) \ {{}} : size \in Sizes} : b \in [tiles -> Colours]
    BY Zenon DEF Bitmaps
<1>2. DOMAIN b = tiles /\ tiles # {} /\ tiles \subseteq UNION Sizes
    BY <1>1
<1>3. b # None
    BY <1>2 DEF None
<1> QED
    BY <1>1, <1>2, <1>3

\* Some buffers may be missed.
LEMMA MissedSome == MaxMissed \in Nat \ {0}
BY PictureAssumption, Zenon

\* A picture is a bitmap of all tiles of a size.
LEMMA PictureFacts ==
    ASSUME NEW p \in AllPictures
    PROVE  /\ p \in Bitmaps
           /\ DOMAIN p \in Sizes /\ IsFiniteSet(DOMAIN p) /\ DOMAIN p \subseteq Nat
           /\ p \in [DOMAIN p -> Colours]
<1>1. PICK size \in Sizes : p \in [size -> Colours]
    BY DEF AllPictures, Pictures
<1>2. DOMAIN p = size /\ IsFiniteSet(size) /\ size # {} /\ size \subseteq Nat
    BY <1>1, PictureAssumption
<1>3. size \in (SUBSET size) \ {{}}
    BY <1>2
<1>4. p \in Bitmaps
    BY <1>1, <1>3 DEF Bitmaps
<1> QED
    BY <1>1, <1>2, <1>4

\* Every tile has a number in reading order, and no two have the same.
LEMMA NthEnumerates ==
    ASSUME NEW tiles \in SUBSET Nat, IsFiniteSet(tiles)
    PROVE  /\ Cardinality(tiles) \in Nat
           /\ \A k \in 1 .. Cardinality(tiles) : Nth(tiles, k) \in tiles
           /\ \A t \in tiles : \E k \in 1 .. Cardinality(tiles) : Nth(tiles, k) = t
<1> DEFINE n == Cardinality(tiles)
           upto(t) == {u \in tiles : u <= t}
           rank == [t \in tiles |-> Cardinality(upto(t))]
<1>1. n \in Nat
    BY FS_CardinalityType
<1>2. ASSUME NEW t \in tiles
      PROVE  IsFiniteSet(upto(t)) /\ Cardinality(upto(t)) \in 1 .. n
    <2>1. upto(t) \in SUBSET tiles /\ t \in upto(t)
        OBVIOUS
    <2>2. IsFiniteSet(upto(t)) /\ Cardinality(upto(t)) <= n
        BY <2>1, FS_Subset
    <2>3. Cardinality(upto(t)) \in Nat /\ Cardinality(upto(t)) # 0
        BY <2>1, <2>2, FS_CardinalityType, FS_EmptySet
    <2> QED
        BY <1>1, <2>2, <2>3
<1>3. ASSUME NEW t \in tiles, NEW v \in tiles, t < v
      PROVE  Cardinality(upto(t)) # Cardinality(upto(v))
    <2>1. upto(t) \in SUBSET upto(v) /\ v \in upto(v) /\ v \notin upto(t)
        <3>1. t \in Nat /\ v \in Nat /\ ~(v <= t) /\ v <= v
            BY <1>3
        <3>2. \A u \in tiles : u <= t => u <= v
            BY <1>3
        <3> QED
            BY <3>1, <3>2
    <2> QED
        BY <1>2, <2>1, FS_Subset
<1>4. rank \in Injection(tiles, 1 .. n)
    <2>1. rank \in [tiles -> 1 .. n]
        BY <1>2
    <2>2. ASSUME NEW t \in tiles, NEW v \in tiles, rank[t] = rank[v] PROVE t = v
        <3>1. ~(t < v) /\ ~(v < t)
            BY <1>3, <2>2
        <3> QED
            BY <3>1
    <2> QED
        BY <2>1, <2>2 DEF Injection, IsInjective
<1>5. IsFiniteSet(1 .. n) /\ Cardinality(1 .. n) = n
    BY <1>1, FS_Interval
<1>6. rank \in Surjection(tiles, 1 .. n)
    BY <1>4, <1>5, FS_Injection
<1>7. ASSUME NEW k \in 1 .. n
      PROVE  Nth(tiles, k) \in tiles /\ rank[Nth(tiles, k)] = k
    <2>1. \E t \in tiles : Cardinality(upto(t)) = k
        BY <1>6 DEF Surjection
    <2>2. Nth(tiles, k) \in tiles /\ Cardinality(upto(Nth(tiles, k))) = k
        BY <2>1 DEF Nth
    <2> QED
        BY <2>2
<1>8. ASSUME NEW t \in tiles PROVE \E k \in 1 .. n : Nth(tiles, k) = t
    <2>1. rank[t] \in 1 .. n
        BY <1>2
    <2>2. Nth(tiles, rank[t]) \in tiles /\ rank[Nth(tiles, rank[t])] = rank[t]
        BY <1>7, <2>1
    <2> QED
        BY <1>4, <2>1, <2>2 DEF Injection, IsInjective
<1> QED
    BY <1>1, <1>7, <1>8

\* The updates of a frame are pieces of it, and have every tile that has
\* changed since the last frame.
LEMMA UpdatesOfFrame ==
    ASSUME NEW last, NEW frame \in AllPictures
    PROVE  /\ Updates(last, frame) \in Seq(Bitmaps)
           /\ PiecesOf(Updates(last, frame), frame)
           /\ \A t \in DOMAIN frame :
                 \/ Covers(Updates(last, frame), t)
                 \/ last # None /\ DOMAIN last = DOMAIN frame /\ last[t] = frame[t]
<1>0. frame \in Bitmaps /\ IsFiniteSet(DOMAIN frame) /\ DOMAIN frame \subseteq Nat
      /\ DOMAIN frame \in Sizes /\ frame \in [DOMAIN frame -> Colours]
    BY PictureFacts
<1>1. CASE Updates(last, frame) = <<frame>>
    <2>1. <<frame>> \in Seq(Bitmaps) /\ DOMAIN <<frame>> = {1} /\ <<frame>>[1] = frame
        BY <1>0
    <2> QED
        BY <1>1, <2>1 DEF PiecesOf, PieceOf, Covers
<1>2. CASE /\ last # None /\ DOMAIN last = DOMAIN frame
           /\ Updates(last, frame) = Subs(frame, Differing(last, frame))
    <2> DEFINE dirty == Differing(last, frame)
               n == Cardinality(dirty)
               sub == [k \in 1 .. n |-> [t \in {Nth(dirty, k)} |-> frame[t]]]
    <2>1. dirty \in SUBSET DOMAIN frame
        BY DEF Differing
    <2>2. IsFiniteSet(dirty) /\ dirty \in SUBSET Nat
        BY <1>0, <2>1, FS_Subset
    <2>3. \A t \in DOMAIN frame : t \in dirty \/ last[t] = frame[t]
        BY <1>2 DEF Differing
    <2>4. Updates(last, frame) = sub
        BY <1>2 DEF Subs
    <2> HIDE DEF dirty
    <2>5. /\ n \in Nat
          /\ \A k \in 1 .. n : Nth(dirty, k) \in dirty
          /\ \A t \in dirty : \E k \in 1 .. n : Nth(dirty, k) = t
        BY <2>2, NthEnumerates
    <2> HIDE DEF n
    <2>6. ASSUME NEW k \in 1 .. n
          PROVE  /\ sub[k] \in Bitmaps /\ PieceOf(sub[k], frame)
                 /\ DOMAIN sub[k] = {Nth(dirty, k)}
        <3>1. sub[k] = [t \in {Nth(dirty, k)} |-> frame[t]]
            OBVIOUS
        <3>2. Nth(dirty, k) \in DOMAIN frame
            BY <2>1, <2>5
        <3>3. sub[k] \in [{Nth(dirty, k)} -> Colours]
            BY <1>0, <3>1, <3>2
        <3>4. {Nth(dirty, k)} \in (SUBSET DOMAIN frame) \ {{}}
            BY <3>2
        <3>5. {Nth(dirty, k)} \in UNION {(SUBSET size) \ {{}} : size \in Sizes}
            BY <1>0, <3>4
        <3>6. sub[k] \in Bitmaps
            BY <3>3, <3>5, Zenon DEF Bitmaps
        <3> QED
            BY <3>1, <3>2, <3>6 DEF PieceOf
    <2>7. DOMAIN sub = 1 .. n /\ sub \in Seq(Bitmaps)
        BY <2>5, <2>6
    <2>8. \A t \in dirty : Covers(sub, t)
        BY <2>5, <2>6, <2>7 DEF Covers
    <2>9. PiecesOf(sub, frame)
        BY <2>6, <2>7 DEF PiecesOf
    <2> HIDE DEF sub
    <2> QED
        BY <1>2, <2>3, <2>4, <2>7, <2>8, <2>9
<1> QED
    BY <1>1, <1>2 DEF Updates

\* What the pipeline makes of a screen is a picture.
LEMMA ProcessedIsPicture ==
    ASSUME screen \in AllPictures, desktop \in Sizes
    PROVE  Processed(screen) \in AllPictures
<1>1. DOMAIN screen \in Sizes /\ screen \in [DOMAIN screen -> Colours]
    BY PictureFacts
<1>2. Letterbox(screen) \in [desktop -> Colours]
    <2>1. Black \in Colours
        BY PictureAssumption, Zenon
    <2> QED
        BY <1>1, <2>1 DEF Letterbox
<1>3. Letterbox(screen) \in AllPictures
    BY <1>2 DEF AllPictures, Pictures
<1> QED
    BY <1>3 DEF Processed

-----------------------------------------------------------------------------
(* The steps. *)

\* pop_update, and the bitmap that it gives the encoder.
LEMMA TakeHolds ==
    ASSUME TypeOK, ClientHasFramebuffer, NEW queue \in Seq(Bitmaps), Take(queue),
           bitmap = None, UNCHANGED <<desktop, picture>>
    PROVE  /\ pending' \in Seq(Bitmaps) /\ bitmap' \in Bitmaps \cup {None}
           /\ rects' \subseteq SUBSET UNION Sizes /\ framebuffer' = framebuffer
           /\ SendInv' /\ ClientHasFramebuffer'
           /\ \A frame : PiecesOf(queue, frame) =>
                 /\ PiecesOf(pending', frame)
                 /\ bitmap' # None => PieceOf(bitmap', frame)
           /\ \A t : Covers(queue, t) =>
                 Covers(pending', t) \/ (bitmap' # None /\ t \in DOMAIN bitmap')
<1>1. CASE queue = <<>>
    <2>1. /\ pending' = queue /\ bitmap' = None /\ rects' = rects /\ framebuffer' = framebuffer
        BY <1>1 DEF Take, encoderVars
    <2>2. \A t : ~Covers(queue, t)
        BY <1>1 DEF Covers
    <2> QED
        BY <2>1, <2>2 DEF TypeOK, SendInv, ClientHasFramebuffer
<1>2. CASE queue # <<>>
    <2>1. /\ pending' = Tail(queue) /\ bitmap' = Head(queue) /\ rects' = BitmapDiffs(Head(queue))
          /\ framebuffer' = framebuffer
        BY <1>2 DEF Take, Encode
    <2>2. /\ Head(queue) \in Bitmaps /\ Tail(queue) \in Seq(Bitmaps) /\ Head(queue) = queue[1]
          /\ Len(queue) \in Nat \ {0} /\ Len(Tail(queue)) = Len(queue) - 1
          /\ \A k \in 1 .. Len(Tail(queue)) : Tail(queue)[k] = queue[k + 1]
        BY <1>2, HeadTailProperties
    <2>3. bitmap' # None /\ DOMAIN bitmap' \subseteq UNION Sizes
        BY <2>1, <2>2, BitmapFacts
    <2>4. rects' \subseteq SUBSET UNION Sizes
        BY <2>1, <2>3 DEF BitmapDiffs, Differing
    <2>5. ClientHasFramebuffer'
        BY <2>3 DEF ClientHasFramebuffer
    <2>6. SendInv'
        <3>1. CASE framebuffer = None
            BY <2>1, <3>1 DEF BitmapDiffs, SendInv
        <3>2. CASE framebuffer # None
            <4>1. framebuffer = picture /\ DOMAIN framebuffer = desktop
                BY <3>2 DEF ClientHasFramebuffer, TypeOK
            <4>2. rects' = {{t} : t \in Differing(framebuffer, bitmap')}
                BY <2>1, <3>2 DEF BitmapDiffs
            <4>3. \A rect \in rects' : \E t \in DOMAIN bitmap' : rect = {t}
                BY <4>2 DEF Differing
            <4>4. \A t \in desktop :
                     picture[t] = IF t \in DOMAIN bitmap' /\ {t} \notin rects'
                                  THEN bitmap'[t] ELSE framebuffer[t]
                BY <4>1, <4>2 DEF Differing
            <4> QED
                BY <2>1, <3>2, <4>3, <4>4 DEF SendInv
        <3> QED
            BY <3>1, <3>2
    <2>7. DOMAIN queue = 1 .. Len(queue) /\ DOMAIN Tail(queue) = 1 .. Len(Tail(queue))
        BY <2>2
    <2>8. ASSUME NEW frame, PiecesOf(queue, frame)
          PROVE  PiecesOf(Tail(queue), frame) /\ PieceOf(Head(queue), frame)
        <3>1. PieceOf(queue[1], frame) /\ \A k \in 1 .. Len(Tail(queue)) : PieceOf(queue[k + 1], frame)
            BY <2>2, <2>7, <2>8 DEF PiecesOf
        <3> QED
            BY <2>2, <2>7, <3>1 DEF PiecesOf
    <2>9. ASSUME NEW t, Covers(queue, t)
          PROVE  Covers(Tail(queue), t) \/ t \in DOMAIN Head(queue)
        <3>1. PICK k \in 1 .. Len(queue) : t \in DOMAIN queue[k]
            BY <2>7, <2>9 DEF Covers
        <3>2. CASE k = 1
            BY <2>2, <3>1, <3>2
        <3>3. CASE k # 1
            <4>1. k - 1 \in 1 .. Len(Tail(queue)) /\ Tail(queue)[k - 1] = queue[k]
                BY <2>2, <3>3
            <4> QED
                BY <2>7, <3>1, <4>1 DEF Covers
        <3> QED
            BY <3>2, <3>3
    <2> QED
        BY <2>1, <2>2, <2>3, <2>4, <2>5, <2>6, <2>8, <2>9
<1> QED
    BY <1>1, <1>2

\* A tile drawn, or another screen.
LEMMA ScreenHolds ==
    ASSUME IInv, Draw \/ ScreenResized
    PROVE  IInv'
<1>1. screen' \in AllPictures
    <2>1. PICK size \in Sizes : screen \in Pictures(size)
        BY DEF IInv, TypeOK, AllPictures
    <2>2. ASSUME NEW t \in DOMAIN screen, NEW c \in Colours, screen' = [screen EXCEPT ![t] = c]
          PROVE  screen' \in Pictures(size)
        BY <2>1, <2>2 DEF Pictures
    <2>3. ASSUME NEW s \in Sizes, NEW c \in Colours,
                 screen' = [t \in s |-> IF t \in DOMAIN screen THEN screen[t] ELSE c]
          PROVE  screen' \in Pictures(s)
        BY <2>1, <2>3 DEF Pictures
    <2> QED
        BY <2>2, <2>3 DEF Draw, ScreenResized, AllPictures
<1>2. UNCHANGED <<modeVars, desktop, streamVars, prev, pending, encoderVars, picture>>
    BY DEF Draw, ScreenResized
<1>3. /\ capture' = capture /\ aspect' = aspect /\ desktop' = desktop /\ streamSize' = streamSize
      /\ missed' = missed /\ prev' = prev /\ pending' = pending /\ bitmap' = bitmap
      /\ rects' = rects /\ framebuffer' = framebuffer /\ picture' = picture
    BY <1>2 DEF modeVars, streamVars, encoderVars
<1>4. (running \in BOOLEAN)'
    BY <1>2, Zenon DEF IInv, TypeOK, streamVars
<1> QED
    BY <1>1, <1>3, <1>4 DEF IInv, TypeOK, SendInv, ClientHasFramebuffer, WayInv

\* A rectangle is sent.
LEMMA SendHolds ==
    ASSUME IInv, SendRect
    PROVE  IInv'
<1>1. PICK rect \in rects :
         /\ rects' = rects \ {rect}
         /\ picture' = [t \in desktop |-> IF t \in rect THEN bitmap[t] ELSE picture[t]]
    BY DEF SendRect
<1>2. bitmap # None /\ UNCHANGED <<screen, modeVars, desktop, streamVars, prev, pending, bitmap, framebuffer>>
    BY DEF SendRect
<1>3. /\ screen' = screen /\ capture' = capture /\ aspect' = aspect /\ desktop' = desktop
      /\ streamSize' = streamSize /\ missed' = missed /\ prev' = prev /\ pending' = pending
      /\ bitmap' = bitmap /\ framebuffer' = framebuffer
    BY <1>2 DEF modeVars, streamVars
<1>4. (running \in BOOLEAN)'
    BY <1>2, Zenon DEF IInv, TypeOK, streamVars
<1>5. rect \subseteq DOMAIN bitmap
    BY <1>1, <1>2 DEF IInv, SendInv
<1>6. \A t \in DOMAIN bitmap : bitmap[t] \in Colours
    <2>1. bitmap \in Bitmaps
        BY <1>2 DEF IInv, TypeOK
    <2> QED
        BY <2>1, BitmapFacts
<1>7. picture' \in [desktop -> Colours \cup {Blank}]
    <2>1. picture \in [desktop -> Colours \cup {Blank}]
        BY DEF IInv, TypeOK
    <2> QED
        BY <1>1, <1>5, <1>6, <2>1
<1>8. TypeOK'
    <2>1. rects' \subseteq SUBSET UNION Sizes
        BY <1>1 DEF IInv, TypeOK
    <2> QED
        BY <1>3, <1>4, <1>7, <2>1 DEF IInv, TypeOK
<1>9. ClientHasFramebuffer'
    BY <1>2, <1>3 DEF ClientHasFramebuffer
<1>10. WayInv'
    <2> SUFFICES ASSUME prev # None
                 PROVE  \A t \in desktop \cap DOMAIN prev :
                            \/ Covers(pending, t) \/ t \in DOMAIN bitmap
                            \/ picture'[t] = prev[t]
        BY <1>2, <1>3 DEF IInv, WayInv
    <2> SUFFICES ASSUME NEW t \in desktop \cap DOMAIN prev,
                        ~Covers(pending, t), t \notin DOMAIN bitmap
                 PROVE  picture'[t] = prev[t]
        OBVIOUS
    <2>1. picture[t] = prev[t]
        BY DEF IInv, WayInv
    <2> QED
        BY <1>1, <1>5, <2>1
<1>11. CASE framebuffer = None
    <2>1. rect = DOMAIN bitmap /\ rects' = {}
        BY <1>1, <1>2, <1>11 DEF IInv, SendInv
    <2>2. \A t \in desktop \cap DOMAIN bitmap : picture'[t] = bitmap[t]
        BY <1>1, <2>1
    <2>3. SendInv'
        BY <1>3, <1>11, <2>1, <2>2 DEF SendInv
    <2> QED
        BY <1>8, <1>9, <1>10, <2>3 DEF IInv
<1>12. CASE framebuffer # None
    <2>1. PICK u \in DOMAIN bitmap : rect = {u}
        BY <1>1, <1>2, <1>12 DEF IInv, SendInv
    <2>2. \A r \in rects' : \E t \in DOMAIN bitmap : r = {t}
        BY <1>1, <1>2, <1>12 DEF IInv, SendInv
    <2>3. ASSUME NEW t \in desktop
          PROVE  picture'[t] = IF t \in DOMAIN bitmap /\ {t} \notin rects'
                               THEN bitmap[t] ELSE framebuffer[t]
        <3>1. picture[t] = IF t \in DOMAIN bitmap /\ {t} \notin rects
                           THEN bitmap[t] ELSE framebuffer[t]
            BY <1>2, <1>12 DEF IInv, SendInv
        <3>2. CASE t = u
            BY <1>1, <2>1, <3>2
        <3>3. CASE t # u
            <4>1. {t} \in rects' <=> {t} \in rects
                BY <1>1, <2>1, <3>3
            <4>2. picture'[t] = picture[t]
                BY <1>1, <2>1, <3>3
            <4> QED
                BY <3>1, <4>1, <4>2
        <3> QED
            BY <3>2, <3>3
    <2>4. SendInv'
        BY <1>3, <1>12, <2>2, <2>3 DEF SendInv
    <2> QED
        BY <1>8, <1>9, <1>10, <2>4 DEF IInv
<1> QED
    BY <1>11, <1>12

\* The last rectangle of an update has been sent: the framebuffer becomes what
\* the client shows, and each tile of the update has arrived.
LEMMA EndHolds ==
    ASSUME IInv, EndUpdate
    PROVE  IInv'
<1>1. /\ bitmap # None /\ rects = {} /\ bitmap' = None
      /\ UNCHANGED <<screen, modeVars, desktop, streamVars, prev, pending, rects, picture>>
    BY DEF EndUpdate
<1>2. /\ screen' = screen /\ capture' = capture /\ aspect' = aspect /\ desktop' = desktop
      /\ streamSize' = streamSize /\ missed' = missed /\ prev' = prev /\ pending' = pending
      /\ rects' = rects /\ picture' = picture
    BY <1>1 DEF modeVars, streamVars
<1>3. (running \in BOOLEAN)'
    BY <1>1, Zenon DEF IInv, TypeOK, streamVars
<1>4. bitmap \in Bitmaps
    BY <1>1 DEF IInv, TypeOK
<1>5. bitmap = [t \in DOMAIN bitmap |-> bitmap[t]] /\ \A t \in DOMAIN bitmap : bitmap[t] \in Colours
    BY <1>4, BitmapFacts
<1>6. picture = [t \in desktop |-> picture[t]]
    BY DEF IInv, TypeOK
<1>7. \A t \in desktop \cap DOMAIN bitmap : picture[t] = bitmap[t]
    BY <1>1 DEF IInv, SendInv
<1>8. (framebuffer \in Pictures(desktop) \cup {None})' /\ (framebuffer # None => framebuffer = picture)'
    <2>1. CASE DOMAIN bitmap = desktop
        <3>1. framebuffer' = bitmap
            BY <2>1 DEF EndUpdate
        <3>2. bitmap = picture
            BY <1>5, <1>6, <1>7, <2>1
        <3>3. bitmap \in [desktop -> Colours]
            BY <1>5, <2>1
        <3> QED
            BY <1>2, <3>1, <3>2, <3>3 DEF Pictures
    <2>2. CASE DOMAIN bitmap # desktop /\ framebuffer # None
        <3>1. framebuffer' = UpdateDiffs(framebuffer, bitmap)
            BY <2>2 DEF EndUpdate
        <3>2. framebuffer \in [desktop -> Colours]
            BY <2>2 DEF IInv, TypeOK, Pictures
        <3>3. framebuffer' = [t \in desktop |-> IF t \in DOMAIN bitmap THEN bitmap[t] ELSE framebuffer[t]]
            BY <3>1, <3>2 DEF UpdateDiffs
        <3>4. \A t \in desktop :
                 picture[t] = IF t \in DOMAIN bitmap THEN bitmap[t] ELSE framebuffer[t]
            BY <1>1, <2>2 DEF IInv, SendInv
        <3>5. picture = framebuffer'
            BY <1>6, <3>3, <3>4
        <3>6. framebuffer' \in [desktop -> Colours]
            BY <1>5, <3>2, <3>3
        <3> QED
            BY <1>2, <3>5, <3>6 DEF Pictures
    <2>3. CASE DOMAIN bitmap # desktop /\ framebuffer = None
        BY <2>3 DEF EndUpdate
    <2> QED
        BY <2>1, <2>2, <2>3
<1>9. TypeOK'
    <2>1. (bitmap \in Bitmaps \cup {None})'
        BY <1>1
    <2> QED
        BY <1>2, <1>3, <1>8, <2>1 DEF IInv, TypeOK
<1>10. SendInv' /\ ClientHasFramebuffer'
    BY <1>1, <1>8 DEF SendInv, ClientHasFramebuffer
<1>11. WayInv'
    <2> SUFFICES ASSUME prev # None
                 PROVE  \A t \in desktop \cap DOMAIN prev :
                            Covers(pending, t) \/ picture[t] = prev[t]
        BY <1>1, <1>2 DEF IInv, WayInv
    <2> SUFFICES ASSUME NEW t \in desktop \cap DOMAIN prev, ~Covers(pending, t)
                 PROVE  picture[t] = prev[t]
        OBVIOUS
    <2>1. CASE t \in DOMAIN bitmap
        <3>1. picture[t] = bitmap[t]
            BY <1>7, <2>1
        <3>2. bitmap[t] = prev[t]
            BY <1>1, <2>1 DEF IInv, WayInv, PieceOf
        <3> QED
            BY <3>1, <3>2
    <2>2. CASE t \notin DOMAIN bitmap
        BY <2>2 DEF IInv, WayInv
    <2> QED
        BY <2>1, <2>2
<1> QED
    BY <1>9, <1>10, <1>11 DEF IInv

\* What is pending is taken.
LEMMA PopHolds ==
    ASSUME IInv, PopUpdate
    PROVE  IInv'
<1>1. /\ bitmap = None /\ Take(pending)
      /\ UNCHANGED <<screen, modeVars, desktop, streamVars, prev, picture>>
    BY DEF PopUpdate
<1>2. /\ screen' = screen /\ capture' = capture /\ aspect' = aspect /\ desktop' = desktop
      /\ streamSize' = streamSize /\ missed' = missed /\ prev' = prev /\ picture' = picture
    BY <1>1 DEF modeVars, streamVars
<1>3. (running \in BOOLEAN)'
    BY <1>1, Zenon DEF IInv, TypeOK, streamVars
<1>4. TypeOK /\ ClientHasFramebuffer /\ WayInv /\ pending \in Seq(Bitmaps)
    BY DEF IInv, TypeOK
<1>5. /\ pending' \in Seq(Bitmaps) /\ bitmap' \in Bitmaps \cup {None}
      /\ rects' \subseteq SUBSET UNION Sizes /\ framebuffer' = framebuffer
      /\ SendInv' /\ ClientHasFramebuffer'
      /\ PiecesOf(pending, prev) =>
            /\ PiecesOf(pending', prev)
            /\ bitmap' # None => PieceOf(bitmap', prev)
      /\ \A t : Covers(pending, t) =>
            Covers(pending', t) \/ (bitmap' # None /\ t \in DOMAIN bitmap')
    BY <1>1, <1>2, <1>4, TakeHolds
<1>6. TypeOK'
    BY <1>2, <1>3, <1>4, <1>5 DEF TypeOK
<1>7. WayInv'
    BY <1>1, <1>2, <1>4, <1>5 DEF WayInv
<1> QED
    BY <1>5, <1>6, <1>7 DEF IInv

\* A frame is pushed: it becomes the last frame, and what of it the client
\* lacks is on its way.
LEMMA PushHolds ==
    ASSUME IInv, NEW last \in {prev, None}, PushFrame(last), bitmap = None, pending = <<>>,
           UNCHANGED <<screen, modeVars, desktop, running, picture>>,
           streamSize' \in Sizes, missed' \in 0 .. MaxMissed
    PROVE  IInv'
<1> DEFINE frame == Processed(screen)
<1>1. /\ screen' = screen /\ capture' = capture /\ aspect' = aspect /\ desktop' = desktop
      /\ picture' = picture
    BY DEF modeVars
<1>2. (running \in BOOLEAN)'
    BY Zenon DEF IInv, TypeOK
<1>3. TypeOK /\ ClientHasFramebuffer /\ WayInv
    BY DEF IInv
<1>4. frame \in AllPictures
    BY <1>3, ProcessedIsPicture DEF TypeOK
<1>5. prev' = frame /\ Take(Updates(last, frame))
    BY DEF PushFrame
<1> HIDE DEF frame
<1>6. PICK p : p = frame
    OBVIOUS
<1>7. p \in AllPictures /\ DOMAIN p \in Sizes /\ prev' = p /\ Take(Updates(last, p))
    BY <1>4, <1>5, <1>6, PictureFacts
<1>8. /\ Updates(last, p) \in Seq(Bitmaps)
      /\ PiecesOf(Updates(last, p), p)
      /\ \A t \in DOMAIN p :
            \/ Covers(Updates(last, p), t)
            \/ last # None /\ DOMAIN last = DOMAIN p /\ last[t] = p[t]
    BY <1>7, UpdatesOfFrame
<1>9. /\ pending' \in Seq(Bitmaps) /\ bitmap' \in Bitmaps \cup {None}
      /\ rects' \subseteq SUBSET UNION Sizes /\ framebuffer' = framebuffer
      /\ SendInv' /\ ClientHasFramebuffer'
      /\ PiecesOf(pending', p)
      /\ bitmap' # None => PieceOf(bitmap', p)
      /\ \A t : Covers(Updates(last, p), t) =>
            Covers(pending', t) \/ (bitmap' # None /\ t \in DOMAIN bitmap')
    BY <1>1, <1>3, <1>7, <1>8, TakeHolds
<1>10. TypeOK'
    BY <1>1, <1>2, <1>3, <1>7, <1>9 DEF TypeOK
<1>11. ASSUME NEW t \in desktop \cap DOMAIN p, ~Covers(Updates(last, p), t)
       PROVE  picture[t] = p[t]
    <2>1. last # None /\ DOMAIN last = DOMAIN p /\ last[t] = p[t]
        BY <1>8, <1>11
    <2>2. ~Covers(pending, t)
        BY DEF Covers
    <2>3. picture[t] = prev[t]
        BY <1>3, <2>1, <2>2 DEF WayInv
    <2> QED
        BY <2>1, <2>3
<1>12. WayInv'
    BY <1>1, <1>7, <1>9, <1>11 DEF WayInv
<1> QED
    BY <1>9, <1>10, <1>12 DEF IInv

\* The stream is lost or made again without a frame: the last frame is kept or
\* forgotten.
LEMMA StreamHolds ==
    ASSUME IInv, NullSample \/ RecreateFails
    PROVE  IInv'
<1>1. /\ UNCHANGED <<screen, modeVars, desktop, streamSize, pending, encoderVars, picture>>
      /\ prev' \in {prev, None} /\ bitmap = None /\ pending = <<>>
    BY DEF NullSample, RecreateFails, Waiting
<1>2. missed' \in 0 .. MaxMissed
    BY MissedSome DEF NullSample, RecreateFails, IInv, TypeOK
<1>3. (running \in BOOLEAN)'
    BY Zenon DEF NullSample, RecreateFails, IInv, TypeOK
<1>4. /\ screen' = screen /\ capture' = capture /\ aspect' = aspect /\ desktop' = desktop
      /\ streamSize' = streamSize /\ pending' = pending /\ bitmap' = bitmap /\ rects' = rects
      /\ framebuffer' = framebuffer /\ picture' = picture
    BY <1>1 DEF modeVars, encoderVars
<1> QED
    BY <1>1, <1>2, <1>3, <1>4 DEF IInv, TypeOK, SendInv, ClientHasFramebuffer, WayInv, PiecesOf

\* The client has another desktop: every memory is new.
LEMMA ResizedHolds ==
    ASSUME IInv, Resized
    PROVE  IInv'
<1>1. /\ bitmap = None /\ desktop' \in Sizes /\ streamSize' = DOMAIN screen /\ missed' = 0
      /\ prev' = None /\ pending' = <<>> /\ framebuffer' = None
      /\ picture' = [t \in desktop' |-> Blank]
      /\ UNCHANGED <<screen, modeVars, bitmap, rects>>
    BY DEF Resized
<1>2. (running \in BOOLEAN)'
    BY Zenon DEF Resized
<1>3. /\ screen' = screen /\ capture' = capture /\ aspect' = aspect /\ bitmap' = bitmap
      /\ rects' = rects
    BY <1>1 DEF modeVars
<1>4. DOMAIN screen \in Sizes
    BY PictureFacts DEF IInv, TypeOK
<1>5. (missed \in 0 .. MaxMissed)' /\ (pending \in Seq(Bitmaps))'
    BY <1>1, MissedSome
<1>6. (picture \in [desktop -> Colours \cup {Blank}])'
    BY <1>1
<1>7. TypeOK'
    BY <1>1, <1>2, <1>3, <1>4, <1>5, <1>6 DEF IInv, TypeOK
<1> QED
    BY <1>1, <1>7 DEF IInv, SendInv, ClientHasFramebuffer, WayInv, PiecesOf

\* Every step.
LEMMA NextHolds == IInv /\ [Next]_vars => IInv'
<1> SUFFICES ASSUME IInv, [Next]_vars PROVE IInv'
    OBVIOUS
<1>1. CASE Draw \/ ScreenResized
    BY <1>1, ScreenHolds
<1>2. CASE SendRect
    BY <1>2, SendHolds
<1>3. CASE EndUpdate
    BY <1>3, EndHolds
<1>4. CASE PopUpdate
    BY <1>4, PopHolds
<1>5. CASE CaptureCG
    <2>1. /\ PushFrame(prev) /\ bitmap = None /\ pending = <<>>
          /\ UNCHANGED <<screen, modeVars, desktop, running, picture>>
          /\ streamSize' = streamSize /\ missed' = missed
        BY <1>5 DEF CaptureCG, Waiting, streamVars
    <2>2. streamSize' \in Sizes /\ missed' \in 0 .. MaxMissed
        BY <2>1 DEF IInv, TypeOK
    <2> QED
        BY <2>1, <2>2, PushHolds
<1>6. CASE CaptureSample
    <2>1. /\ PushFrame(prev) \/ PushFrame(None)
          /\ bitmap = None /\ pending = <<>>
          /\ UNCHANGED <<screen, modeVars, desktop, running, picture>>
          /\ streamSize' \in {streamSize, DOMAIN screen} /\ missed' = 0
        BY <1>6 DEF CaptureSample, Waiting
    <2>2. DOMAIN screen \in Sizes /\ streamSize \in Sizes
        BY PictureFacts DEF IInv, TypeOK
    <2>3. streamSize' \in Sizes /\ missed' \in 0 .. MaxMissed
        BY <2>1, <2>2, MissedSome
    <2> QED
        BY <2>1, <2>3, PushHolds
<1>7. CASE NullSample \/ RecreateFails
    BY <1>7, StreamHolds
<1>8. CASE Resized
    BY <1>8, ResizedHolds
<1>9. CASE UNCHANGED vars
    <2>1. UNCHANGED <<screen, modeVars, desktop, streamVars, prev, pending, encoderVars, picture>>
        BY <1>9 DEF vars
    <2>2. /\ screen' = screen /\ capture' = capture /\ aspect' = aspect /\ desktop' = desktop
          /\ streamSize' = streamSize /\ missed' = missed /\ prev' = prev /\ pending' = pending
          /\ bitmap' = bitmap /\ rects' = rects /\ framebuffer' = framebuffer
          /\ picture' = picture
        BY <2>1 DEF modeVars, streamVars, encoderVars
    <2>3. (running \in BOOLEAN)'
        BY <2>1, Zenon DEF IInv, TypeOK, streamVars
    <2> QED
        BY <2>2, <2>3 DEF IInv, TypeOK, SendInv, ClientHasFramebuffer, WayInv
<1> QED
    BY <1>1, <1>2, <1>3, <1>4, <1>5, <1>6, <1>7, <1>8, <1>9 DEF Next, Sends, Captures

\* A connection begins with a black screen and nothing on its way.
LEMMA InitHolds == Init => IInv
<1> SUFFICES ASSUME Init PROVE IInv
    OBVIOUS
<1>1. screen \in AllPictures
    <2>1. PICK size \in Sizes : screen = [t \in size |-> Black]
        BY DEF Init
    <2>2. Black \in Colours
        BY PictureAssumption, Zenon
    <2>3. screen \in Pictures(size)
        BY <2>1, <2>2 DEF Pictures
    <2> QED
        BY <2>3 DEF AllPictures
<1>2. DOMAIN screen \in Sizes
    BY <1>1, PictureFacts
<1>3. /\ capture \in {"sckit", "cgdisplay"} /\ aspect \in {"fit", "native"} /\ desktop \in Sizes
      /\ streamSize = DOMAIN screen /\ missed = 0 /\ prev = None /\ pending = <<>>
      /\ bitmap = None /\ rects = {} /\ framebuffer = None
      /\ picture = [t \in desktop |-> Blank]
    BY DEF Init
<1>4. running \in BOOLEAN
    BY Zenon DEF Init
<1>5. missed \in 0 .. MaxMissed
    BY <1>3, MissedSome
<1>6. TypeOK
    BY <1>1, <1>2, <1>3, <1>4, <1>5 DEF TypeOK
<1> QED
    BY <1>3, <1>6 DEF IInv, SendInv, ClientHasFramebuffer, WayInv, PiecesOf

\* The invariant holds of every connection.
LEMMA Invariance == Spec => []IInv
BY InitHolds, NextHolds, PTL DEF Spec

-----------------------------------------------------------------------------
(* What follows from the invariant. *)

\* Frames, bitmaps and pictures are what push_frame, bitmap_diffs and the client
\* take them for.
THEOREM TypeCorrect == Spec => []TypeOK
<1>1. IInv => TypeOK
    BY DEF IInv
<1> QED
    BY <1>1, Invariance, PTL

\* What is on its way are pieces of the last frame, and what is not on its way
\* has arrived.
LEMMA WayIsOnItsWay == IInv => LastFrameIsOnItsWay
<1> SUFFICES ASSUME IInv, prev # None, NEW t \in desktop \cap DOMAIN prev
             PROVE  /\ \A k \in DOMAIN OnItsWay : t \in DOMAIN OnItsWay[k] => OnItsWay[k][t] = prev[t]
                    /\ (\A k \in DOMAIN OnItsWay : t \notin DOMAIN OnItsWay[k]) => picture[t] = prev[t]
    BY DEF LastFrameIsOnItsWay, Paints
<1>1. /\ PiecesOf(pending, prev)
      /\ bitmap # None => PieceOf(bitmap, prev)
      /\ Covers(pending, t) \/ (bitmap # None /\ t \in DOMAIN bitmap) \/ picture[t] = prev[t]
    BY DEF IInv, WayInv
<1>2. pending \in Seq(Bitmaps) /\ bitmap \in Bitmaps \cup {None}
    BY DEF IInv, TypeOK
<1>3. CASE bitmap = None
    <2>1. OnItsWay = pending
        BY <1>2, <1>3 DEF OnItsWay
    <2> QED
        BY <1>1, <1>3, <2>1 DEF PiecesOf, PieceOf, Covers
<1>4. CASE bitmap # None
    <2>1. PICK head \in Seq(Bitmaps) : head = <<bitmap>>
        <3>1. PICK b \in Bitmaps : b = bitmap
            BY <1>2, <1>4
        <3>2. <<b>> \in Seq(Bitmaps)
            OBVIOUS
        <3> QED
            BY <3>1, <3>2
    <2>2. Len(head) = 1 /\ head[1] = bitmap /\ Len(pending) \in Nat /\ DOMAIN pending = 1 .. Len(pending)
        BY <1>2, <2>1
    <2>3. OnItsWay = head \o pending
        BY <1>4, <2>1 DEF OnItsWay
    <2>4. /\ DOMAIN OnItsWay = 1 .. Len(pending) + 1
          /\ OnItsWay[1] = bitmap
          /\ \A k \in 1 .. Len(pending) : OnItsWay[k + 1] = pending[k]
        BY <1>2, <2>1, <2>2, <2>3
    <2>5. \A k \in DOMAIN OnItsWay : k = 1 \/ k - 1 \in 1 .. Len(pending)
        BY <2>2, <2>4
    <2>6. \A k \in DOMAIN OnItsWay : PieceOf(OnItsWay[k], prev)
        <3> SUFFICES ASSUME NEW k \in DOMAIN OnItsWay PROVE PieceOf(OnItsWay[k], prev)
            OBVIOUS
        <3>1. CASE k = 1
            BY <1>1, <1>4, <2>4, <3>1
        <3>2. CASE k # 1
            <4>1. k - 1 \in 1 .. Len(pending) /\ k \in Nat
                BY <2>2, <2>4, <2>5, <3>2
            <4>2. OnItsWay[k] = pending[k - 1]
                BY <2>4, <4>1
            <4> QED
                BY <1>1, <2>2, <4>1, <4>2 DEF PiecesOf
        <3> QED
            BY <3>1, <3>2
    <2>7. ASSUME \A k \in DOMAIN OnItsWay : t \notin DOMAIN OnItsWay[k] PROVE picture[t] = prev[t]
        <3>1. t \notin DOMAIN bitmap
            BY <2>2, <2>4, <2>7
        <3>2. \A k \in 1 .. Len(pending) : t \notin DOMAIN pending[k]
            BY <2>2, <2>4, <2>7
        <3>3. ~Covers(pending, t)
            BY <2>2, <3>2 DEF Covers
        <3> QED
            BY <1>1, <3>1, <3>3
    <2> QED
        BY <2>6, <2>7 DEF PieceOf
<1> QED
    BY <1>3, <1>4

\* The framebuffer is what the client shows whenever no update is being sent
\* (encoder/mod.rs: bitmap_update_framebuffer), and what the client will show,
\* once all that is on its way has been sent, is the last frame of push_frame
\* (frame_pipeline.rs:92-121).
THEOREM MemoriesAgreeAlways == Spec => []MemoriesAgree
<1>1. IInv => MemoriesAgree
    BY WayIsOnItsWay DEF IInv, MemoriesAgree
<1> QED
    BY <1>1, Invariance, PTL

-----------------------------------------------------------------------------
(* The service the client is promised, step by step. *)

serviceVars == <<prev, bitmap # None \/ pending # <<>>, picture>>

\* A connection begins without a frame.
LEMMA ServiceInit == Init => Service!Init
BY DEF Init, Service!Init, Service!Clean

\* A rectangle paints tiles of the last frame.
LEMMA SendPaints ==
    ASSUME IInv, SendRect
    PROVE  Service!Paint
<1>1. PICK rect \in rects :
         picture' = [t \in desktop |-> IF t \in rect THEN bitmap[t] ELSE picture[t]]
    BY DEF SendRect
<1>2. bitmap # None /\ prev' = prev /\ pending' = pending /\ bitmap' = bitmap
    BY DEF SendRect
<1>3. rect \subseteq DOMAIN bitmap
    BY <1>1, <1>2 DEF IInv, SendInv
<1>4. \A t \in rect : t \in DOMAIN prev /\ bitmap[t] = prev[t]
    BY <1>2, <1>3 DEF IInv, WayInv, PieceOf
<1>5. DOMAIN picture = desktop
    BY DEF IInv, TypeOK
<1>6. rect \cap desktop \in SUBSET (DOMAIN prev \cap DOMAIN picture)
    BY <1>4, <1>5
<1>7. picture' = [t \in DOMAIN picture |-> IF t \in rect \cap desktop THEN prev[t] ELSE picture[t]]
    BY <1>1, <1>4, <1>5
<1> QED
    BY <1>2, <1>6, <1>7 DEF Service!Paint

\* When nothing is on its way after a step, the client has all of the last frame.
LEMMA ClientHasFrame ==
    ASSUME IInv', ~(bitmap # None \/ pending # <<>>)', prev' # None, UNCHANGED picture
    PROVE  Service!Has(prev')
<1>1. bitmap' = None /\ pending' = <<>> /\ DOMAIN picture' = desktop'
    BY DEF IInv, TypeOK
<1>2. ASSUME NEW t \in DOMAIN prev' \cap DOMAIN picture
      PROVE  picture[t] = prev'[t]
    BY <1>1 DEF IInv, WayInv, Covers
<1> QED
    BY <1>2 DEF Service!Has

\* The last rectangle of an update has been sent: of the frame, too, when
\* nothing is pending.
LEMMA EndFinishes ==
    ASSUME IInv, IInv', EndUpdate
    PROVE  Service!Finish \/ UNCHANGED serviceVars
<1>1. bitmap # None /\ bitmap' = None /\ UNCHANGED <<prev, pending, picture>>
    BY DEF EndUpdate
<1>2. CASE pending = <<>>
    <2>1. prev # None
        <3>1. bitmap \in Bitmaps
            BY <1>1 DEF IInv, TypeOK
        <3>2. PICK t : t \in DOMAIN bitmap
            BY <3>1, BitmapFacts
        <3>3. t \in DOMAIN prev
            BY <1>1, <3>2 DEF IInv, WayInv, PieceOf
        <3> QED
            BY <3>3 DEF None
    <2>2. Service!Has(prev)
        BY <1>1, <1>2, <2>1, ClientHasFrame
    <2> QED
        BY <1>1, <1>2, <2>2 DEF Service!Finish
<1>3. CASE pending # <<>>
    BY <1>1, <1>3 DEF serviceVars
<1> QED
    BY <1>2, <1>3

\* A frame is pushed when nothing is on its way.
LEMMA PushTakes ==
    ASSUME IInv, IInv', NEW last, PushFrame(last), Waiting, UNCHANGED <<desktop, picture>>
    PROVE  Service!Take
<1>1. prev' \in AllPictures
    BY ProcessedIsPicture DEF PushFrame, IInv, TypeOK
<1>2. prev' # None
    BY <1>1, PictureFacts, BitmapFacts
<1>3. ~(bitmap # None \/ pending # <<>>)
    BY DEF Waiting
<1>4. ~(bitmap # None \/ pending # <<>>)' => Service!Has(prev')
    BY <1>2, ClientHasFrame
<1> QED
    BY <1>1, <1>3, <1>4 DEF Service!Take

\* Every step is one of the service, or none.
LEMMA ServiceNext ==
    ASSUME IInv, IInv', [Next]_vars
    PROVE  [Service!Next]_serviceVars
<1> USE DEF Service!Next
<1>1. CASE Draw \/ ScreenResized
    BY <1>1 DEF Draw, ScreenResized, encoderVars, serviceVars
<1>2. CASE SendRect
    BY <1>2, SendPaints
<1>3. CASE EndUpdate
    BY <1>3, EndFinishes
<1>4. CASE PopUpdate
    <2>1. bitmap = None /\ pending # <<>> /\ bitmap' = Head(pending) /\ UNCHANGED <<prev, picture>>
        BY <1>4 DEF PopUpdate, Take, Encode
    <2>2. Head(pending) \in Bitmaps
        BY <2>1 DEF IInv, TypeOK
    <2>3. bitmap' # None
        BY <2>1, <2>2, BitmapFacts
    <2> QED
        BY <2>1, <2>3 DEF serviceVars
<1>5. CASE CaptureCG
    BY <1>5, PushTakes DEF CaptureCG
<1>6. CASE CaptureSample
    BY <1>6, PushTakes DEF CaptureSample
<1>7. CASE NullSample \/ RecreateFails
    <2>1. /\ bitmap = None /\ pending = <<>> /\ prev' \in {prev, None}
          /\ UNCHANGED <<bitmap, pending, picture>>
        BY <1>7 DEF NullSample, RecreateFails, Waiting, encoderVars
    <2> QED
        BY <2>1 DEF Service!Reset, serviceVars
<1>8. CASE Resized
    <2>1. /\ prev' = None /\ bitmap' = None /\ pending' = <<>> /\ desktop' \in Sizes
          /\ picture' = [t \in desktop' |-> Blank]
        BY <1>8 DEF Resized
    <2> QED
        BY <2>1 DEF Service!Resize, Service!Clean
<1>9. CASE UNCHANGED vars
    BY <1>9 DEF vars, encoderVars, serviceVars
<1> QED
    BY <1>1, <1>2, <1>3, <1>4, <1>5, <1>6, <1>7, <1>8, <1>9 DEF Next, Sends, Captures

\* next_update, push_frame and EncoderIter implement PictureService: the client
\* is painted with one frame after the other (display.rs:562), whatever the sizes
\* of frames and desktops, whatever is lost or reset.
THEOREM Implementation == Spec => ImplementsService
<1>1. IInv /\ IInv' /\ [Next]_vars => [Service!Next]_serviceVars
    BY ServiceNext
<1> QED
    BY <1>1, ServiceInit, Invariance, PTL DEF Spec, ImplementsService, Service!Spec, serviceVars
=============================================================================
