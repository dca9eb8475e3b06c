--------------------------- MODULE ETHResourceManager ---------------------------
(***************************************************************************)
(* The cache of sprites (ETHResourceManager.cpp): a map from file names,   *)
(* without their directories, to the sprite that was loaded first under    *)
(* that name, and whether it is temporary.                                 *)
(*                                                                         *)
(* A file is a record of a directory and a name; a sprite is the file it   *)
(* was loaded from and the video device that holds its texture.            *)
(***************************************************************************)

Sprite(file, device) == [file |-> file, device |-> device]

NoFile == [directory |-> "no directory", name |-> "no file"]
NoSprite == Sprite(NoFile, 0)

EmptyCache == [name \in {} |-> {}]

(* FindSprite goes by the name: it says so if the directory is another one,*)
(* and returns the sprite all the same.                                    *)
FindSprite(cache, file) == cache[file.name].sprite

(* AddFile, for files of different names: what is cached stays as it is.   *)
AddFiles(cache, files, device, temporary) ==
  [name \in DOMAIN cache \union {file.name : file \in files} |->
     IF name \in DOMAIN cache THEN cache[name]
     ELSE [sprite |-> Sprite(CHOOSE file \in files : file.name = name, device),
           temporary |-> temporary]]

Without(cache, names) == [name \in DOMAIN cache \ names |-> cache[name]]

ReleaseTemporaryResources(cache) ==
  Without(cache, {name \in DOMAIN cache : cache[name].temporary})

ReleaseResource(cache, file) == Without(cache, {file.name})

===============================================================================
