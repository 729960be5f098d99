-------------------------- MODULE FormatCoordinates --------------------------
(***************************************************************************)
(* Where each package format files an upload.  An adapter derives three   *)
(* coordinates from what it parses: the package name, the version key     *)
(* (the unique row it competes for) and the blob-reference scope (the     *)
(* address the bytes are stored and usually downloaded under).  Formats   *)
(* differ in what enters each of them, which decides what conflicts.      *)
(*                                                                         *)
(* An upload u is a record; the text of names and versions is abstracted   *)
(* to the distinctions some adapter makes:                                 *)
(*   version  the version proper                                           *)
(*   caps     the name is spelled with capitals                            *)
(*   meta     the version carries build metadata ("+b")                    *)
(*   arch     architecture, platform, subdir, provider or bottle tag       *)
(*   part     a last distinction: epoch, build, kind, file name            *)
(***************************************************************************)

(* packages.name, package_versions.version, blob_refs.scope. *)
File(package, key, scope) == [package |-> package, key |-> key, scope |-> scope]

Spelled(u) == <<"name", u.caps>>                \* the name as uploaded
Lower(u) == <<"name", FALSE>>                   \* name.toLowerCase()
Raw(u) == <<u.version, u.meta>>                 \* the version as uploaded
Normalized(u) == <<u.version, FALSE>>           \* without build metadata

-----------------------------------------------------------------------------
(* Immutable formats: one blob per version row.                           *)
Alpine(u) == File(Spelled(u), <<u.arch, Raw(u)>>, <<u.arch, Spelled(u), Raw(u)>>)
Ansible(u) == File(Spelled(u), Raw(u), <<Spelled(u), Raw(u)>>)
Arch(u) == File(Spelled(u), Raw(u), <<Spelled(u), Raw(u), u.arch>>)
Cargo(u) == File(Lower(u), Raw(u), <<Lower(u), Raw(u)>>)
Chef(u) == File(Spelled(u), Raw(u), <<Spelled(u), Raw(u)>>)
Chocolatey(u) == File(Lower(u), Normalized(u), <<Lower(u), Normalized(u)>>)
Cocoapods(u) == File(Spelled(u), Raw(u), <<Spelled(u), Raw(u)>>)
Composer(u) == File(Lower(u), Raw(u), <<Lower(u), Raw(u)>>)
Conda(u) == File(Spelled(u), <<Raw(u), u.part>>, <<u.arch, Spelled(u), Raw(u), u.part>>)
Cran(u) == File(Spelled(u), Raw(u), <<Spelled(u), Raw(u)>>)
Go(u) == File(Spelled(u), Raw(u), <<Spelled(u), Raw(u)>>)
Hackage(u) == File(Spelled(u), Raw(u), <<Spelled(u), Raw(u)>>)
Hex(u) == File(Spelled(u), Raw(u), <<Spelled(u), Raw(u)>>)
NixNar(u) == File(<<"nar", u.part>>, "narinfo", <<"nar", u.part>>)
NixNarInfo(u) == File(<<"narinfo", u.part>>, "narinfo", <<"narinfo", u.part>>)
Npm(u) == File(Spelled(u), Raw(u), <<Spelled(u), Raw(u)>>)
Nuget(u) == File(Lower(u), Normalized(u), <<Lower(u), Normalized(u)>>)
Opam(u) == File(Spelled(u), Raw(u), <<Spelled(u), Raw(u), u.part>>)
P2(u) == File(Spelled(u), Raw(u), <<u.part, Spelled(u), Raw(u)>>)
Pub(u) == File(Spelled(u), Raw(u), <<Spelled(u), Raw(u)>>)
Puppet(u) == File(Spelled(u), Raw(u), <<Spelled(u), Raw(u)>>)
(* The epoch is part of the version key and not of the file name. *)
Rpm(u) == File(Spelled(u), <<u.part, Raw(u), u.arch>>, <<Spelled(u), Raw(u), u.arch>>)
Rubygems(u) == File(Spelled(u), <<Raw(u), u.arch>>, <<Spelled(u), Raw(u), u.arch>>)
Scoop(u) == File(Spelled(u), Raw(u), <<Spelled(u), Raw(u), u.part>>)
Swift(u) == File(Lower(u), Raw(u), <<Lower(u), Raw(u)>>)
TerraformModule(u) == File(Spelled(u), Raw(u), <<Spelled(u), Raw(u)>>)
(* The committed blob is SHASUMS; zips and signature have their own scopes. *)
TerraformProvider(u) == File(Spelled(u), Raw(u), <<Spelled(u), Raw(u), "SHASUMS">>)
ProviderZip(u) == <<Spelled(u), Raw(u), u.arch>>
ProviderSignature(u) == <<Spelled(u), Raw(u), "SHASUMS.sig">>
Winget(u) == File(Lower(u), Raw(u), <<Spelled(u), Raw(u), u.part>>)

(* Formats whose version row gathers several files.                       *)
Pypi(u) == File(Lower(u), Raw(u), <<Lower(u), Raw(u), u.part>>)
Homebrew(u) == File(Spelled(u), Raw(u), <<Spelled(u), Raw(u), u.arch>>)
Vagrant(u) == File(Spelled(u), Raw(u), <<Spelled(u), Raw(u), u.arch>>)
Luarocks(u) == File(Spelled(u), Raw(u), <<Spelled(u), Raw(u), u.arch>>)
(* u.version stands for the recipe or package revision. *)
Conan(u) == File(Spelled(u), u.version, <<Spelled(u), u.version, u.part>>)

(* Path-addressed formats: the scope is the path in the request.          *)
Apt(u) == File(Spelled(u), Raw(u), <<"pool", Spelled(u), Raw(u), u.arch>>)
Maven(u) == File(Spelled(u), Raw(u), <<Spelled(u), Raw(u), u.part>>)
Ivy(u) == File(Spelled(u), Raw(u), <<Spelled(u), Raw(u), u.part>>)

-----------------------------------------------------------------------------
(* The adapters by the way they publish.                                   *)

(* publishImmutableVersionBlob: one blob, one new version row, one asset. *)
SingleFile == {"alpine", "ansible", "arch", "cargo", "chef", "chocolatey", "cocoapods",
               "composer", "conda", "cran", "go", "hackage", "hex", "nix_nar", "nix_narinfo",
               "npm", "nuget", "opam", "p2", "pub", "puppet", "rpm", "rubygems", "scoop",
               "swift", "terraform_module", "winget"}
(* Several references per version and no asset. *)
Bundle == {"terraform_provider"}
(* Create the row, else add the file to it. *)
MultiFile == {"pypi", "homebrew", "vagrant", "luarocks"}
(* A path may be written again and serves the last content. *)
PathStore == {"maven", "ivy"}

Formats == SingleFile \cup Bundle \cup MultiFile \cup PathStore \cup {"apt", "conan"}

(* Formats whose download looks the asset up by its scope; the others take *)
(* the digest from the live version row.                                   *)
ServedByAsset == {"apt", "arch", "composer", "homebrew", "ivy", "maven", "p2", "pypi",
                  "rpm", "rubygems"}

(* The coordinates of upload u in format f. *)
Coordinates(f, u) ==
    CASE f = "alpine" -> Alpine(u)         [] f = "ansible" -> Ansible(u)
      [] f = "apt" -> Apt(u)               [] f = "arch" -> Arch(u)
      [] f = "cargo" -> Cargo(u)           [] f = "chef" -> Chef(u)
      [] f = "chocolatey" -> Chocolatey(u) [] f = "cocoapods" -> Cocoapods(u)
      [] f = "composer" -> Composer(u)     [] f = "conan" -> Conan(u)
      [] f = "conda" -> Conda(u)           [] f = "cran" -> Cran(u)
      [] f = "go" -> Go(u)                 [] f = "hackage" -> Hackage(u)
      [] f = "hex" -> Hex(u)               [] f = "homebrew" -> Homebrew(u)
      [] f = "ivy" -> Ivy(u)               [] f = "luarocks" -> Luarocks(u)
      [] f = "maven" -> Maven(u)           [] f = "nix_nar" -> NixNar(u)
      [] f = "nix_narinfo" -> NixNarInfo(u) [] f = "npm" -> Npm(u)
      [] f = "nuget" -> Nuget(u)           [] f = "opam" -> Opam(u)
      [] f = "p2" -> P2(u)                 [] f = "pub" -> Pub(u)
      [] f = "puppet" -> Puppet(u)         [] f = "pypi" -> Pypi(u)
      [] f = "rpm" -> Rpm(u)               [] f = "rubygems" -> Rubygems(u)
      [] f = "scoop" -> Scoop(u)           [] f = "swift" -> Swift(u)
      [] f = "terraform_module" -> TerraformModule(u)
      [] f = "terraform_provider" -> TerraformProvider(u)
      [] f = "vagrant" -> Vagrant(u)       [] f = "winget" -> Winget(u)
=============================================================================
